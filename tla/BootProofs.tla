----------------------------- MODULE BootProofs -----------------------------
(***************************************************************************)
(* A gateway that comes up has the table, the keys and the policy of its   *)
(* file, and one that does not names the first defect of it, for files of  *)
(* any size and any environment.                                           *)
(***************************************************************************)
EXTENDS Boot, DataTheorems

HeadSound == raw.listen \in Addresses /\ raw.backends # <<>>

InputsOK == file \in Files /\ environment \in Envs

(* What a loop has resolved is the beginning of the file's list, all of it  *)
(* sound, and it remembers the names and the secrets that it has passed.    *)
BackendsPrefix ==
  /\ backends \in Seq({Resolved(raw.backends[i]): i \in 1..Len(raw.backends)})
  /\ Len(backends) <= Len(raw.backends)
  /\ \A i \in 1..Len(backends):
       backends[i] = Resolved(raw.backends[i]) /\ GoodBackend(i)
  /\ backend_names = {raw.backends[i].name: i \in 1..Len(backends)}

ResolvedKey(vk) ==
  [name |-> vk.name, key |-> env(vk.key_env), enforce_private |-> vk.enforce_private]

KeysPrefix ==
  /\ virtual_keys \in Seq({ResolvedKey(raw.virtual_keys[i]):
                             i \in 1..Len(raw.virtual_keys)})
  /\ Len(virtual_keys) <= Len(raw.virtual_keys)
  /\ \A i \in 1..Len(virtual_keys):
       virtual_keys[i] = ResolvedKey(raw.virtual_keys[i]) /\ GoodKey(i)
  /\ vk_names = {raw.virtual_keys[i].name: i \in 1..Len(virtual_keys)}
  /\ vk_secrets = {env(raw.virtual_keys[i].key_env): i \in 1..Len(virtual_keys)}

(* Where main is says how far they got.                                     *)
StageOK ==
  /\ stage \in {"load", "backends", "keys", "policy", "state", "bind",
                "serving", "failed"}
  /\ stage = "load" => Len(backends) = 0
  /\ stage \in {"load", "backends"} => Len(virtual_keys) = 0
  /\ stage \notin {"load", "failed"} => HeadSound
  /\ stage = "load" => n = 1
  /\ stage = "backends" => n = Len(backends) + 1
  /\ stage = "keys" => n = Len(virtual_keys) + 1
  /\ stage \in {"keys", "policy", "state", "bind", "serving"} =>
       Len(backends) = Len(raw.backends)
  /\ stage \in {"policy", "state", "bind", "serving"} =>
       Len(virtual_keys) = Len(raw.virtual_keys)
  /\ stage \in {"state", "bind", "serving"} =>
       policy = raw.policy /\ AlphaAsserted(raw.policy)

KeyStoreOK ==
  /\ stage \in {"load", "backends", "keys", "policy", "state"} => keys = <<>>
  /\ stage \in {"bind", "serving"} => keys = from_virtual_keys(virtual_keys)
  /\ keys = <<>> \/ keys = from_virtual_keys(virtual_keys)

(* An error of stage s at entry k is right: there is a defect, and none     *)
(* before it.                                                               *)
Diagnosis(s, k) ==
  /\ s = "load" => (file.read = "Ok" => ~HeadSound)
  /\ s = "backends" =>
       HeadSound /\ ~GoodBackend(k) /\ \A i \in 1..(k - 1): GoodBackend(i)
  /\ s = "keys" =>
       /\ \A i \in DOMAIN raw.backends: GoodBackend(i)
       /\ ~GoodKey(k) /\ \A i \in 1..(k - 1): GoodKey(i)
  /\ s = "policy" =>
       /\ \A i \in DOMAIN raw.virtual_keys: GoodKey(i)
       /\ ~AlphaAsserted(raw.policy)

Kinds == ConfigErrors \cup {"HttpClient", "Bind"}

ErrorOK ==
  /\ stage # "failed" => error = NoError
  /\ stage = "failed" =>
       \E s, k: \E kind \in Kinds:
         error = [stage |-> s, entry |-> k, kind |-> kind] /\ Diagnosis(s, k)

IInv ==
  /\ InputsOK /\ BackendsPrefix /\ KeysPrefix /\ StageOK /\ KeyStoreOK /\ ErrorOK

-----------------------------------------------------------------------------
(* The inputs stay, and with them all that is said of them.                 *)
LEMMA SameFile ==
  ASSUME UNCHANGED inputVars
  PROVE  /\ raw' = raw /\ file' = file /\ environment' = environment
         /\ \A i: GoodBackend(i)' <=> GoodBackend(i)
         /\ \A i: GoodKey(i)' <=> GoodKey(i)
         /\ \A b: Resolved(b)' = Resolved(b)
         /\ \A vk: ResolvedKey(vk)' = ResolvedKey(vk)
         /\ \A var: env(var)' = env(var)
         /\ \A s, k: Diagnosis(s, k)' <=> Diagnosis(s, k)
         /\ HeadSound' <=> HeadSound
<1>1. file' = file /\ environment' = environment
  BY DEF inputVars
<1> USE <1>1 DEF raw
<1>2. raw' = raw /\ HeadSound' = HeadSound
  BY DEF HeadSound
<1>3. \A var: env(var)' = env(var)
  BY DEF env
<1>4. \A i: GoodBackend(i)' <=> GoodBackend(i)
  BY DEF GoodBackend, GoodVar
<1>5. \A i: GoodKey(i)' <=> GoodKey(i)
  BY DEF GoodKey, GoodVar
<1>6. \A b: Resolved(b)' = Resolved(b)
  BY <1>3 DEF Resolved
<1>7. \A vk: ResolvedKey(vk)' = ResolvedKey(vk)
  BY <1>3 DEF ResolvedKey
<1>8. \A s, k: Diagnosis(s, k)' <=> Diagnosis(s, k)
  BY <1>2, <1>4, <1>5 DEF Diagnosis, AlphaAsserted
<1> QED BY <1>1, <1>2, <1>3, <1>4, <1>5, <1>6, <1>7, <1>8

(* What resolving leaves alone, and what it looks up.                       *)
LEMMA ResolvedFields ==
  /\ \A b: /\ Resolved(b).models = b.models /\ Resolved(b).privacy = b.privacy
           /\ Resolved(b).base_url = Trimmed[env(b.base_url_env)]
  /\ \A vk: /\ ResolvedKey(vk).key = env(vk.key_env) /\ ResolvedKey(vk).name = vk.name
            /\ ResolvedKey(vk).enforce_private = vk.enforce_private
BY DEF Resolved, ResolvedKey

(* The lists of the file.                                                   *)
LEMMA RawTypes ==
  ASSUME InputsOK
  PROVE  /\ raw.backends \in Seq(BackendEntry)
         /\ raw.virtual_keys \in Seq(KeyEntry)
         /\ file.read \in {"NotFound", "Io", "Parse", "Ok"}
         /\ NoVar \notin DOMAIN environment
         /\ \A var \in DOMAIN environment: environment[var] # Unset
BY BootAssumption DEF InputsOK, raw

(* A variable is unset if the environment does not have it.                 *)
LEMMA EnvUnset ==
  ASSUME InputsOK, NEW var
  PROVE  /\ env(var) = Unset <=> var \notin DOMAIN environment
         /\ var \in DOMAIN environment => env(var) = environment[var]
BY RawTypes DEF env

-----------------------------------------------------------------------------
(* The checks of an entry find its defects, and no others.                  *)
LEMMA BackendChecksExact ==
  ASSUME InputsOK, BackendsPrefix, n \in 1..Len(raw.backends), n = Len(backends) + 1
  PROVE  Failing(BackendChecks(raw.backends[n])) = {} <=> GoodBackend(n)
<1> DEFINE b == raw.backends[n]
           checks == BackendChecks(b)
<1>1. b.name \in backend_names <=> \E j \in 1..(n - 1): raw.backends[j].name = b.name
  BY DEF BackendsPrefix
<1>2. /\ DOMAIN checks = 1..10
      /\ checks[1][1] = (b.name = "")
      /\ checks[2][1] = (b.name \in backend_names)
      /\ checks[3][1] = (b.base_url_env \notin EnvNames)
      /\ checks[4][1] = (env(b.base_url_env) = Unset)
      /\ checks[5][1] = (env(b.base_url_env) \notin HttpUrls)
      /\ checks[6][1] = (b.api_key_env # NoVar /\ b.api_key_env \notin EnvNames)
      /\ checks[7][1] = (b.api_key_env # NoVar /\ env(b.api_key_env) = Unset)
      /\ checks[8][1] = (b.models = {})
      /\ checks[9][1] = ("" \in b.models)
      /\ checks[10][1] = ("" \in b.capability_tags)
  BY DEF BackendChecks
<1>3. Failing(checks) = {} <=> \A i \in 1..10: ~checks[i][1]
  <2> HIDE DEF checks
  <2> QED BY <1>2 DEF Failing
<1>4. /\ env(b.base_url_env) = Unset <=> b.base_url_env \notin DOMAIN environment
      /\ env(b.api_key_env) = Unset <=> b.api_key_env \notin DOMAIN environment
      /\ b.base_url_env \in DOMAIN environment =>
           env(b.base_url_env) = environment[b.base_url_env]
  BY EnvUnset
<1>5. GoodBackend(n) <=>
        /\ b.name # "" /\ ~(b.name \in backend_names)
        /\ b.base_url_env \in EnvNames /\ b.base_url_env \in DOMAIN environment
        /\ environment[b.base_url_env] \in HttpUrls
        /\ \/ b.api_key_env = NoVar
           \/ b.api_key_env \in EnvNames /\ b.api_key_env \in DOMAIN environment
        /\ b.models # {} /\ "" \notin b.models /\ "" \notin b.capability_tags
  BY <1>1 DEF GoodBackend, GoodVar
<1> HIDE DEF b, checks
<1>6. (\A i \in 1..10: ~checks[i][1]) <=>
        /\ ~checks[1][1] /\ ~checks[2][1] /\ ~checks[3][1] /\ ~checks[4][1]
        /\ ~checks[5][1] /\ ~checks[6][1] /\ ~checks[7][1] /\ ~checks[8][1]
        /\ ~checks[9][1] /\ ~checks[10][1]
  OBVIOUS
<1>7. Failing(checks) = {} <=> GoodBackend(n)
  BY <1>2, <1>3, <1>4, <1>5, <1>6
<1> QED BY <1>7 DEF checks, b

LEMMA KeyChecksExact ==
  ASSUME InputsOK, KeysPrefix, n \in 1..Len(raw.virtual_keys),
         n = Len(virtual_keys) + 1
  PROVE  Failing(KeyChecks(raw.virtual_keys[n])) = {} <=> GoodKey(n)
<1> DEFINE vk == raw.virtual_keys[n]
           checks == KeyChecks(vk)
           key(j) == raw.virtual_keys[j].key_env
<1>1. vk.name \in vk_names <=> \E j \in 1..(n - 1): raw.virtual_keys[j].name = vk.name
  BY DEF KeysPrefix
<1>2. env(vk.key_env) \in vk_secrets <=>
        \E j \in 1..(n - 1): environment[key(j)] = env(vk.key_env)
  <2>1. env(vk.key_env) \in vk_secrets <=>
          \E j \in 1..(n - 1): env(key(j)) = env(vk.key_env)
    BY DEF KeysPrefix
  <2>2. \A j \in 1..(n - 1): env(key(j)) = environment[key(j)]
    <3> SUFFICES ASSUME NEW j \in 1..(n - 1) PROVE env(key(j)) = environment[key(j)]
      OBVIOUS
    <3>1. GoodKey(j)
      BY DEF KeysPrefix
    <3>2. key(j) \in DOMAIN environment
      BY <3>1 DEF GoodKey, GoodVar
    <3> QED BY <3>2, EnvUnset
  <2> QED BY <2>1, <2>2
<1>3. /\ DOMAIN checks = 1..6
      /\ checks[1][1] = (vk.name = "")
      /\ checks[2][1] = (vk.name \in vk_names)
      /\ checks[3][1] = (vk.key_env \notin EnvNames)
      /\ checks[4][1] = (env(vk.key_env) = Unset)
      /\ checks[5][1] = (env(vk.key_env) = "")
      /\ checks[6][1] = (env(vk.key_env) \in vk_secrets)
  BY DEF KeyChecks
<1>4. Failing(checks) = {} <=> \A i \in 1..6: ~checks[i][1]
  <2> HIDE DEF checks
  <2> QED BY <1>3 DEF Failing
<1>5. /\ env(vk.key_env) = Unset <=> vk.key_env \notin DOMAIN environment
      /\ vk.key_env \in DOMAIN environment => env(vk.key_env) = environment[vk.key_env]
  BY EnvUnset
<1>6. GoodKey(n) <=>
        /\ vk.name # "" /\ vk.key_env \in EnvNames /\ vk.key_env \in DOMAIN environment
        /\ environment[vk.key_env] # ""
        /\ ~(vk.name \in vk_names)
        /\ ~\E j \in 1..(n - 1): environment[key(j)] = environment[vk.key_env]
  BY <1>1 DEF GoodKey, GoodVar
<1> HIDE DEF vk, checks, key
<1>7. (\A i \in 1..6: ~checks[i][1]) <=>
        /\ ~checks[1][1] /\ ~checks[2][1] /\ ~checks[3][1]
        /\ ~checks[4][1] /\ ~checks[5][1] /\ ~checks[6][1]
  OBVIOUS
<1>8. Failing(checks) = {} <=> GoodKey(n)
  BY <1>2, <1>3, <1>4, <1>5, <1>6, <1>7
<1> QED BY <1>8 DEF checks, vk

(* The error is that of a check.                                            *)
LEMMA FirstFailing ==
  ASSUME NEW checks, NEW m \in Nat, DOMAIN checks = 1..m, Failing(checks) # {}
  PROVE  Min(Failing(checks)) \in 1..m
<1>1. Failing(checks) \subseteq 1..m /\ IsFiniteSet(1..m)
  BY FS_Interval DEF Failing
<1>2. IsFiniteSet(Failing(checks)) /\ Failing(checks) \subseteq Int
  BY <1>1, FS_Subset
<1>3. Min(Failing(checks)) \in Failing(checks)
  BY <1>2, MinProperty
<1> QED
  BY <1>1, <1>3

LEMMA CheckKinds ==
  /\ \A b: /\ DOMAIN BackendChecks(b) = 1..10
           /\ \A i \in 1..10: BackendChecks(b)[i][2] \in Kinds
  /\ \A vk: /\ DOMAIN KeyChecks(vk) = 1..6
            /\ \A i \in 1..6: KeyChecks(vk)[i][2] \in Kinds
<1>1. ASSUME NEW b
      PROVE  /\ DOMAIN BackendChecks(b) = 1..10
             /\ \A i \in 1..10: BackendChecks(b)[i][2] \in Kinds
  <2> DEFINE checks == BackendChecks(b)
  <2>1. /\ DOMAIN checks = 1..10
        /\ checks[1][2] = "EmptyBackendName" /\ checks[2][2] = "DuplicateBackend"
        /\ checks[3][2] = "InvalidEnvName" /\ checks[4][2] = "MissingEnv"
        /\ checks[5][2] = "InvalidBaseUrl" /\ checks[6][2] = "InvalidEnvName"
        /\ checks[7][2] = "MissingEnv" /\ checks[8][2] = "NoModels"
        /\ checks[9][2] = "EmptyEntry" /\ checks[10][2] = "EmptyEntry"
    BY DEF BackendChecks
  <2> HIDE DEF checks
  <2>2. \A i \in 1..10: checks[i][2] \in Kinds
    BY <2>1 DEF Kinds, ConfigErrors
  <2> QED BY <2>1, <2>2 DEF checks
<1>2. ASSUME NEW vk
      PROVE  /\ DOMAIN KeyChecks(vk) = 1..6
             /\ \A i \in 1..6: KeyChecks(vk)[i][2] \in Kinds
  <2> DEFINE checks == KeyChecks(vk)
  <2>1. /\ DOMAIN checks = 1..6
        /\ checks[1][2] = "EmptyVirtualKeyName" /\ checks[2][2] = "DuplicateVirtualKey"
        /\ checks[3][2] = "InvalidKeyEnvName" /\ checks[4][2] = "MissingKeyEnv"
        /\ checks[5][2] = "EmptyVirtualKey"
        /\ checks[6][2] = "DuplicateVirtualKeySecret"
    BY DEF KeyChecks
  <2> HIDE DEF checks
  <2>2. \A i \in 1..6: checks[i][2] \in Kinds
    BY <2>1 DEF Kinds, ConfigErrors
  <2> QED BY <2>1, <2>2 DEF checks
<1> QED BY <1>1, <1>2

LEMMA BackendErrors ==
  ASSUME NEW b, Failing(BackendChecks(b)) # {}
  PROVE  BackendChecks(b)[Min(Failing(BackendChecks(b)))][2] \in Kinds
<1>1. Min(Failing(BackendChecks(b))) \in 1..10
  BY CheckKinds, FirstFailing
<1> QED
  BY <1>1, CheckKinds

LEMMA KeyErrors ==
  ASSUME NEW vk, Failing(KeyChecks(vk)) # {}
  PROVE  KeyChecks(vk)[Min(Failing(KeyChecks(vk)))][2] \in Kinds
<1>1. Min(Failing(KeyChecks(vk))) \in 1..6
  BY CheckKinds, FirstFailing
<1> QED
  BY <1>1, CheckKinds

-----------------------------------------------------------------------------
LEMMA InitIInv == Init => IInv
<1> SUFFICES ASSUME Init PROVE IInv
  OBVIOUS
<1>1. InputsOK /\ ErrorOK
  BY DEF Init, InputsOK, ErrorOK
<1>2. Len(raw.backends) \in Nat /\ Len(raw.virtual_keys) \in Nat
  BY <1>1, RawTypes
<1>3. BackendsPrefix
  BY <1>2 DEF Init, BackendsPrefix
<1>4. KeysPrefix
  BY <1>2 DEF Init, KeysPrefix
<1>5. StageOK /\ KeyStoreOK
  BY DEF Init, StageOK, KeyStoreOK
<1> QED BY <1>1, <1>3, <1>4, <1>5 DEF IInv

(* What stays as long as no entry is resolved.                              *)
LEMMA SamePrefixes ==
  ASSUME IInv, UNCHANGED <<inputVars, seenVars, backends, virtual_keys>>
  PROVE  InputsOK' /\ BackendsPrefix' /\ KeysPrefix'
<1>1. InputsOK'
  BY DEF IInv, InputsOK, inputVars
<1>2. UNCHANGED <<backends, virtual_keys, backend_names, vk_names, vk_secrets>>
  BY DEF seenVars
<1>3. BackendsPrefix'
  BY <1>2, SameFile DEF IInv, BackendsPrefix
<1>4. KeysPrefix'
  BY <1>2, SameFile DEF IInv, KeysPrefix
<1> QED BY <1>1, <1>3, <1>4

LEMMA SameKeyStore ==
  ASSUME UNCHANGED virtual_keys
  PROVE  from_virtual_keys(virtual_keys)' = from_virtual_keys(virtual_keys)
BY DEF from_virtual_keys

(* An error whose diagnosis is right ends the program in a right state.     *)
LEMMA FailStep ==
  ASSUME IInv, NEW kind \in Kinds, Fail(kind), Diagnosis(stage, n)
  PROVE  IInv'
<1>1. UNCHANGED <<inputVars, n, seenVars, configVars, keys>> /\ stage' = "failed"
  BY DEF Fail
<1>2. UNCHANGED <<backends, virtual_keys, policy>>
  BY <1>1 DEF configVars
<1>3. InputsOK' /\ BackendsPrefix' /\ KeysPrefix'
  BY <1>1, <1>2, SamePrefixes
<1>4. StageOK'
  BY <1>1, <1>2 DEF StageOK
<1>5. KeyStoreOK'
  BY <1>1, <1>2, SameKeyStore DEF IInv, KeyStoreOK
<1>6. ErrorOK'
  <2>1. error' = [stage |-> stage, entry |-> n, kind |-> kind]
    BY DEF Fail
  <2>2. \E s, k: error' = [stage |-> s, entry |-> k, kind |-> kind] /\ Diagnosis(s, k)'
    BY <1>1, <2>1, SameFile
  <2> QED BY <1>1, <2>2 DEF ErrorOK, Kinds
<1> QED BY <1>3, <1>4, <1>5, <1>6 DEF IInv

LEMMA LoadStep ==
  ASSUME IInv, Load
  PROVE  IInv'
<1> DEFINE checks == << <<raw.listen \notin Addresses, "InvalidListen">>,
                        <<raw.backends = <<>>, "NoBackends">> >>
<1>1. CASE file.read # "Ok"
  <2>1. Fail(file.read) /\ stage = "load"
    BY <1>1 DEF Load
  <2>2. file.read \in Kinds
    BY <1>1, RawTypes DEF IInv, Kinds, ConfigErrors
  <2>3. Diagnosis("load", n)
    BY <1>1 DEF Diagnosis
  <2> QED BY <2>1, <2>2, <2>3, FailStep
<1>2. CASE file.read = "Ok"
  <2>1. /\ DOMAIN checks = 1..2
        /\ checks[1][1] = (raw.listen \notin Addresses)
        /\ checks[2][1] = (raw.backends = <<>>)
        /\ checks[1][2] = "InvalidListen" /\ checks[2][2] = "NoBackends"
    OBVIOUS
  <2>2. Checked(checks, stage' = "backends" /\ UNCHANGED <<n, seenVars, configVars>>)
    BY <1>2 DEF Load
  <2>3. stage = "load"
    BY DEF Load
  <2> HIDE DEF checks
  <2>4. Failing(checks) = {} <=> HeadSound
    <3>1. Failing(checks) = {} <=> \A i \in 1..2: ~checks[i][1]
      BY <2>1 DEF Failing
    <3>2. (\A i \in 1..2: ~checks[i][1]) <=> ~checks[1][1] /\ ~checks[2][1]
      OBVIOUS
    <3> QED BY <2>1, <3>1, <3>2 DEF HeadSound
  <2>5. CASE Failing(checks) # {}
    <3>1. Fail(checks[Min(Failing(checks))][2])
      BY <2>2, <2>5 DEF Checked
    <3>2. checks[Min(Failing(checks))][2] \in Kinds
      <4>1. Min(Failing(checks)) \in 1..2
        BY <2>1, <2>5, FirstFailing
      <4> QED BY <2>1, <4>1 DEF Kinds, ConfigErrors
    <3>3. Diagnosis("load", n)
      BY <2>4, <2>5 DEF Diagnosis
    <3> QED BY <2>3, <3>1, <3>2, <3>3, FailStep
  <2>6. CASE Failing(checks) = {}
    <3>1. /\ stage' = "backends"
          /\ UNCHANGED <<n, seenVars, configVars, inputVars, error, keys>>
      BY <2>2, <2>6 DEF Checked
    <3>2. UNCHANGED <<backends, virtual_keys, policy>>
      BY <3>1 DEF configVars
    <3>3. InputsOK' /\ BackendsPrefix' /\ KeysPrefix'
      BY <3>1, <3>2, SamePrefixes
    <3>4. StageOK'
      BY <2>3, <2>4, <2>6, <3>1, <3>2, SameFile DEF IInv, StageOK
    <3>5. KeyStoreOK' /\ ErrorOK'
      BY <2>3, <3>1, <3>2 DEF IInv, KeyStoreOK, ErrorOK
    <3> QED BY <3>3, <3>4, <3>5 DEF IInv
  <2> QED BY <2>5, <2>6
<1> QED BY <1>1, <1>2

(* One round of the backend loop.                                           *)
LEMMA BackendStep ==
  ASSUME IInv, ResolveBackend
  PROVE  IInv'
<1> DEFINE b == raw.backends[n]
<1>1. stage = "backends" /\ n <= Len(raw.backends) /\ n = Len(backends) + 1
  BY DEF ResolveBackend, IInv, StageOK
<1>2. raw.backends \in Seq(BackendEntry) /\ Len(backends) \in Nat
  BY RawTypes DEF IInv, BackendsPrefix
<1>3. n \in 1..Len(raw.backends)
  BY <1>1, <1>2
<1>4. Failing(BackendChecks(b)) = {} <=> GoodBackend(n)
  BY <1>1, <1>3, BackendChecksExact DEF IInv
<1>5. CASE Failing(BackendChecks(b)) # {}
  <2>1. Fail(BackendChecks(b)[Min(Failing(BackendChecks(b)))][2])
    BY <1>5 DEF ResolveBackend, Checked
  <2>2. BackendChecks(b)[Min(Failing(BackendChecks(b)))][2] \in Kinds
    BY <1>5, BackendErrors
  <2>3. Diagnosis("backends", n)
    <3>1. HeadSound
      BY <1>1 DEF IInv, StageOK
    <3>2. \A i \in 1..(n - 1): GoodBackend(i)
      BY <1>1, <1>2 DEF IInv, BackendsPrefix
    <3> QED BY <1>4, <1>5, <3>1, <3>2 DEF Diagnosis
  <2> QED BY <1>1, <2>1, <2>2, <2>3, FailStep
<1>6. CASE Failing(BackendChecks(b)) = {}
  <2>1. /\ backend_names' = backend_names \cup {b.name}
        /\ backends' = Append(backends, Resolved(b))
        /\ n' = n + 1
        /\ UNCHANGED <<stage, vk_names, vk_secrets, virtual_keys, policy>>
        /\ UNCHANGED <<inputVars, error, keys>>
    BY <1>6 DEF ResolveBackend, Checked, PushBackend
  <2>2. InputsOK'
    BY <2>1 DEF IInv, InputsOK, inputVars
  <2>3. KeysPrefix'
    BY <2>1, SameFile DEF IInv, KeysPrefix
  <2>4. BackendsPrefix'
    <3> DEFINE R1 == {Resolved(raw.backends[i]): i \in 1..Len(raw.backends)}
    <3>1. backends \in Seq(R1) /\ Resolved(b) \in R1
      BY <1>3 DEF IInv, BackendsPrefix
    <3> HIDE DEF R1
    <3>2. /\ backends' \in Seq(R1) /\ Len(backends') = n
          /\ \A i \in 1..Len(backends): backends'[i] = backends[i]
          /\ backends'[n] = Resolved(b)
      BY <1>1, <2>1, <3>1
    <3>3. R1' = R1
      BY <2>1, SameFile DEF R1
    <3>4. \A i \in 1..Len(backends'):
            backends'[i] = Resolved(raw.backends[i])' /\ GoodBackend(i)'
      <4> SUFFICES ASSUME NEW i \in 1..Len(backends')
                   PROVE  backends'[i] = Resolved(raw.backends[i]) /\ GoodBackend(i)
        BY <2>1, SameFile
      <4>1. CASE i \in 1..Len(backends)
        BY <3>2, <4>1 DEF IInv, BackendsPrefix
      <4>2. CASE i = n
        BY <1>4, <1>6, <3>2, <4>2
      <4> QED BY <1>1, <1>2, <3>2, <4>1, <4>2
    <3>5. backend_names' = {raw.backends[i].name: i \in 1..Len(backends')}
      <4>1. backend_names = {raw.backends[i].name: i \in 1..Len(backends)}
        BY DEF IInv, BackendsPrefix
      <4>2. 1..Len(backends') = 1..Len(backends) \cup {n}
        BY <1>1, <1>2, <3>2
      <4> QED BY <2>1, <4>1, <4>2
    <3>6. raw' = raw
      BY <2>1, SameFile
    <3> QED BY SMTT(30), <1>3, <3>2, <3>3, <3>4, <3>5, <3>6 DEF BackendsPrefix, R1
  <2>5. StageOK'
    <3>1. Len(backends') = n
      BY <1>1, <2>1, <1>2 DEF IInv, BackendsPrefix
    <3>2. HeadSound' /\ stage' = "backends" /\ virtual_keys' = virtual_keys
      BY <1>1, <2>1, SameFile DEF IInv, StageOK
    <3> QED BY <1>1, <2>1, <3>1, <3>2 DEF IInv, StageOK
  <2>6. KeyStoreOK' /\ ErrorOK'
    BY <1>1, <2>1 DEF IInv, KeyStoreOK, ErrorOK
  <2> QED BY <2>2, <2>3, <2>4, <2>5, <2>6 DEF IInv
<1> QED BY <1>5, <1>6

(* One round of the virtual-key loop.                                       *)
LEMMA KeyStep ==
  ASSUME IInv, ResolveKey
  PROVE  IInv'
<1> DEFINE vk == raw.virtual_keys[n]
<1>1. stage = "keys" /\ n <= Len(raw.virtual_keys) /\ n = Len(virtual_keys) + 1
  BY DEF ResolveKey, IInv, StageOK
<1>2. raw.virtual_keys \in Seq(KeyEntry) /\ Len(virtual_keys) \in Nat
  BY RawTypes DEF IInv, KeysPrefix
<1>3. n \in 1..Len(raw.virtual_keys)
  BY <1>1, <1>2
<1>4. Failing(KeyChecks(vk)) = {} <=> GoodKey(n)
  BY <1>1, <1>3, KeyChecksExact DEF IInv
<1>5. CASE Failing(KeyChecks(vk)) # {}
  <2>1. Fail(KeyChecks(vk)[Min(Failing(KeyChecks(vk)))][2])
    BY <1>5 DEF ResolveKey, Checked
  <2>2. KeyChecks(vk)[Min(Failing(KeyChecks(vk)))][2] \in Kinds
    BY <1>5, KeyErrors
  <2>3. Diagnosis("keys", n)
    <3>1. \A i \in 1..Len(raw.backends): GoodBackend(i)
      BY <1>1 DEF IInv, StageOK, BackendsPrefix
    <3>2. \A i \in 1..(n - 1): GoodKey(i)
      BY <1>1, <1>2 DEF IInv, KeysPrefix
    <3>3. DOMAIN raw.backends = 1..Len(raw.backends)
      BY RawTypes DEF IInv
    <3> QED BY <1>4, <1>5, <3>1, <3>2, <3>3 DEF Diagnosis
  <2> QED BY <1>1, <2>1, <2>2, <2>3, FailStep
<1>6. CASE Failing(KeyChecks(vk)) = {}
  <2>1. /\ vk_names' = vk_names \cup {vk.name}
        /\ vk_secrets' = vk_secrets \cup {env(vk.key_env)}
        /\ virtual_keys' = Append(virtual_keys, ResolvedKey(vk))
        /\ n' = n + 1
        /\ UNCHANGED <<stage, backend_names, backends, policy>>
        /\ UNCHANGED <<inputVars, error, keys>>
    BY <1>6 DEF ResolveKey, Checked, ResolvedKey
  <2>2. InputsOK'
    BY <2>1 DEF IInv, InputsOK, inputVars
  <2>3. BackendsPrefix'
    BY <2>1, SameFile DEF IInv, BackendsPrefix
  <2>4. KeysPrefix'
    <3> DEFINE R1 == {ResolvedKey(raw.virtual_keys[i]): i \in 1..Len(raw.virtual_keys)}
    <3>1. virtual_keys \in Seq(R1) /\ ResolvedKey(vk) \in R1
      BY <1>3 DEF IInv, KeysPrefix
    <3> HIDE DEF R1
    <3>2. /\ virtual_keys' \in Seq(R1) /\ Len(virtual_keys') = n
          /\ \A i \in 1..Len(virtual_keys): virtual_keys'[i] = virtual_keys[i]
          /\ virtual_keys'[n] = ResolvedKey(vk)
      BY <1>1, <2>1, <3>1
    <3>3. R1' = R1
      BY <2>1, SameFile DEF R1
    <3>4. \A i \in 1..Len(virtual_keys'):
            virtual_keys'[i] = ResolvedKey(raw.virtual_keys[i])' /\ GoodKey(i)'
      <4> SUFFICES ASSUME NEW i \in 1..Len(virtual_keys')
                   PROVE  virtual_keys'[i] = ResolvedKey(raw.virtual_keys[i])
                          /\ GoodKey(i)
        BY <2>1, SameFile
      <4>1. CASE i \in 1..Len(virtual_keys)
        BY <3>2, <4>1 DEF IInv, KeysPrefix
      <4>2. CASE i = n
        BY <1>4, <1>6, <3>2, <4>2
      <4> QED BY <1>1, <1>2, <3>2, <4>1, <4>2
    <3>5. 1..Len(virtual_keys') = 1..Len(virtual_keys) \cup {n}
      BY <1>1, <1>2, <3>2
    <3>6. vk_names' = {raw.virtual_keys[i].name: i \in 1..Len(virtual_keys')}
      <4>1. vk_names = {raw.virtual_keys[i].name: i \in 1..Len(virtual_keys)}
        BY DEF IInv, KeysPrefix
      <4> QED BY <2>1, <3>5, <4>1
    <3>7. vk_secrets' = {env(raw.virtual_keys[i].key_env)': i \in 1..Len(virtual_keys')}
      <4>1. vk_secrets = {env(raw.virtual_keys[i].key_env): i \in 1..Len(virtual_keys)}
        BY DEF IInv, KeysPrefix
      <4>2. vk_secrets' = {env(raw.virtual_keys[i].key_env): i \in 1..Len(virtual_keys')}
        BY <2>1, <3>5, <4>1
      <4>3. raw' = raw /\ \A var: env(var)' = env(var)
        BY <2>1, SameFile
      <4> QED BY <4>2, <4>3
    <3>8. raw' = raw
      BY <2>1, SameFile
    <3> QED BY <1>3, <3>2, <3>3, <3>4, <3>6, <3>7, <3>8 DEF KeysPrefix, R1
  <2>5. StageOK'
    <3>1. Len(virtual_keys') = n
      BY <1>1, <2>1, <1>2 DEF IInv, KeysPrefix
    <3>2. HeadSound' /\ stage' = "keys" /\ backends' = backends /\ raw' = raw
      BY <1>1, <2>1, SameFile DEF IInv, StageOK
    <3> QED BY <1>1, <2>1, <3>1, <3>2 DEF IInv, StageOK
  <2>6. KeyStoreOK' /\ ErrorOK'
    BY <1>1, <2>1 DEF IInv, KeyStoreOK, ErrorOK
  <2> QED BY <2>2, <2>3, <2>4, <2>5, <2>6 DEF IInv
<1> QED BY <1>5, <1>6

(* A loop is over.                                                          *)
LEMMA LoopDoneStep ==
  ASSUME IInv, LoopDone
  PROVE  IInv'
<1>1. /\ stage \in {"backends", "keys"} /\ n > Len(Entries(stage))
      /\ stage' = (IF stage = "backends" THEN "keys" ELSE "policy") /\ n' = 1
      /\ UNCHANGED <<inputVars, error, seenVars, configVars, keys>>
  BY DEF LoopDone
<1>2. UNCHANGED <<backends, virtual_keys, policy>>
  BY <1>1 DEF configVars
<1>3. InputsOK' /\ BackendsPrefix' /\ KeysPrefix'
  BY <1>1, <1>2, SamePrefixes
<1>4. /\ Len(raw.backends) \in Nat /\ Len(raw.virtual_keys) \in Nat
      /\ Len(backends) \in Nat /\ Len(virtual_keys) \in Nat
      /\ Len(backends) <= Len(raw.backends)
      /\ Len(virtual_keys) <= Len(raw.virtual_keys)
  BY RawTypes DEF IInv, BackendsPrefix, KeysPrefix
<1>5. /\ stage = "backends" => Len(backends) = Len(raw.backends)
      /\ stage = "keys" => Len(virtual_keys) = Len(raw.virtual_keys)
  BY <1>1, <1>4 DEF IInv, StageOK, Entries
<1>6. StageOK'
  <2>1. raw' = raw /\ HeadSound' = HeadSound
    BY <1>1, SameFile DEF HeadSound
  <2> QED BY <1>1, <1>2, <1>4, <1>5, <2>1 DEF IInv, StageOK
<1>7. KeyStoreOK' /\ ErrorOK'
  BY <1>1, <1>2 DEF IInv, KeyStoreOK, ErrorOK
<1> QED BY <1>3, <1>6, <1>7 DEF IInv

(* What the configuration admits is what EwmaLatency::new asserts.          *)
LEMMA AlphaChecksAgree == \A p: ValidAlpha(p) <=> AlphaAsserted(p)
BY DEF ValidAlpha, AlphaAsserted

LEMMA PolicyStep ==
  ASSUME IInv, ResolvePolicy
  PROVE  IInv'
<1> DEFINE checks == << <<~ValidAlpha(raw.policy), "InvalidAlpha">> >>
<1>1. DOMAIN checks = 1..1 /\ checks[1][1] = (~ValidAlpha(raw.policy))
      /\ checks[1][2] = "InvalidAlpha"
  OBVIOUS
<1>2. Checked(checks, /\ policy' = raw.policy /\ stage' = "state"
                      /\ UNCHANGED <<n, seenVars, backends, virtual_keys>>)
  BY DEF ResolvePolicy
<1>3. stage = "policy"
  BY DEF ResolvePolicy
<1> HIDE DEF checks
<1>4. Failing(checks) = {} <=> AlphaAsserted(raw.policy)
  <2>1. Failing(checks) = {} <=> \A i \in 1..1: ~checks[i][1]
    BY <1>1 DEF Failing
  <2>2. (\A i \in 1..1: ~checks[i][1]) <=> ~checks[1][1]
    OBVIOUS
  <2> QED BY <1>1, <2>1, <2>2, AlphaChecksAgree
<1>5. CASE Failing(checks) # {}
  <2>1. Fail(checks[Min(Failing(checks))][2])
    BY <1>2, <1>5 DEF Checked
  <2>2. checks[Min(Failing(checks))][2] \in Kinds
    <3>1. Min(Failing(checks)) \in 1..1
      BY <1>1, <1>5, FirstFailing
    <3> QED BY <1>1, <3>1 DEF Kinds, ConfigErrors
  <2>3. Diagnosis("policy", n)
    <3>1. \A i \in 1..Len(raw.virtual_keys): GoodKey(i)
      BY <1>3 DEF IInv, StageOK, KeysPrefix
    <3>2. DOMAIN raw.virtual_keys = 1..Len(raw.virtual_keys)
      BY RawTypes DEF IInv
    <3> QED BY <1>4, <1>5, <3>1, <3>2 DEF Diagnosis
  <2> QED BY <1>3, <2>1, <2>2, <2>3, FailStep
<1>6. CASE Failing(checks) = {}
  <2>1. /\ policy' = raw.policy /\ stage' = "state"
        /\ UNCHANGED <<n, seenVars, backends, virtual_keys, inputVars, error, keys>>
    BY <1>2, <1>6 DEF Checked
  <2>2. InputsOK' /\ BackendsPrefix' /\ KeysPrefix'
    BY <2>1, SamePrefixes
  <2>3. StageOK'
    <3>1. raw' = raw /\ HeadSound' = HeadSound
      BY <2>1, SameFile DEF HeadSound
    <3> QED BY <1>3, <1>4, <1>6, <2>1, <3>1 DEF IInv, StageOK, AlphaAsserted
  <2>4. KeyStoreOK' /\ ErrorOK'
    BY <1>3, <2>1 DEF IInv, KeyStoreOK, ErrorOK
  <2> QED BY <2>2, <2>3, <2>4 DEF IInv
<1> QED BY <1>5, <1>6

(* The state is built; EwmaLatency::new finds an alpha that was checked.    *)
LEMMA BuildStateStep ==
  ASSUME IInv, BuildState
  PROVE  IInv'
<1>1. stage = "state" /\ AlphaAsserted(policy)
  BY DEF BuildState, IInv, StageOK
<1>2. CASE Fail("HttpClient")
  BY <1>1, <1>2, FailStep DEF Diagnosis, Kinds
<1>3. CASE /\ stage' = "bind" /\ keys' = from_virtual_keys(virtual_keys)
           /\ UNCHANGED <<inputVars, n, error, seenVars, configVars>>
  <2>1. UNCHANGED <<backends, virtual_keys, policy>>
    BY <1>3 DEF configVars
  <2>2. InputsOK' /\ BackendsPrefix' /\ KeysPrefix'
    BY <1>3, <2>1, SamePrefixes
  <2>3. StageOK'
    <3>1. raw' = raw /\ HeadSound' = HeadSound
      BY <1>3, SameFile DEF HeadSound
    <3> QED BY <1>1, <1>3, <2>1, <3>1 DEF IInv, StageOK, AlphaAsserted
  <2>4. KeyStoreOK' /\ ErrorOK'
    BY <1>1, <1>3, <2>1, SameKeyStore DEF IInv, KeyStoreOK, ErrorOK
  <2> QED BY <2>2, <2>3, <2>4 DEF IInv
<1> QED BY <1>1, <1>2, <1>3 DEF BuildState

LEMMA BindStep ==
  ASSUME IInv, Bind
  PROVE  IInv'
<1>1. stage = "bind"
  BY DEF Bind
<1>2. CASE Fail("Bind")
  BY <1>1, <1>2, FailStep DEF Diagnosis, Kinds
<1>3. CASE /\ stage' = "serving"
           /\ UNCHANGED <<inputVars, n, error, seenVars, configVars, keys>>
  <2>1. UNCHANGED <<backends, virtual_keys, policy>>
    BY <1>3 DEF configVars
  <2>2. InputsOK' /\ BackendsPrefix' /\ KeysPrefix'
    BY <1>3, <2>1, SamePrefixes
  <2>3. StageOK'
    <3>1. raw' = raw /\ HeadSound' = HeadSound
      BY <1>3, SameFile DEF HeadSound
    <3> QED BY <1>1, <1>3, <2>1, <3>1 DEF IInv, StageOK, AlphaAsserted
  <2>4. KeyStoreOK' /\ ErrorOK'
    BY <1>1, <1>3, <2>1, SameKeyStore DEF IInv, KeyStoreOK, ErrorOK
  <2> QED BY <2>2, <2>3, <2>4 DEF IInv
<1> QED BY <1>2, <1>3 DEF Bind

LEMMA NextIInv == IInv /\ [Next]_vars => IInv'
<1> SUFFICES ASSUME IInv, [Next]_vars PROVE IInv'
  OBVIOUS
<1>1. ASSUME UNCHANGED vars
      PROVE  IInv'
  <2>1. UNCHANGED <<inputVars, stage, n, error, seenVars, configVars, keys>>
    BY <1>1 DEF vars
  <2>2. UNCHANGED <<backends, virtual_keys, policy>>
    BY <2>1 DEF configVars
  <2>3. InputsOK' /\ BackendsPrefix' /\ KeysPrefix'
    BY <2>1, <2>2, SamePrefixes
  <2>4. raw' = raw /\ HeadSound' = HeadSound
    BY <2>1, SameFile DEF HeadSound
  <2>5. StageOK' /\ KeyStoreOK'
    BY <2>1, <2>2, <2>4, SameKeyStore DEF IInv, StageOK, KeyStoreOK, AlphaAsserted
  <2>6. ErrorOK'
    BY <2>1, SameFile DEF IInv, ErrorOK
  <2> QED BY <2>3, <2>5, <2>6 DEF IInv
<1> QED
  BY <1>1, LoadStep, BackendStep, KeyStep, LoopDoneStep, PolicyStep,
     BuildStateStep, BindStep DEF Next

LEMMA AlwaysIInv == Spec => []IInv
BY InitIInv, NextIInv, PTL DEF Spec

-----------------------------------------------------------------------------
(* The key store has the secrets of the keys that were resolved.            *)
LEMMA KeyStoreDomain ==
  ASSUME IInv
  PROVE  DOMAIN from_virtual_keys(virtual_keys) = vk_secrets
<1>1. DOMAIN from_virtual_keys(virtual_keys) =
        {virtual_keys[i].key: i \in DOMAIN virtual_keys}
  BY DEF from_virtual_keys
<1>2. DOMAIN virtual_keys = 1..Len(virtual_keys)
  BY DEF IInv, KeysPrefix
<1>3. \A i \in 1..Len(virtual_keys):
        virtual_keys[i].key = env(raw.virtual_keys[i].key_env)
  <2>1. \A i \in 1..Len(virtual_keys):
          virtual_keys[i] = ResolvedKey(raw.virtual_keys[i])
    BY DEF IInv, KeysPrefix
  <2> QED BY <2>1, ResolvedFields
<1> QED
  BY <1>1, <1>2, <1>3 DEF IInv, KeysPrefix

(* Start-up keeps its type, and panicked is not among the stages it reaches.*)
THEOREM TypeCorrect == Spec => [](TypeOK /\ stage # "panicked")
<1>1. IInv => TypeOK /\ stage # "panicked"
  <2> SUFFICES ASSUME IInv PROVE TypeOK /\ stage # "panicked"
    OBVIOUS
  <2>1. /\ stage \in {"load", "backends", "keys", "policy", "state", "bind",
                      "serving", "failed", "panicked"}
        /\ stage # "panicked"
    BY DEF IInv, StageOK
  <2>2. error.kind \in ConfigErrors \cup {"HttpClient", "Bind", "none"}
    BY DEF IInv, ErrorOK, NoError, Kinds
  <2>3. stage \in {"backends", "keys"} => n \in 1..(Len(Entries(stage)) + 1)
    <3>1. /\ Len(raw.backends) \in Nat /\ Len(raw.virtual_keys) \in Nat
          /\ Len(backends) \in Nat /\ Len(virtual_keys) \in Nat
      BY RawTypes DEF IInv, BackendsPrefix, KeysPrefix
    <3> QED BY <3>1 DEF IInv, StageOK, BackendsPrefix, KeysPrefix, Entries
  <2>4. ASSUME NEW i \in DOMAIN backends
        PROVE  /\ backends[i].base_url \in {Trimmed[u]: u \in HttpUrls}
               /\ backends[i].privacy \in {"Local", "External"}
    <3>1. /\ i \in 1..Len(backends) /\ i \in 1..Len(raw.backends)
          /\ backends[i] = Resolved(raw.backends[i]) /\ GoodBackend(i)
      BY <2>4, RawTypes DEF IInv, BackendsPrefix
    <3>2. raw.backends[i] \in BackendEntry
      BY <3>1, RawTypes DEF IInv
    <3>3. env(raw.backends[i].base_url_env) \in HttpUrls
      BY <3>1, EnvUnset DEF IInv, GoodBackend, GoodVar
    <3> QED BY <3>1, <3>2, <3>3 DEF Resolved, BackendEntry
  <2>5. ASSUME NEW i \in DOMAIN virtual_keys
        PROVE  virtual_keys[i].enforce_private \in BOOLEAN
    <3>1. /\ i \in 1..Len(raw.virtual_keys)
          /\ virtual_keys[i] = ResolvedKey(raw.virtual_keys[i])
      BY <2>5, RawTypes DEF IInv, KeysPrefix
    <3>2. raw.virtual_keys[i] \in KeyEntry
      BY <3>1, RawTypes DEF IInv
    <3> QED BY <3>1, <3>2 DEF ResolvedKey, KeyEntry
  <2>6. DOMAIN keys \subseteq vk_secrets
    BY KeyStoreDomain DEF IInv, KeyStoreOK
  <2> QED BY <2>1, <2>2, <2>3, <2>4, <2>5, <2>6 DEF TypeOK
<1> QED BY <1>1, AlwaysIInv, PTL

(* The error main returns is that of the first entry of the file that is    *)
(* defective, and the gateway serves only if none is: the early returns of  *)
(* from_toml_str find every defect, in the order of the file.               *)
THEOREM ReportsFirstDefect == Spec => []FirstDefectReported
<1>1. IInv => FirstDefectReported
  <2> SUFFICES ASSUME IInv PROVE FirstDefectReported
    OBVIOUS
  <2>1. CASE stage = "failed"
    <3>1. PICK s, k: \E kind \in Kinds:
            error = [stage |-> s, entry |-> k, kind |-> kind] /\ Diagnosis(s, k)
      BY <2>1 DEF IInv, ErrorOK
    <3>2. error.stage = s /\ error.entry = k
      BY <3>1
    <3> QED BY <2>1, <3>1, <3>2 DEF FirstDefectReported, Diagnosis, HeadSound
  <2>2. CASE stage # "failed"
    <3>1. error.stage = "none"
      BY <2>2 DEF IInv, ErrorOK, NoError
    <3>2. ASSUME stage = "serving"
          PROVE  /\ HeadSound /\ AlphaAsserted(raw.policy)
                 /\ \A i \in DOMAIN raw.backends: GoodBackend(i)
                 /\ \A i \in DOMAIN raw.virtual_keys: GoodKey(i)
      <4>1. /\ DOMAIN raw.backends = 1..Len(backends)
            /\ DOMAIN raw.virtual_keys = 1..Len(virtual_keys)
        BY <3>2, RawTypes DEF IInv, StageOK
      <4> QED BY <3>2, <4>1 DEF IInv, StageOK, BackendsPrefix, KeysPrefix
    <3> QED BY <3>1, <3>2 DEF FirstDefectReported, HeadSound
  <2> QED BY <2>1, <2>2
<1> QED BY <1>1, AlwaysIInv, PTL

(* Every virtual key of the file authenticates, as itself and with its own  *)
(* privacy: from_virtual_keys lets the last of equal secrets win, and the   *)
(* loop has seen to it that there are none.                                 *)
THEOREM KeysAreThemselves == Spec => []EachKeyIsItself
<1>1. IInv => EachKeyIsItself
  <2> SUFFICES ASSUME IInv, stage = "serving"
               PROVE  /\ DOMAIN keys = {env(raw.virtual_keys[i].key_env):
                                          i \in DOMAIN raw.virtual_keys}
                      /\ \A i \in DOMAIN raw.virtual_keys:
                           keys[env(raw.virtual_keys[i].key_env)] =
                             [name |-> raw.virtual_keys[i].name,
                              enforce_private |-> raw.virtual_keys[i].enforce_private]
    BY DEF EachKeyIsItself
  <2> DEFINE secret(i) == env(raw.virtual_keys[i].key_env)
  <2>1. keys = from_virtual_keys(virtual_keys)
    BY DEF IInv, KeyStoreOK
  <2>2. /\ DOMAIN raw.virtual_keys = 1..Len(virtual_keys)
        /\ DOMAIN virtual_keys = 1..Len(virtual_keys)
        /\ Len(virtual_keys) \in Nat
    BY RawTypes DEF IInv, StageOK, KeysPrefix
  <2>3. DOMAIN keys = {secret(i): i \in DOMAIN raw.virtual_keys}
    BY <2>1, <2>2, KeyStoreDomain DEF IInv, KeysPrefix
  <2>4. ASSUME NEW i \in DOMAIN raw.virtual_keys
        PROVE  keys[secret(i)] =
                 [name |-> raw.virtual_keys[i].name,
                  enforce_private |-> raw.virtual_keys[i].enforce_private]
    <3>1. \A j \in 1..Len(virtual_keys):
            /\ virtual_keys[j] = ResolvedKey(raw.virtual_keys[j])
            /\ GoodKey(j)
      BY DEF IInv, KeysPrefix
    <3>2. \A j \in 1..Len(virtual_keys): virtual_keys[j].key = secret(j)
      BY <3>1, ResolvedFields
    <3>3. \A j \in 1..Len(virtual_keys):
            secret(j) = environment[raw.virtual_keys[j].key_env]
      BY <3>1, EnvUnset DEF GoodKey, GoodVar, IInv
    <3>4. \A j \in 1..Len(virtual_keys): secret(j) = secret(i) => j = i
      <4>1. \A j, k \in 1..Len(virtual_keys): j < k =>
              environment[raw.virtual_keys[j].key_env] #
              environment[raw.virtual_keys[k].key_env]
        <5> SUFFICES ASSUME NEW j \in 1..Len(virtual_keys),
                            NEW k \in 1..Len(virtual_keys), j < k
                     PROVE  environment[raw.virtual_keys[j].key_env] #
                            environment[raw.virtual_keys[k].key_env]
          OBVIOUS
        <5>1. GoodKey(k) /\ j \in 1..(k - 1)
          BY <2>2, <3>1
        <5> QED BY <5>1 DEF GoodKey
      <4> HIDE DEF secret
      <4> QED BY <2>2, <3>3, <4>1
    <3> DEFINE s == secret(i)
               same == {j \in DOMAIN virtual_keys: virtual_keys[j].key = s}
    <3>5. same = {i}
      <4> HIDE DEF secret
      <4> QED BY <2>2, <3>2, <3>4
    <3>6. Max(same) = i
      <4>1. Max({i}) = i
        BY <2>2 DEF Max
      <4> HIDE DEF same
      <4> QED BY <3>5, <4>1
    <3>7. s \in {virtual_keys[j].key: j \in DOMAIN virtual_keys}
      BY <2>2, <3>2
    <3>8. keys[s] = [name |-> virtual_keys[Max(same)].name,
                     enforce_private |-> virtual_keys[Max(same)].enforce_private]
      <4> HIDE DEF s
      <4> QED BY <2>1, <3>7 DEF from_virtual_keys
    <3>9. virtual_keys[i] = ResolvedKey(raw.virtual_keys[i])
      BY <2>2, <3>1
    <3> HIDE DEF same
    <3> QED BY <3>6, <3>8, <3>9 DEF ResolvedKey
  <2> QED BY <2>3, <2>4
<1> QED BY <1>1, AlwaysIInv, PTL

-----------------------------------------------------------------------------
(* The router counts as this module does.                                   *)
LEMMA SameCardinality == \A S: R!Cardinality(S) = Cardinality(S)
BY DEF R!Cardinality, Cardinality

(* The policy that from_config builds takes the first candidate.            *)
LEMMA SelectsFirst ==
  ASSUME NEW C, IsFiniteSet(C), C \subseteq Int
  PROVE  R!select(C) = {IF C = {} THEN NoBackend ELSE Min(C)}
<1>1. CASE C = {}
  <2>1. \A idx: R!item(C, idx) = {}
    BY <1>1 DEF R!item
  <2> QED BY <1>1, <2>1 DEF R!select, from_config
<1>2. CASE C # {}
  <2> DEFINE m == Min(C)
  <2>1. m \in C /\ \A c \in C: m <= c
    BY <1>2, MinProperty
  <2> HIDE DEF m
  <2>2. ASSUME NEW c \in C
        PROVE  Cardinality({d \in C: d < c}) = 0 <=> c = m
    <3> DEFINE D == {d \in C: d < c}
    <3>1. IsFiniteSet(D)
      BY FS_Subset
    <3>2. Cardinality(D) = 0 <=> D = {}
      BY <3>1, FS_EmptySet
    <3>3. m \in Int /\ \A d \in C: d \in Int
      BY <2>1
    <3>4. D = {} <=> c = m
      <4>1. ASSUME c = m PROVE D = {}
        <5> SUFFICES ASSUME NEW d \in C, d < c PROVE FALSE
          OBVIOUS
        <5>1. m <= d /\ d \in Int /\ m \in Int
          BY <2>1, <3>3
        <5> QED BY <4>1, <5>1
      <4>2. ASSUME c # m PROVE m \in D
        BY <2>1, <2>2, <3>3, <4>2
      <4> QED BY <4>1, <4>2
    <3> QED BY <3>2, <3>4
  <2>3. R!item(C, 0) = {m}
    <3>1. R!item(C, 0) = {c \in C: Cardinality({d \in C: d < c}) = 0}
      BY SameCardinality DEF R!item
    <3> QED BY <2>1, <2>2, <3>1
  <2>4. R!select(C) = {m}
    <3>1. from_config(C) = {0}
      BY <1>2 DEF from_config
    <3>2. R!select(C) =
            UNION {IF R!item(C, idx) = {} THEN {NoBackend} ELSE R!item(C, idx):
                     idx \in {0}}
      BY <3>1 DEF R!select
    <3>3. {IF R!item(C, idx) = {} THEN {NoBackend} ELSE R!item(C, idx):
              idx \in {0}} = {{m}}
      BY <2>3
    <3> QED BY <3>2, <3>3
  <2> QED BY <1>2, <2>4 DEF m
<1> QED BY <1>1, <1>2

(* The router that was built from the file sends each query to the first of *)
(* the file's backends that has the model and may see the request, at the   *)
(* URL of its variable, and lists the models of the file.                   *)
THEOREM RoutesTheFile == Spec => []RoutesAsConfigured
<1>1. IInv => RoutesAsConfigured
  <2> SUFFICES ASSUME IInv, stage = "serving" PROVE RoutesAsConfigured
    BY DEF RoutesAsConfigured
  <2> DEFINE bs == raw.backends
  <2>1. /\ DOMAIN bs = 1..Len(backends) /\ DOMAIN backends = 1..Len(backends)
        /\ Len(backends) \in Nat
    BY RawTypes DEF IInv, StageOK, BackendsPrefix
  <2>2. \A i \in 1..Len(backends): backends[i] = Resolved(bs[i])
    BY DEF IInv, BackendsPrefix
  <2>3. \A i \in 1..Len(backends):
          /\ backends[i].models = bs[i].models /\ backends[i].privacy = bs[i].privacy
          /\ backends[i].base_url = Trimmed[env(bs[i].base_url_env)]
    BY <2>2, ResolvedFields
  <2>4. list_models = UNION {bs[i].models: i \in DOMAIN bs}
    <3> HIDE DEF bs
    <3> QED BY <2>1, <2>3 DEF list_models
  <2>5. ASSUME NEW model, NEW private \in BOOLEAN
        PROVE  R!route([model |-> model, required_tags |-> {}], private) =
                 {LET fit == {i \in DOMAIN bs: /\ model \in bs[i].models
                                               /\ private => bs[i].privacy = "Local"}
                  IN  IF fit = {} THEN NoBackend ELSE Min(fit)}
    <3> DEFINE fit == {i \in DOMAIN bs: /\ model \in bs[i].models
                                        /\ private => bs[i].privacy = "Local"}
               query == [model |-> model, required_tags |-> {}]
               C == R!gather(R!classify(private), query)
    <3>1. C = fit
      <4>1. query.model = model /\ query.required_tags = {}
        OBVIOUS
      <4>2. R!Positions = 1..Len(backends)
        BY DEF R!Positions
      <4>3. R!classify(private) = "Private" <=> private
        BY DEF R!classify
      <4>4. \A i \in 1..Len(backends):
              /\ R!admits(R!classify(private), backends[i].privacy) <=>
                   (private => bs[i].privacy = "Local")
              /\ query.model \in backends[i].models <=> model \in bs[i].models
              /\ query.required_tags \subseteq backends[i].capability_tags
        BY <2>3, <4>1, <4>3 DEF R!admits
      <4> HIDE DEF query, bs
      <4> QED BY <2>1, <4>2, <4>4 DEF R!gather
    <3>2. IsFiniteSet(fit) /\ fit \subseteq Int
      <4>1. IsFiniteSet(1..Len(backends)) /\ fit \subseteq 1..Len(backends)
        BY <2>1, FS_Interval
      <4> QED BY <4>1, FS_Subset
    <3>3. R!route(query, private) = R!select(C)
      BY DEF R!route
    <3> HIDE DEF C, query
    <3>4. R!select(fit) = {IF fit = {} THEN NoBackend ELSE Min(fit)}
      <4> HIDE DEF fit
      <4> QED BY <3>2, SelectsFirst
    <3> QED BY <3>1, <3>3, <3>4 DEF query
  <2>6. \A i \in DOMAIN bs: backends[i].base_url = Trimmed[env(bs[i].base_url_env)]
    BY <2>1, <2>3
  <2> QED BY <2>4, <2>5, <2>6 DEF RoutesAsConfigured
<1> QED BY <1>1, AlwaysIInv, PTL
=============================================================================
