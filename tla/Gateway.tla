------------------------------ MODULE Gateway ------------------------------
(***************************************************************************)
(* POST /v1/chat/completions end to end (server.rs), for several requests  *)
(* at once: authentication, rate limiting, routing, the retry loop, the    *)
(* relayed or buffered response, and the accounting that follows it.       *)
(*                                                                         *)
(* A request's handler runs without interruption between two await points; *)
(* each action below is one such stretch, or one update of state shared    *)
(* between threads.  The relay of a streaming response appears through its *)
(* contract (module RelayContract, which module SseRelay implements).      *)
(***************************************************************************)
EXTENDS Router, FiniteSetsExt

CONSTANTS Requests,     \* the requests that arrive
          Calls,        \* what a client may ask: [token, model, stream]
          Names,        \* virtual-key names, "anonymous" among them
          KeyStores,    \* key tables: token -> [name, enforce_private]
          RateLimits,   \* limit tables: name -> max_rpm or Unlimited
          Unlimited,    \* max_rpm: None
          NoModel,      \* an empty or unparsable `model`
          Failures,     \* how open_sse fails: a status, or HttpError
          HttpError,    \* a connection-level failure
          Usages,       \* total_tokens of the usage objects upstreams report
          NoUsage,      \* no usage object
          MaxRetries    \* MAX_RETRIES

Anonymous == [name |-> "anonymous", enforce_private |-> FALSE]

ASSUME GatewayAssumption ==
  /\ IsFiniteSet(Requests)
  /\ MaxRetries \in Nat
  /\ Usages \subseteq Nat /\ NoUsage \notin Nat
  /\ Failures \subseteq Nat \cup {HttpError}
  /\ "anonymous" \in Names
  /\ Unlimited \notin Nat
  /\ \A keys \in KeyStores: \A t \in DOMAIN keys:
        keys[t] \in [name: Names, enforce_private: BOOLEAN]
  /\ RateLimits \subseteq [Names -> Nat \cup {Unlimited}]

VARIABLES
  keys,        \* KeyStore, fixed at start
  max_rpm,     \* RateLimitStore.limits, fixed at start
  pc,          \* where the handler of a request is
  call,        \* what the client asked
  identity,    \* AuthedKey
  backend,     \* the backend routed to
  attempt,     \* loop variable of the retry loop
  opened,      \* backends contacted, one entry per open_sse (history)
  faults,      \* failures of those attempts (history)
  status,      \* status line sent to the client, 0 before it is
  usage,       \* last usage object found in the response
  summary,     \* what the relay sent on the summary channel
  task,        \* where the accounting of the response is
  bucket,      \* cells left in each key's governor
  requests_total, upstream_errors, rate_limit_rejections,
  budget, tokens, tpm

configVars  == <<keys, max_rpm>>
openVars    == <<backend, attempt, opened, faults>>
callVars    == <<call, identity>>
ledgerVars  == <<budget, tokens, tpm>>
counterVars == <<requests_total, upstream_errors, rate_limit_rejections>>
vars == <<configVars, pc, callVars, openVars, status, usage, summary, task,
          bucket, counterVars, ledgerVars>>

Outcomes == {"Completed", "UpstreamError", "Stalled", "ClientDisconnected"}

PcStates == {"idle", "body", "opening", "backoff", "exhausted", "streaming",
             "reading", "accounting", "done", "gone"}

TaskStates == {"none", "waiting", "budget", "tokens", "tpm", "outcome",
               "done", "cancelled"}

TypeOK ==
  /\ keys \in KeyStores /\ max_rpm \in RateLimits
  /\ pc \in [Requests -> PcStates]
  /\ call \in [Requests -> Calls \cup {<<>>}]
  /\ identity \in [Requests -> [name: Names, enforce_private: BOOLEAN]]
  /\ backend \in [Requests -> Positions \cup {NoBackend}]
  /\ attempt \in [Requests -> 0..MaxRetries]
  /\ opened \in [Requests -> Seq(Positions)]
  /\ faults \in [Requests -> Seq(Failures)]
  /\ status \in [Requests -> Nat]
  /\ usage \in [Requests -> Usages \cup {NoUsage}]
  /\ summary \in [Requests -> Seq([outcome: Outcomes,
                                   usage: Usages \cup {NoUsage}])]
  /\ task \in [Requests -> TaskStates]
  /\ bucket \in [Names -> Nat]
  /\ requests_total \in [{"2xx", "5xx"} -> [Positions -> Nat]]
  /\ upstream_errors \in [Positions -> Nat]
  /\ rate_limit_rejections \in [Names -> Nat]
  /\ budget \in [Names -> Nat] /\ tokens \in [Names -> Nat]
  /\ tpm \in [Names -> Nat]

-----------------------------------------------------------------------------
(* from_request_parts: the identities a token resolves to (at most one).    *)
authenticate(token) ==
  IF DOMAIN keys = {}
  THEN {Anonymous}
  ELSE {keys[t]: t \in {token} \cap DOMAIN keys}

(* RateLimitStore::new builds no governor for an absent or a zero limit.    *)
limited(name) == max_rpm[name] \notin {Unlimited, 0}

(* check_rpm: one cell of the governor, when there is a governor.           *)
check_rpm(name) == limited(name) => bucket[name] > 0

take_cell(name) ==
  bucket' = IF limited(name) THEN [bucket EXCEPT ![name] = @ - 1] ELSE bucket

(* UpstreamError::is_retryable and, for what is not, the status to pass on. *)
is_retryable(e) == e = HttpError \/ e = 429 \/ (e \in Nat /\ e >= 500)

Init ==
  /\ keys \in KeyStores /\ max_rpm \in RateLimits
  /\ pc = [r \in Requests |-> "idle"]
  /\ call = [r \in Requests |-> <<>>]
  /\ identity = [r \in Requests |-> Anonymous]
  /\ backend = [r \in Requests |-> NoBackend]
  /\ attempt = [r \in Requests |-> 0]
  /\ opened = [r \in Requests |-> <<>>]
  /\ faults = [r \in Requests |-> <<>>]
  /\ status = [r \in Requests |-> 0]
  /\ usage = [r \in Requests |-> NoUsage]
  /\ summary = [r \in Requests |-> <<>>]
  /\ task = [r \in Requests |-> "none"]
  /\ bucket = [k \in Names |-> IF limited(k) THEN max_rpm[k] ELSE 0]
  /\ requests_total = [class \in {"2xx", "5xx"} |-> [b \in Positions |-> 0]]
  /\ upstream_errors = [b \in Positions |-> 0]
  /\ rate_limit_rejections = [k \in Names |-> 0]
  /\ budget = [k \in Names |-> 0]
  /\ tokens = [k \in Names |-> 0]
  /\ tpm = [k \in Names |-> 0]

(* A final response: its status line, and the handler returns.              *)
Respond(r, code) == /\ status' = [status EXCEPT ![r] = code]
                    /\ pc' = [pc EXCEPT ![r] = "done"]

GoTo(r, where) == pc' = [pc EXCEPT ![r] = where]

-----------------------------------------------------------------------------
(* The request head arrives; the extractor authenticates it.                *)
Receive(r, c) ==
  /\ pc[r] = "idle"
  /\ call' = [call EXCEPT ![r] = c]
  /\ \E id \in authenticate(c.token): identity' = [identity EXCEPT ![r] = id]
  /\ GoTo(r, "body")
  /\ UNCHANGED <<configVars, openVars, status, usage, summary, task, bucket,
                 counterVars, ledgerVars>>

Unauthorized(r, c) ==
  /\ pc[r] = "idle"
  /\ authenticate(c.token) = {}
  /\ call' = [call EXCEPT ![r] = c]
  /\ Respond(r, 401)
  /\ UNCHANGED <<configVars, identity, openVars, usage, summary, task, bucket,
                 counterVars, ledgerVars>>

(* The body has arrived: the handler runs up to its first open_sse.         *)
RateLimited(r) ==
  /\ pc[r] = "body"
  /\ ~check_rpm(identity[r].name)
  /\ rate_limit_rejections' =
       [rate_limit_rejections EXCEPT ![identity[r].name] = @ + 1]
  /\ Respond(r, 429)
  /\ UNCHANGED <<configVars, callVars, openVars, usage, summary, task, bucket,
                 requests_total, upstream_errors, ledgerVars>>

MissingModel(r) ==
  /\ pc[r] = "body"
  /\ check_rpm(identity[r].name) /\ take_cell(identity[r].name)
  /\ call[r].model = NoModel
  /\ Respond(r, 400)
  /\ UNCHANGED <<configVars, callVars, openVars, usage, summary, task,
                 counterVars, ledgerVars>>

(* What the router may answer for the request.                              *)
Routes(r) == route([model |-> call[r].model, required_tags |-> {}],
                   identity[r].enforce_private)

NoEligibleBackend(r) ==
  /\ pc[r] = "body"
  /\ check_rpm(identity[r].name) /\ take_cell(identity[r].name)
  /\ call[r].model # NoModel
  /\ NoBackend \in Routes(r)
  /\ Respond(r, 502)
  /\ UNCHANGED <<configVars, callVars, openVars, usage, summary, task,
                 counterVars, ledgerVars>>

Forward(r) ==
  /\ pc[r] = "body"
  /\ check_rpm(identity[r].name) /\ take_cell(identity[r].name)
  /\ call[r].model # NoModel
  /\ \E b \in Routes(r) \ {NoBackend}:
       /\ backend' = [backend EXCEPT ![r] = b]
       /\ opened' = [opened EXCEPT ![r] = Append(@, b)]
  /\ GoTo(r, "opening")
  /\ UNCHANGED <<configVars, callVars, attempt, faults, status, usage, summary,
                 task, counterVars, ledgerVars>>

-----------------------------------------------------------------------------
(* open_sse fails: every failure is counted; then it is passed on, retried  *)
(* after a backoff, or, at the last attempt, ends the loop.                 *)
CountError(b) == upstream_errors' = [upstream_errors EXCEPT ![b] = @ + 1]

OpenRejected(r, e) ==
  /\ pc[r] = "opening" /\ ~is_retryable(e)
  /\ CountError(backend[r])
  /\ faults' = [faults EXCEPT ![r] = Append(@, e)]
  /\ Respond(r, e)
  /\ UNCHANGED <<configVars, callVars, backend, attempt, opened, usage, summary,
                 task, bucket, requests_total, rate_limit_rejections, ledgerVars>>

(* Mutants of OpenRetried: the bound is off by one; any failure is retried. *)
OpenRetriedOnceMore(r, e) ==
  /\ pc[r] = "opening" /\ is_retryable(e) /\ attempt[r] <= MaxRetries
  /\ CountError(backend[r])
  /\ faults' = [faults EXCEPT ![r] = Append(@, e)]
  /\ attempt' = [attempt EXCEPT ![r] = @ + 1]
  /\ GoTo(r, "backoff")
  /\ UNCHANGED <<configVars, callVars, backend, opened, status, usage, summary,
                 task, bucket, requests_total, rate_limit_rejections, ledgerVars>>

OpenRetriedAnyway(r, e) ==
  /\ pc[r] = "opening" /\ attempt[r] < MaxRetries
  /\ CountError(backend[r])
  /\ faults' = [faults EXCEPT ![r] = Append(@, e)]
  /\ attempt' = [attempt EXCEPT ![r] = @ + 1]
  /\ GoTo(r, "backoff")
  /\ UNCHANGED <<configVars, callVars, backend, opened, status, usage, summary,
                 task, bucket, requests_total, rate_limit_rejections, ledgerVars>>

OpenRetried(r, e) ==
  /\ pc[r] = "opening" /\ is_retryable(e) /\ attempt[r] < MaxRetries
  /\ CountError(backend[r])
  /\ faults' = [faults EXCEPT ![r] = Append(@, e)]
  /\ attempt' = [attempt EXCEPT ![r] = @ + 1]
  /\ GoTo(r, "backoff")
  /\ UNCHANGED <<configVars, callVars, backend, opened, status, usage, summary,
                 task, bucket, requests_total, rate_limit_rejections, ledgerVars>>

OpenExhausted(r, e) ==
  /\ pc[r] = "opening" /\ is_retryable(e) /\ attempt[r] = MaxRetries
  /\ CountError(backend[r])
  /\ faults' = [faults EXCEPT ![r] = Append(@, e)]
  /\ GoTo(r, "exhausted")
  /\ UNCHANGED <<configVars, callVars, backend, attempt, opened, status, usage,
                 summary, task, bucket, requests_total, rate_limit_rejections,
                 ledgerVars>>

(* After the loop: the request is counted as a 5xx and answered with 502.   *)
(* There is no await in between, so the handler cannot be dropped here.     *)
GiveUp(r) ==
  /\ pc[r] = "exhausted"
  /\ requests_total' = [requests_total EXCEPT !["5xx"][backend[r]] = @ + 1]
  /\ Respond(r, 502)
  /\ UNCHANGED <<configVars, callVars, openVars, usage, summary, task, bucket,
                 upstream_errors, rate_limit_rejections, ledgerVars>>

(* Mutant of BackoffElapsed: the last attempt is never made.                *)
BackoffElapsedShort(r) ==
  /\ pc[r] = "backoff" /\ attempt[r] < MaxRetries
  /\ opened' = [opened EXCEPT ![r] = Append(@, backend[r])]
  /\ GoTo(r, "opening")
  /\ UNCHANGED <<configVars, callVars, backend, attempt, faults, status, usage,
                 summary, task, bucket, counterVars, ledgerVars>>

(* The jittered sleep is over: the same backend is asked again.             *)
BackoffElapsed(r) ==
  /\ pc[r] = "backoff"
  /\ opened' = [opened EXCEPT ![r] = Append(@, backend[r])]
  /\ GoTo(r, "opening")
  /\ UNCHANGED <<configVars, callVars, backend, attempt, faults, status, usage,
                 summary, task, bucket, counterVars, ledgerVars>>

(* A 2xx head arrives. A streaming response starts, with the task that will *)
(* account for it; a buffered one is read first.                            *)
OpenSucceeded(r) ==
  /\ pc[r] = "opening"
  /\ requests_total' = [requests_total EXCEPT !["2xx"][backend[r]] = @ + 1]
  /\ task' = [task EXCEPT ![r] = "waiting"]
  /\ GoTo(r, IF call[r].stream THEN "streaming" ELSE "reading")
  /\ status' = [status EXCEPT ![r] = IF call[r].stream THEN 200 ELSE @]
  /\ UNCHANGED <<configVars, callVars, openVars, usage, summary, bucket,
                 upstream_errors, rate_limit_rejections, ledgerVars>>

-----------------------------------------------------------------------------
(* stream_response: the relay, as its contract describes it.                *)
RelayScan(r) ==
  /\ pc[r] = "streaming"
  /\ \E u \in Usages: usage' = [usage EXCEPT ![r] = u]
  /\ UNCHANGED <<configVars, pc, callVars, openVars, status, summary, task,
                 bucket, counterVars, ledgerVars>>

RelayEnd(r) ==
  /\ pc[r] = "streaming"
  /\ \E o \in Outcomes:
       summary' = [summary EXCEPT ![r] =
                     Append(@, [outcome |-> o, usage |-> usage[r]])]
  /\ GoTo(r, "done")
  /\ UNCHANGED <<configVars, callVars, openVars, status, usage, task, bucket,
                 counterVars, ledgerVars>>

(* Mutant of TaskWoken: only a summary with a usage object wakes the task.  *)
TaskWokenByUsage(r) ==
  /\ task[r] = "waiting" /\ summary[r] # <<>>
  /\ Head(summary[r]).usage # NoUsage
  /\ task' = [task EXCEPT ![r] = "budget"]
  /\ UNCHANGED <<configVars, pc, callVars, openVars, status, usage, summary,
                 bucket, counterVars, ledgerVars>>

(* The accounting task is woken by the summary.                             *)
TaskWoken(r) ==
  /\ task[r] = "waiting" /\ summary[r] # <<>>
  /\ task' = [task EXCEPT ![r] = IF Head(summary[r]).usage = NoUsage
                                 THEN "outcome" ELSE "budget"]
  /\ UNCHANGED <<configVars, pc, callVars, openVars, status, usage, summary,
                 bucket, counterVars, ledgerVars>>

(* buffered_response: the whole body is in memory, or reading it failed.    *)
(* The client gets the upstream's own 2xx status, for which 200 stands.     *)
BodyRead(r) ==
  /\ pc[r] = "reading"
  /\ \E u \in Usages:
       /\ usage' = [usage EXCEPT ![r] = u]
       /\ task' = [task EXCEPT ![r] = "budget"]
  /\ GoTo(r, "accounting")
  /\ UNCHANGED <<configVars, callVars, openVars, status, summary, bucket,
                 counterVars, ledgerVars>>

BodyWithoutUsage(r) ==
  /\ pc[r] = "reading"
  /\ task' = [task EXCEPT ![r] = "done"]
  /\ Respond(r, 200)
  /\ UNCHANGED <<configVars, callVars, openVars, usage, summary, bucket,
                 counterVars, ledgerVars>>

(* Mutant of BodyFailed: a broken body is retried like a failed attempt.    *)
BodyFailedRetried(r) ==
  /\ pc[r] = "reading" /\ attempt[r] < MaxRetries
  /\ CountError(backend[r])
  /\ attempt' = [attempt EXCEPT ![r] = @ + 1]
  /\ GoTo(r, "backoff")
  /\ UNCHANGED <<configVars, callVars, backend, opened, faults, status, usage,
                 summary, task, bucket, requests_total, rate_limit_rejections,
                 ledgerVars>>

BodyFailed(r) ==
  /\ pc[r] = "reading"
  /\ CountError(backend[r])
  /\ task' = [task EXCEPT ![r] = "done"]
  /\ Respond(r, 502)
  /\ UNCHANGED <<configVars, callVars, openVars, usage, summary, bucket,
                 requests_total, rate_limit_rejections, ledgerVars>>

-----------------------------------------------------------------------------
(* The three ledgers are updated one after the other, by the spawned task   *)
(* or by the buffered handler itself, interleaved with everyone else's.     *)
Billed(r) == IF summary[r] = <<>> THEN usage[r] ELSE Head(summary[r]).usage

Charge(ledger, r) == [ledger EXCEPT ![identity[r].name] = @ + Billed(r)]

RecordBudget(r) ==
  /\ task[r] = "budget"
  /\ budget' = Charge(budget, r)
  /\ task' = [task EXCEPT ![r] = "tokens"]
  /\ UNCHANGED <<configVars, pc, callVars, openVars, status, usage, summary,
                 bucket, counterVars, tokens, tpm>>

RecordTokens(r) ==
  /\ task[r] = "tokens"
  /\ tokens' = Charge(tokens, r)
  /\ task' = [task EXCEPT ![r] = "tpm"]
  /\ UNCHANGED <<configVars, pc, callVars, openVars, status, usage, summary,
                 bucket, counterVars, budget, tpm>>

(* record_tpm: the minute's window goes on, or a new one starts with this   *)
(* usage; what it says about the limit is ignored.                          *)
RecordTpm(r) ==
  /\ task[r] = "tpm"
  /\ \E old \in {tpm, [tpm EXCEPT ![identity[r].name] = 0]}:
       tpm' = Charge(old, r)
  /\ task' = [task EXCEPT ![r] = IF pc[r] = "accounting" THEN "done"
                                                         ELSE "outcome"]
  /\ IF pc[r] = "accounting" THEN Respond(r, 200) ELSE UNCHANGED <<pc, status>>
  /\ UNCHANGED <<configVars, callVars, openVars, usage, summary, bucket,
                 counterVars, budget, tokens>>

(* Mutant of RecordOutcome: a stall is not counted as an error.             *)
RecordOutcomeNoStall(r) ==
  /\ task[r] = "outcome"
  /\ task' = [task EXCEPT ![r] = "done"]
  /\ IF Head(summary[r]).outcome = "UpstreamError"
     THEN CountError(backend[r])
     ELSE UNCHANGED upstream_errors
  /\ UNCHANGED <<configVars, pc, callVars, openVars, status, usage, summary,
                 bucket, requests_total, rate_limit_rejections, ledgerVars>>

(* A stream that stalled or broke is an upstream error as well.             *)
RecordOutcome(r) ==
  /\ task[r] = "outcome"
  /\ task' = [task EXCEPT ![r] = "done"]
  /\ IF Head(summary[r]).outcome \in {"Stalled", "UpstreamError"}
     THEN CountError(backend[r])
     ELSE UNCHANGED upstream_errors
  /\ UNCHANGED <<configVars, pc, callVars, openVars, status, usage, summary,
                 bucket, requests_total, rate_limit_rejections, ledgerVars>>

-----------------------------------------------------------------------------
(* Mutant of ClientGone: the accounting of a buffered body can be dropped.  *)
ClientGoneAnywhere(r) ==
  /\ pc[r] \in {"body", "opening", "backoff", "reading", "accounting"}
  /\ task' = [task EXCEPT ![r] = IF @ = "none" THEN @ ELSE "cancelled"]
  /\ GoTo(r, "gone")
  /\ UNCHANGED <<configVars, callVars, openVars, status, usage, summary,
                 bucket, counterVars, ledgerVars>>

(* The client goes away while the handler awaits: its future is dropped,    *)
(* and with it a request in flight to the upstream.                         *)
ClientGone(r) ==
  /\ pc[r] \in {"body", "opening", "backoff", "reading"}
  /\ task' = [task EXCEPT ![r] = IF @ = "none" THEN @ ELSE "cancelled"]
  /\ GoTo(r, "gone")
  /\ UNCHANGED <<configVars, callVars, openVars, status, usage, summary,
                 bucket, counterVars, ledgerVars>>

(* A governor gives a cell back as time passes.                             *)
Refill(k) ==
  /\ limited(k) /\ bucket[k] < max_rpm[k]
  /\ bucket' = [bucket EXCEPT ![k] = @ + 1]
  /\ UNCHANGED <<configVars, pc, callVars, openVars, status, usage, summary,
                 task, counterVars, ledgerVars>>

Admit(r) ==
  RateLimited(r) \/ MissingModel(r) \/ NoEligibleBackend(r) \/ Forward(r)

OpenFailed(r) == \E e \in Failures:
  OpenRejected(r, e) \/ OpenRetried(r, e) \/ OpenExhausted(r, e)

Account(r) ==
  \/ TaskWoken(r) \/ RecordBudget(r) \/ RecordTokens(r) \/ RecordTpm(r)
  \/ RecordOutcome(r)

Next ==
  \/ \E r \in Requests:
       \/ \E c \in Calls: Receive(r, c) \/ Unauthorized(r, c)
       \/ Admit(r)
       \/ OpenFailed(r) \/ GiveUp(r) \/ BackoffElapsed(r) \/ OpenSucceeded(r)
       \/ RelayScan(r) \/ RelayEnd(r)
       \/ BodyRead(r) \/ BodyWithoutUsage(r) \/ BodyFailed(r)
       \/ Account(r)
       \/ ClientGone(r)
  \/ \E k \in Names: Refill(k)

Spec == Init /\ [][Next]_vars

(* The runtime keeps running timers, handlers and tasks. That a relay ends  *)
(* is not assumed: the code guarantees it neither for a client that stops   *)
(* reading nor for an upstream that never stops.                            *)
FairSpec ==
  /\ Spec
  /\ \A r \in Requests: /\ WF_vars(GiveUp(r))
                        /\ WF_vars(BackoffElapsed(r))
                        /\ WF_vars(Account(r))

(* What the gateway cannot enforce before the relay takes over: that the    *)
(* client sends the body it announced, and that every upstream eventually   *)
(* answers or drops the connection.                                         *)
PeersAnswer ==
  \A r \in Requests:
    /\ WF_vars(Admit(r))
    /\ WF_vars(OpenFailed(r) \/ OpenSucceeded(r))
    /\ WF_vars(BodyRead(r) \/ BodyWithoutUsage(r) \/ BodyFailed(r))

-----------------------------------------------------------------------------
EnforcesPrivacy(r) == /\ call[r].token \in DOMAIN keys
                      /\ keys[call[r].token].enforce_private

(* A request made with a key that enforces privacy is only ever sent to     *)
(* Local backends, on every attempt and whatever the policy answers; and no *)
(* request is sent to a backend that does not serve its model.              *)
PrivateStaysLocal ==
  \A r \in Requests: \A i \in 1..Len(opened[r]):
    /\ EnforcesPrivacy(r) => BackendTable[opened[r][i]].privacy = "Local"
    /\ call[r].model \in BackendTable[opened[r][i]].models

(* At most 1 + MAX_RETRIES attempts, all at one backend, each after a       *)
(* retryable failure; a failure that reaches the client is either a         *)
(* non-retryable one passed through or the last of all attempts.            *)
RetryDiscipline ==
  \A r \in Requests:
    /\ Len(opened[r]) <= MaxRetries + 1
    /\ \A i \in 1..Len(opened[r]): opened[r][i] = backend[r]
    /\ \A i \in 1..Len(faults[r]):
         i < Len(opened[r]) => is_retryable(faults[r][i])
    /\ (status[r] # 0 /\ opened[r] # <<>> /\ Len(faults[r]) = Len(opened[r])) =>
         LET last == faults[r][Len(faults[r])]
         IN  \/ ~is_retryable(last) /\ status[r] = last
             \/ Len(opened[r]) = MaxRetries + 1 /\ status[r] = 502

(* No backend is contacted again once a 2xx head has arrived, or once the   *)
(* client has its status line: retries are pre-first-byte only.             *)
RetriesPreFirstByte ==
  [][\A r \in Requests:
       opened'[r] # opened[r] => status[r] = 0 /\ task[r] = "none"]_vars

(* What the requests of a key owe a ledger that is charged before one of    *)
(* these stages of the accounting.                                          *)
Due(stages, k, r) ==
  IF identity[r].name = k /\ task[r] \in stages /\ Billed(r) # NoUsage
  THEN Billed(r) ELSE 0

Total(stages, k) ==
  SumFunctionOnSet([r \in Requests |-> Due(stages, k, r)], Requests)

(* Each response's usage reaches each ledger exactly once, under the key    *)
(* that made the request, whatever runs in between; the minute's window     *)
(* never holds more than was billed.                                        *)
BilledExactlyOnce ==
  \A k \in Names:
    /\ budget[k] = Total({"tokens", "tpm", "outcome", "done"}, k)
    /\ tokens[k] = Total({"tpm", "outcome", "done"}, k)
    /\ tpm[k] <= tokens[k]

(* What a request has to do with the counters of a backend.                 *)
Started(b, r) == backend[r] = b /\ task[r] # "none"

RanOut(b, r) == backend[r] = b /\ status[r] = 502 /\ task[r] = "none"

Broke(r) == /\ task[r] = "done"
            /\ IF summary[r] = <<>>
               THEN status[r] = 502
               ELSE Head(summary[r]).outcome \in {"Stalled", "UpstreamError"}

ErrorsAt(b, r) ==
  IF backend[r] = b THEN Len(faults[r]) + (IF Broke(r) THEN 1 ELSE 0) ELSE 0

(* The counters can be reconciled with what happened: 2xx counts the        *)
(* responses that started, 5xx the requests that ran out of attempts, and   *)
(* the error counter every failed attempt, broken body and broken stream.   *)
MetricsReconcile ==
  \A b \in Positions:
    /\ requests_total["2xx"][b] = Cardinality({r \in Requests: Started(b, r)})
    /\ requests_total["5xx"][b] = Cardinality({r \in Requests: RanOut(b, r)})
    /\ upstream_errors[b] =
         SumFunctionOnSet([r \in Requests |-> ErrorsAt(b, r)], Requests)

(* With an honest policy a request is refused for want of a backend only    *)
(* when no backend is eligible for it.                                      *)
RefusedOnlyIfNoneEligible ==
  \A r \in Requests:
    (status[r] = 502 /\ opened[r] = <<>>) =>
       gather(classify(identity[r].enforce_private),
              [model |-> call[r].model, required_tags |-> {}]) = {}

(* What a relay has reported is accounted for in the end, by a task that    *)
(* outlives the handler, however the stream ended and whether or not it     *)
(* carried a usage object.                                                  *)
StreamSettles ==
  \A r \in Requests: summary[r] # <<>> ~> task[r] = "done"

(* If client and upstreams answer, every accepted request gets its status   *)
(* line, through all retries, unless its client leaves first.               *)
Answered ==
  PeersAnswer =>
    \A r \in Requests: pc[r] = "body" ~> (status[r] # 0 \/ pc[r] = "gone")
=============================================================================
