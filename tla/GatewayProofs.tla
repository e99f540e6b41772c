--------------------------- MODULE GatewayProofs ---------------------------
(***************************************************************************)
(* Safety of the request path for every backend table, every policy, every *)
(* key table and every number of requests: types, privacy, and the retry   *)
(* discipline.                                                             *)
(***************************************************************************)
EXTENDS Gateway, DataTheorems

(* The identity of a request that was let in is the one its token stands    *)
(* for.                                                                     *)
IdentityInv(r) ==
  pc[r] = "body" \/ backend[r] # NoBackend =>
    identity[r] \in authenticate(call[r].token)

(* Only an eligible backend is ever chosen, and only that one is asked.     *)
RouteInv(r) ==
  /\ pc[r] \in {"idle", "body"} => backend[r] = NoBackend /\ opened[r] = <<>>
  /\ pc[r] \in {"opening", "backoff", "exhausted", "streaming", "reading",
                "accounting"} => backend[r] # NoBackend
  /\ backend[r] # NoBackend =>
       backend[r] \in gather(classify(identity[r].enforce_private),
                             [model |-> call[r].model, required_tags |-> {}])
  /\ backend[r] = NoBackend => opened[r] = <<>>
  /\ \A i \in 1..Len(opened[r]): opened[r][i] = backend[r]

(* The loop variable counts the failures so far, all of them retryable.     *)
LoopInv(r) ==
  /\ pc[r] \in {"idle", "body", "opening", "backoff", "streaming", "reading",
                "accounting"} =>
       /\ Len(faults[r]) = attempt[r]
       /\ \A i \in 1..Len(faults[r]): is_retryable(faults[r][i])
  /\ pc[r] \in {"opening", "streaming", "reading", "accounting"}
       => Len(opened[r]) = attempt[r] + 1
  /\ pc[r] = "backoff" => Len(opened[r]) = attempt[r]
  /\ pc[r] = "exhausted" => Len(opened[r]) = MaxRetries + 1
  /\ pc[r] \in {"idle", "body"} => attempt[r] = 0
  /\ pc[r] \in {"idle", "body", "opening", "backoff", "exhausted"} =>
       task[r] = "none" /\ status[r] = 0 /\ summary[r] = <<>>

(* RetryDiscipline of one request.                                          *)
Discipline(r) ==
  /\ Len(opened[r]) <= MaxRetries + 1
  /\ \A i \in 1..Len(faults[r]):
       i < Len(opened[r]) => is_retryable(faults[r][i])
  /\ (status[r] # 0 /\ opened[r] # <<>> /\ Len(faults[r]) = Len(opened[r])) =>
       LET last == faults[r][Len(faults[r])]
       IN  \/ ~is_retryable(last) /\ status[r] = last
           \/ Len(opened[r]) = MaxRetries + 1 /\ status[r] = 502

(* Where the accounting is, its usage object is known.                      *)
TaskInv(r) ==
  /\ task[r] \in {"budget", "tokens", "tpm"} =>
       Billed(r) \in Usages /\ backend[r] # NoBackend
  /\ task[r] = "waiting" => backend[r] # NoBackend
  /\ task[r] = "outcome" => backend[r] # NoBackend
  /\ pc[r] \in {"streaming", "reading"} =>
       task[r] = "waiting" /\ summary[r] = <<>>
  /\ pc[r] = "accounting" =>
       task[r] \in {"budget", "tokens", "tpm"} /\ summary[r] = <<>>

ReqInv(r) == /\ IdentityInv(r)
             /\ RouteInv(r)
             /\ LoopInv(r)
             /\ Discipline(r)
             /\ TaskInv(r)

Inv == TypeOK /\ \A r \in Requests: ReqInv(r)

(* A step that leaves request r alone.                                      *)
Same(r) ==
  /\ keys' = keys
  /\ pc'[r] = pc[r] /\ call'[r] = call[r] /\ identity'[r] = identity[r]
  /\ backend'[r] = backend[r] /\ attempt'[r] = attempt[r]
  /\ opened'[r] = opened[r] /\ faults'[r] = faults[r]
  /\ status'[r] = status[r] /\ usage'[r] = usage[r]
  /\ summary'[r] = summary[r] /\ task'[r] = task[r]

-----------------------------------------------------------------------------
(* Whatever the policy answers, what is selected is a candidate.            *)
LEMMA SelectInCandidates ==
  ASSUME NEW C, NEW b \in select(C), b # NoBackend
  PROVE  b \in C
  BY DEF select, item

(* A backend that is routed to passed the filter for the request's class.   *)
LEMMA RouteIsEligible ==
  ASSUME NEW r \in Requests, NEW b \in Routes(r), b # NoBackend
  PROVE  /\ b \in gather(classify(identity[r].enforce_private),
                         [model |-> call[r].model, required_tags |-> {}])
         /\ b \in Positions
  BY SelectInCandidates DEF Routes, route, gather

(* What is left alone keeps its part of the invariant.                      *)
LEMMA Frame ==
  ASSUME NEW r \in Requests, ReqInv(r), Same(r)
  PROVE  ReqInv(r)'
<1> USE DEF Same, ReqInv
<1>1. IdentityInv(r)'
  BY DEF IdentityInv, authenticate
<1>2. RouteInv(r)'
  BY DEF RouteInv
<1>3. LoopInv(r)'
  BY DEF LoopInv
<1>4. Discipline(r)'
  BY DEF Discipline
<1>5. TaskInv(r)'
  BY DEF TaskInv, Billed
<1>6. QED
  BY <1>1, <1>2, <1>3, <1>4, <1>5

LEMMA InitInv == Init => Inv
<1> SUFFICES ASSUME Init PROVE Inv
  OBVIOUS
<1> USE GatewayAssumption, RouterAssumption DEF Init, Anonymous
<1>1. TypeOK
  <2>1. /\ opened \in [Requests -> Seq(Positions)]
        /\ faults \in [Requests -> Seq(Failures)]
        /\ summary \in [Requests -> Seq([outcome: Outcomes,
                                         usage: Usages \cup {NoUsage}])]
    OBVIOUS
  <2>2. bucket \in [Names -> Nat]
    BY DEF limited
  <2>3. attempt \in [Requests -> 0..MaxRetries]
    OBVIOUS
  <2>4. requests_total \in [{"2xx", "5xx"} -> [Positions -> Nat]]
    OBVIOUS
  <2>5. /\ keys \in KeyStores /\ max_rpm \in RateLimits
        /\ pc \in [Requests -> PcStates]
        /\ call \in [Requests -> Calls \cup {<<>>}]
        /\ identity \in [Requests -> [name: Names, enforce_private: BOOLEAN]]
        /\ backend \in [Requests -> Positions \cup {NoBackend}]
        /\ status \in [Requests -> Nat]
        /\ usage \in [Requests -> Usages \cup {NoUsage}]
        /\ task \in [Requests -> TaskStates]
    BY DEF PcStates, TaskStates
  <2>6. /\ upstream_errors \in [Positions -> Nat]
        /\ rate_limit_rejections \in [Names -> Nat]
        /\ budget \in [Names -> Nat] /\ tokens \in [Names -> Nat]
        /\ tpm \in [Names -> Nat]
    OBVIOUS
  <2> HIDE DEF Init
  <2> QED BY <2>1, <2>2, <2>3, <2>4, <2>5, <2>6 DEF TypeOK
<1>2. ASSUME NEW r \in Requests
      PROVE  IdentityInv(r) /\ RouteInv(r) /\ LoopInv(r) /\ Discipline(r)
             /\ TaskInv(r)
  <2>1. IdentityInv(r) /\ TaskInv(r)
    BY <1>2 DEF IdentityInv, TaskInv
  <2>2. RouteInv(r)
    BY <1>2 DEF RouteInv
  <2>3. LoopInv(r) /\ Discipline(r)
    BY <1>2 DEF LoopInv, Discipline
  <2> QED BY <2>1, <2>2, <2>3
<1>3. QED
  BY <1>1, <1>2 DEF Inv, ReqInv
-----------------------------------------------------------------------------
(* A step of request r is checked on r alone.                               *)
LEMMA StepInv ==
  ASSUME Inv, NEW r \in Requests, TypeOK',
         \A q \in Requests \ {r}: Same(q),
         ReqInv(r)'
  PROVE  Inv'
<1>1. ASSUME NEW q \in Requests PROVE ReqInv(q)'
  BY <1>1, Frame DEF Inv
<1>2. QED
  BY <1>1 DEF Inv

(* The identities a token resolves to are identities.                       *)
LEMMA AuthenticateType ==
  ASSUME NEW token, keys \in KeyStores
  PROVE  authenticate(token) \subseteq [name: Names, enforce_private: BOOLEAN]
<1> USE GatewayAssumption
<1>1. Anonymous \in [name: Names, enforce_private: BOOLEAN]
  BY DEF Anonymous
<1>2. \A t \in DOMAIN keys: keys[t] \in [name: Names, enforce_private: BOOLEAN]
  OBVIOUS
<1>3. QED
  BY <1>1, <1>2 DEF authenticate

(* Types of the parts of one request that the arithmetic needs.             *)
LEMMA RowTypes ==
  ASSUME TypeOK, NEW r \in Requests
  PROVE  /\ attempt[r] \in Nat /\ attempt[r] <= MaxRetries /\ MaxRetries \in Nat
         /\ opened[r] \in Seq(Positions) /\ Len(opened[r]) \in Nat
         /\ faults[r] \in Seq(Failures) /\ Len(faults[r]) \in Nat
         /\ summary[r] \in Seq([outcome: Outcomes, usage: Usages \cup {NoUsage}])
         /\ backend[r] \in Positions \cup {NoBackend}
         /\ usage[r] \in Usages \cup {NoUsage}
<1>1. /\ opened[r] \in Seq(Positions) /\ faults[r] \in Seq(Failures)
      /\ summary[r] \in Seq([outcome: Outcomes, usage: Usages \cup {NoUsage}])
      /\ backend[r] \in Positions \cup {NoBackend}
      /\ usage[r] \in Usages \cup {NoUsage}
      /\ attempt[r] \in 0..MaxRetries
  BY DEF TypeOK
<1>2. QED
  BY <1>1, GatewayAssumption

(* A summary carries a usage object or none.                                *)
LEMMA SummaryHead ==
  ASSUME TypeOK, NEW r \in Requests, summary[r] # <<>>
  PROVE  Head(summary[r]).usage \in Usages \cup {NoUsage}
<1> DEFINE S == [outcome: Outcomes, usage: Usages \cup {NoUsage}]
<1>1. summary[r] \in Seq(S)
  BY RowTypes
<1> HIDE DEF S
<1>2. Head(summary[r]) \in S
  BY <1>1
<1>3. QED
  BY <1>2 DEF S

(* A cell is only taken where there is one.                                 *)
LEMMA TakeCell ==
  ASSUME TypeOK, NEW k \in Names, check_rpm(k), take_cell(k)
  PROVE  bucket' \in [Names -> Nat]
<1>1. bucket \in [Names -> Nat]
  BY DEF TypeOK
<1>2. CASE limited(k)
  BY <1>1, <1>2 DEF check_rpm, take_cell
<1>3. CASE ~limited(k)
  BY <1>1, <1>3 DEF take_cell
<1>4. QED
  BY <1>2, <1>3

LEMMA ReceiveInv ==
  ASSUME Inv, NEW r \in Requests, NEW c \in Calls, Receive(r, c)
  PROVE  Inv'
<1>1. TypeOK /\ ReqInv(r)
  BY DEF Inv
<1>a. PICK id \in authenticate(c.token): identity' = [identity EXCEPT ![r] = id]
  BY DEF Receive
<1>b. id \in [name: Names, enforce_private: BOOLEAN]
  BY <1>1, AuthenticateType DEF TypeOK
<1>2. pc[r] = "idle"
  BY <1>1, <1>a DEF Receive, GoTo, configVars, callVars, openVars,
     counterVars, ledgerVars
<1>3. /\ keys' = keys
      /\ pc'[r] = "body" /\ call'[r] = c /\ identity'[r] = id
      /\ backend'[r] = backend[r] /\ attempt'[r] = attempt[r]
      /\ opened'[r] = opened[r] /\ faults'[r] = faults[r]
      /\ status'[r] = status[r] /\ usage'[r] = usage[r]
      /\ summary'[r] = summary[r] /\ task'[r] = task[r]
  BY <1>1, <1>a DEF Receive, GoTo, configVars, callVars, openVars,
     counterVars, ledgerVars, TypeOK
<1>4. \A q \in Requests \ {r}: Same(q)
  BY <1>1, <1>a DEF Receive, GoTo, configVars, callVars, openVars,
     counterVars, ledgerVars, TypeOK, Same
<1>5. TypeOK'
  <2>1. pc' \in [Requests -> PcStates]
    BY <1>1, <1>a DEF Receive, GoTo, configVars, callVars, openVars,
       counterVars, ledgerVars, TypeOK, PcStates
  <2>2. call' \in [Requests -> Calls \cup {<<>>}]
    BY <1>1, <1>a DEF Receive, GoTo, configVars, callVars, openVars,
       counterVars, ledgerVars, TypeOK
  <2>3. identity' \in [Requests -> [name: Names, enforce_private: BOOLEAN]]
    BY <1>1, <1>a, <1>b DEF Receive, GoTo, configVars, callVars, openVars,
       counterVars, ledgerVars, TypeOK
  <2> QED
    BY <1>1, <2>1, <2>2, <2>3 DEF Receive, GoTo, configVars, callVars,
       openVars, counterVars, ledgerVars, TypeOK
<1>6. IdentityInv(r)'
  BY <1>1, <1>2, <1>3, <1>a DEF ReqInv, IdentityInv, authenticate
<1>7. RouteInv(r)'
  BY <1>1, <1>2, <1>3, RowTypes DEF ReqInv, RouteInv
<1>8. LoopInv(r)'
  BY <1>1, <1>2, <1>3, RowTypes DEF ReqInv, LoopInv
<1>9. Discipline(r)'
  BY <1>1, <1>3 DEF ReqInv, Discipline
<1>10. TaskInv(r)'
  BY <1>1, <1>2, <1>3, RowTypes DEF ReqInv, TaskInv, Billed, LoopInv,
     RouteInv
<1>11. QED
  BY <1>4, <1>5, <1>6, <1>7, <1>8, <1>9, <1>10, StepInv DEF ReqInv

LEMMA UnauthorizedInv ==
  ASSUME Inv, NEW r \in Requests, NEW c \in Calls, Unauthorized(r, c)
  PROVE  Inv'
<1>1. TypeOK /\ ReqInv(r)
  BY DEF Inv
<1>2. pc[r] = "idle"
  BY <1>1 DEF Unauthorized, Respond, configVars, callVars, openVars,
     counterVars, ledgerVars
<1>3. /\ keys' = keys
      /\ pc'[r] = "done" /\ call'[r] = c /\ identity'[r] = identity[r]
      /\ backend'[r] = backend[r] /\ attempt'[r] = attempt[r]
      /\ opened'[r] = opened[r] /\ faults'[r] = faults[r]
      /\ status'[r] = 401 /\ usage'[r] = usage[r]
      /\ summary'[r] = summary[r] /\ task'[r] = task[r]
  BY <1>1 DEF Unauthorized, Respond, configVars, callVars, openVars,
     counterVars, ledgerVars, TypeOK
<1>4. \A q \in Requests \ {r}: Same(q)
  BY <1>1 DEF Unauthorized, Respond, configVars, callVars, openVars,
     counterVars, ledgerVars, TypeOK, Same
<1>5. TypeOK'
  <2>1. pc' \in [Requests -> PcStates]
    BY <1>1 DEF Unauthorized, Respond, configVars, callVars, openVars,
       counterVars, ledgerVars, TypeOK, PcStates
  <2>2. status' \in [Requests -> Nat]
    BY <1>1 DEF Unauthorized, Respond, configVars, callVars, openVars,
       counterVars, ledgerVars, TypeOK
  <2>3. call' \in [Requests -> Calls \cup {<<>>}]
    BY <1>1 DEF Unauthorized, Respond, configVars, callVars, openVars,
       counterVars, ledgerVars, TypeOK
  <2> QED
    BY <1>1, <2>1, <2>2, <2>3 DEF Unauthorized, Respond, configVars,
       callVars, openVars, counterVars, ledgerVars, TypeOK
<1>6. IdentityInv(r)'
  BY <1>1, <1>2, <1>3 DEF ReqInv, IdentityInv, authenticate, RouteInv
<1>7. RouteInv(r)'
  BY <1>1, <1>2, <1>3, RowTypes DEF ReqInv, RouteInv
<1>8. LoopInv(r)'
  BY <1>1, <1>2, <1>3, RowTypes DEF ReqInv, LoopInv
<1>9. Discipline(r)'
  BY <1>1, <1>2, <1>3, RowTypes DEF ReqInv, LoopInv, RouteInv, Discipline
<1>10. TaskInv(r)'
  BY <1>1, <1>2, <1>3, RowTypes DEF ReqInv, TaskInv, Billed, LoopInv,
     RouteInv
<1>11. QED
  BY <1>4, <1>5, <1>6, <1>7, <1>8, <1>9, <1>10, StepInv DEF ReqInv

LEMMA RateLimitedInv ==
  ASSUME Inv, NEW r \in Requests, RateLimited(r)
  PROVE  Inv'
<1>1. TypeOK /\ ReqInv(r)
  BY DEF Inv
<1>2. pc[r] = "body"
  BY <1>1 DEF RateLimited, Respond, configVars, callVars, openVars,
     counterVars, ledgerVars
<1>3. /\ keys' = keys
      /\ pc'[r] = "done" /\ call'[r] = call[r]
      /\ identity'[r] = identity[r] /\ backend'[r] = backend[r]
      /\ attempt'[r] = attempt[r] /\ opened'[r] = opened[r]
      /\ faults'[r] = faults[r] /\ status'[r] = 429
      /\ usage'[r] = usage[r] /\ summary'[r] = summary[r]
      /\ task'[r] = task[r]
  BY <1>1 DEF RateLimited, Respond, configVars, callVars, openVars,
     counterVars, ledgerVars, TypeOK
<1>4. \A q \in Requests \ {r}: Same(q)
  BY <1>1 DEF RateLimited, Respond, configVars, callVars, openVars,
     counterVars, ledgerVars, TypeOK, Same
<1>5. TypeOK'
  <2>1. pc' \in [Requests -> PcStates]
    BY <1>1 DEF RateLimited, Respond, configVars, callVars, openVars,
       counterVars, ledgerVars, TypeOK, PcStates
  <2>2. status' \in [Requests -> Nat]
    BY <1>1 DEF RateLimited, Respond, configVars, callVars, openVars,
       counterVars, ledgerVars, TypeOK
  <2>3. rate_limit_rejections' \in [Names -> Nat]
    BY <1>1 DEF RateLimited, Respond, configVars, callVars, openVars,
       counterVars, ledgerVars, TypeOK
  <2> QED
    BY <1>1, <2>1, <2>2, <2>3 DEF RateLimited, Respond, configVars,
       callVars, openVars, counterVars, ledgerVars, TypeOK
<1>6. IdentityInv(r)'
  BY <1>1, <1>2, <1>3 DEF ReqInv, IdentityInv, authenticate
<1>7. RouteInv(r)'
  BY <1>1, <1>2, <1>3, RowTypes DEF ReqInv, RouteInv
<1>8. LoopInv(r)'
  BY <1>1, <1>2, <1>3, RowTypes DEF ReqInv, LoopInv
<1>9. Discipline(r)'
  BY <1>1, <1>2, <1>3, RowTypes DEF ReqInv, LoopInv, RouteInv, Discipline
<1>10. TaskInv(r)'
  BY <1>1, <1>2, <1>3, RowTypes DEF ReqInv, TaskInv, Billed, LoopInv,
     RouteInv
<1>11. QED
  BY <1>4, <1>5, <1>6, <1>7, <1>8, <1>9, <1>10, StepInv DEF ReqInv

LEMMA MissingModelInv ==
  ASSUME Inv, NEW r \in Requests, MissingModel(r)
  PROVE  Inv'
<1>1. TypeOK /\ ReqInv(r)
  BY DEF Inv
<1>2. pc[r] = "body"
  BY <1>1 DEF MissingModel, Respond, take_cell, check_rpm, configVars,
     callVars, openVars, counterVars, ledgerVars
<1>3. /\ keys' = keys
      /\ pc'[r] = "done" /\ call'[r] = call[r]
      /\ identity'[r] = identity[r] /\ backend'[r] = backend[r]
      /\ attempt'[r] = attempt[r] /\ opened'[r] = opened[r]
      /\ faults'[r] = faults[r] /\ status'[r] = 400
      /\ usage'[r] = usage[r] /\ summary'[r] = summary[r]
      /\ task'[r] = task[r]
  BY <1>1 DEF MissingModel, Respond, take_cell, check_rpm, configVars,
     callVars, openVars, counterVars, ledgerVars, TypeOK
<1>4. \A q \in Requests \ {r}: Same(q)
  BY <1>1 DEF MissingModel, Respond, take_cell, check_rpm, configVars,
     callVars, openVars, counterVars, ledgerVars, TypeOK, Same
<1>5. TypeOK'
  <2>1. pc' \in [Requests -> PcStates]
    BY <1>1 DEF MissingModel, Respond, take_cell, check_rpm, configVars,
       callVars, openVars, counterVars, ledgerVars, TypeOK, PcStates
  <2>2. status' \in [Requests -> Nat]
    BY <1>1 DEF MissingModel, Respond, take_cell, check_rpm, configVars,
       callVars, openVars, counterVars, ledgerVars, TypeOK
  <2>3. bucket' \in [Names -> Nat]
    BY <1>1, TakeCell DEF MissingModel, Respond, take_cell, check_rpm,
       configVars, callVars, openVars, counterVars, ledgerVars, TypeOK
  <2> QED
    BY <1>1, <2>1, <2>2, <2>3 DEF MissingModel, Respond, take_cell,
       check_rpm, configVars, callVars, openVars, counterVars, ledgerVars,
       TypeOK
<1>6. IdentityInv(r)'
  BY <1>1, <1>2, <1>3 DEF ReqInv, IdentityInv, authenticate
<1>7. RouteInv(r)'
  BY <1>1, <1>2, <1>3, RowTypes DEF ReqInv, RouteInv
<1>8. LoopInv(r)'
  BY <1>1, <1>2, <1>3, RowTypes DEF ReqInv, LoopInv
<1>9. Discipline(r)'
  BY <1>1, <1>2, <1>3, RowTypes DEF ReqInv, LoopInv, RouteInv, Discipline
<1>10. TaskInv(r)'
  BY <1>1, <1>2, <1>3, RowTypes DEF ReqInv, TaskInv, Billed, LoopInv,
     RouteInv
<1>11. QED
  BY <1>4, <1>5, <1>6, <1>7, <1>8, <1>9, <1>10, StepInv DEF ReqInv

LEMMA NoEligibleBackendInv ==
  ASSUME Inv, NEW r \in Requests, NoEligibleBackend(r)
  PROVE  Inv'
<1>1. TypeOK /\ ReqInv(r)
  BY DEF Inv
<1>2. pc[r] = "body"
  BY <1>1 DEF NoEligibleBackend, Respond, take_cell, check_rpm, configVars,
     callVars, openVars, counterVars, ledgerVars
<1>3. /\ keys' = keys
      /\ pc'[r] = "done" /\ call'[r] = call[r]
      /\ identity'[r] = identity[r] /\ backend'[r] = backend[r]
      /\ attempt'[r] = attempt[r] /\ opened'[r] = opened[r]
      /\ faults'[r] = faults[r] /\ status'[r] = 502
      /\ usage'[r] = usage[r] /\ summary'[r] = summary[r]
      /\ task'[r] = task[r]
  BY <1>1 DEF NoEligibleBackend, Respond, take_cell, check_rpm, configVars,
     callVars, openVars, counterVars, ledgerVars, TypeOK
<1>4. \A q \in Requests \ {r}: Same(q)
  BY <1>1 DEF NoEligibleBackend, Respond, take_cell, check_rpm, configVars,
     callVars, openVars, counterVars, ledgerVars, TypeOK, Same
<1>5. TypeOK'
  <2>1. pc' \in [Requests -> PcStates]
    BY <1>1 DEF NoEligibleBackend, Respond, take_cell, check_rpm,
       configVars, callVars, openVars, counterVars, ledgerVars, TypeOK,
       PcStates
  <2>2. status' \in [Requests -> Nat]
    BY <1>1 DEF NoEligibleBackend, Respond, take_cell, check_rpm,
       configVars, callVars, openVars, counterVars, ledgerVars, TypeOK
  <2>3. bucket' \in [Names -> Nat]
    BY <1>1, TakeCell DEF NoEligibleBackend, Respond, take_cell, check_rpm,
       configVars, callVars, openVars, counterVars, ledgerVars, TypeOK
  <2> QED
    BY <1>1, <2>1, <2>2, <2>3 DEF NoEligibleBackend, Respond, take_cell,
       check_rpm, configVars, callVars, openVars, counterVars, ledgerVars,
       TypeOK
<1>6. IdentityInv(r)'
  BY <1>1, <1>2, <1>3 DEF ReqInv, IdentityInv, authenticate
<1>7. RouteInv(r)'
  BY <1>1, <1>2, <1>3, RowTypes DEF ReqInv, RouteInv
<1>8. LoopInv(r)'
  BY <1>1, <1>2, <1>3, RowTypes DEF ReqInv, LoopInv
<1>9. Discipline(r)'
  BY <1>1, <1>2, <1>3, RowTypes DEF ReqInv, LoopInv, RouteInv, Discipline
<1>10. TaskInv(r)'
  BY <1>1, <1>2, <1>3, RowTypes DEF ReqInv, TaskInv, Billed, LoopInv,
     RouteInv
<1>11. QED
  BY <1>4, <1>5, <1>6, <1>7, <1>8, <1>9, <1>10, StepInv DEF ReqInv

LEMMA ForwardInv ==
  ASSUME Inv, NEW r \in Requests, Forward(r)
  PROVE  Inv'
<1>1. TypeOK /\ ReqInv(r)
  BY DEF Inv
<1>a. PICK b \in Routes(r) \ {NoBackend}:
        /\ backend' = [backend EXCEPT ![r] = b]
        /\ opened' = [opened EXCEPT ![r] = Append(@, b)]
  BY DEF Forward
<1>b. /\ b \in Positions /\ b # NoBackend
      /\ b \in gather(classify(identity[r].enforce_private),
                      [model |-> call[r].model, required_tags |-> {}])
  BY RouteIsEligible
<1>2. pc[r] = "body"
  BY <1>1, <1>a, <1>b DEF Forward, GoTo, take_cell, check_rpm, configVars,
     callVars, openVars, counterVars, ledgerVars
<1>3. /\ keys' = keys
      /\ pc'[r] = "opening" /\ call'[r] = call[r]
      /\ identity'[r] = identity[r] /\ backend'[r] = b
      /\ attempt'[r] = attempt[r] /\ opened'[r] = Append(opened[r], b)
      /\ faults'[r] = faults[r] /\ status'[r] = status[r]
      /\ usage'[r] = usage[r] /\ summary'[r] = summary[r]
      /\ task'[r] = task[r]
  BY <1>1, <1>a, <1>b DEF Forward, GoTo, take_cell, check_rpm, configVars,
     callVars, openVars, counterVars, ledgerVars, TypeOK
<1>4. \A q \in Requests \ {r}: Same(q)
  BY <1>1, <1>a, <1>b DEF Forward, GoTo, take_cell, check_rpm, configVars,
     callVars, openVars, counterVars, ledgerVars, TypeOK, Same
<1>5. TypeOK'
  <2>1. pc' \in [Requests -> PcStates]
    BY <1>1, <1>a, <1>b DEF Forward, GoTo, take_cell, check_rpm, configVars,
       callVars, openVars, counterVars, ledgerVars, TypeOK, PcStates
  <2>2. bucket' \in [Names -> Nat]
    BY <1>1, <1>a, <1>b, TakeCell DEF Forward, GoTo, take_cell, check_rpm,
       configVars, callVars, openVars, counterVars, ledgerVars, TypeOK
  <2>3. backend' \in [Requests -> Positions \cup {NoBackend}]
    BY <1>1, <1>a, <1>b DEF Forward, GoTo, take_cell, check_rpm, configVars,
       callVars, openVars, counterVars, ledgerVars, TypeOK
  <2>4. opened' \in [Requests -> Seq(Positions)]
    BY <1>1, <1>a, <1>b DEF Forward, GoTo, take_cell, check_rpm, configVars,
       callVars, openVars, counterVars, ledgerVars, TypeOK
  <2> QED
    BY <1>1, <2>1, <2>2, <2>3, <2>4 DEF Forward, GoTo, take_cell, check_rpm,
       configVars, callVars, openVars, counterVars, ledgerVars, TypeOK
<1>6. IdentityInv(r)'
  BY <1>1, <1>2, <1>3 DEF ReqInv, IdentityInv, authenticate
<1>7. RouteInv(r)'
  BY <1>1, <1>2, <1>3, RowTypes, <1>b DEF ReqInv, RouteInv
<1>8. LoopInv(r)'
  BY <1>1, <1>2, <1>3, RowTypes DEF ReqInv, LoopInv, RouteInv
<1>9. Discipline(r)'
  BY <1>1, <1>2, <1>3, RowTypes DEF ReqInv, LoopInv, RouteInv, Discipline
<1>10. TaskInv(r)'
  BY <1>1, <1>2, <1>3, RowTypes, <1>b DEF ReqInv, TaskInv, Billed, LoopInv,
     RouteInv
<1>11. QED
  BY <1>4, <1>5, <1>6, <1>7, <1>8, <1>9, <1>10, StepInv DEF ReqInv

LEMMA OpenRejectedInv ==
  ASSUME Inv, NEW r \in Requests, NEW e \in Failures, OpenRejected(r, e)
  PROVE  Inv'
<1>1. TypeOK /\ ReqInv(r)
  BY DEF Inv
<1>a. backend[r] \in Positions
  BY <1>1, RowTypes DEF ReqInv, RouteInv, TaskInv, OpenRejected
<1>2. pc[r] = "opening" /\ ~is_retryable(e)
  BY <1>1 DEF OpenRejected, Respond, CountError, configVars, callVars,
     openVars, counterVars, ledgerVars
<1>3. /\ keys' = keys
      /\ pc'[r] = "done" /\ call'[r] = call[r]
      /\ identity'[r] = identity[r] /\ backend'[r] = backend[r]
      /\ attempt'[r] = attempt[r] /\ opened'[r] = opened[r]
      /\ faults'[r] = Append(faults[r], e) /\ status'[r] = e
      /\ usage'[r] = usage[r] /\ summary'[r] = summary[r]
      /\ task'[r] = task[r]
  BY <1>1 DEF OpenRejected, Respond, CountError, configVars, callVars,
     openVars, counterVars, ledgerVars, TypeOK
<1>4. \A q \in Requests \ {r}: Same(q)
  BY <1>1 DEF OpenRejected, Respond, CountError, configVars, callVars,
     openVars, counterVars, ledgerVars, TypeOK, Same
<1>5. TypeOK'
  <2>1. pc' \in [Requests -> PcStates]
    BY <1>1 DEF OpenRejected, Respond, CountError, configVars, callVars,
       openVars, counterVars, ledgerVars, TypeOK, PcStates
  <2>2. status' \in [Requests -> Nat]
    BY <1>1, GatewayAssumption DEF OpenRejected, Respond, CountError,
       configVars, callVars, openVars, counterVars, ledgerVars, TypeOK,
       is_retryable
  <2>3. faults' \in [Requests -> Seq(Failures)]
    BY <1>1 DEF OpenRejected, Respond, CountError, configVars, callVars,
       openVars, counterVars, ledgerVars, TypeOK
  <2>4. upstream_errors' \in [Positions -> Nat]
    BY SMTT(30), <1>1, <1>a DEF OpenRejected, Respond, CountError, configVars,
       callVars, openVars, counterVars, ledgerVars, TypeOK
  <2> QED
    BY <1>1, <2>1, <2>2, <2>3, <2>4 DEF OpenRejected, Respond, CountError,
       configVars, callVars, openVars, counterVars, ledgerVars, TypeOK
<1>6. IdentityInv(r)'
  BY <1>1, <1>2, <1>3 DEF ReqInv, IdentityInv, authenticate
<1>7. RouteInv(r)'
  BY <1>1, <1>2, <1>3, RowTypes DEF ReqInv, RouteInv
<1>8. LoopInv(r)'
  BY <1>1, <1>2, <1>3, RowTypes DEF ReqInv, LoopInv
<1>9. Discipline(r)'
  <2>1. /\ Len(faults[r]) = attempt[r] /\ Len(opened[r]) = attempt[r] + 1
        /\ attempt[r] \in Nat
        /\ \A i \in 1..Len(faults[r]): is_retryable(faults[r][i])
    BY <1>1, <1>2, RowTypes DEF ReqInv, LoopInv
  <2>2. /\ Len(faults'[r]) = Len(faults[r]) + 1
        /\ faults'[r][Len(faults[r]) + 1] = e
        /\ \A i \in 1..Len(faults[r]): faults'[r][i] = faults[r][i]
    BY <1>1, <1>3, RowTypes
  <2>3. Len(opened'[r]) <= MaxRetries + 1
    BY <1>1, <1>3 DEF ReqInv, Discipline
  <2>4. \A i \in 1..Len(faults'[r]):
          i < Len(opened'[r]) => is_retryable(faults'[r][i])
    <3>1. \A i \in 1..Len(faults'[r]):
            i < Len(opened'[r]) => i \in 1..Len(faults[r])
      BY <2>1, <2>2, <1>3
    <3> QED
      BY <3>1, <2>1, <2>2
  <2>5. faults'[r][Len(faults'[r])] = e
    BY <2>2
  <2> QED
    BY <2>3, <2>4, <2>5, <1>2, <1>3 DEF Discipline
<1>10. TaskInv(r)'
  BY <1>1, <1>2, <1>3, RowTypes DEF ReqInv, TaskInv, Billed, LoopInv,
     RouteInv
<1>11. QED
  BY <1>4, <1>5, <1>6, <1>7, <1>8, <1>9, <1>10, StepInv DEF ReqInv

LEMMA OpenRetriedInv ==
  ASSUME Inv, NEW r \in Requests, NEW e \in Failures, OpenRetried(r, e)
  PROVE  Inv'
<1>1. TypeOK /\ ReqInv(r)
  BY DEF Inv
<1>a. backend[r] \in Positions
  BY <1>1, RowTypes DEF ReqInv, RouteInv, TaskInv, OpenRetried
<1>2. pc[r] = "opening" /\ is_retryable(e) /\ attempt[r] < MaxRetries
  BY <1>1 DEF OpenRetried, GoTo, CountError, configVars, callVars, openVars,
     counterVars, ledgerVars
<1>3. /\ keys' = keys
      /\ pc'[r] = "backoff" /\ call'[r] = call[r]
      /\ identity'[r] = identity[r] /\ backend'[r] = backend[r]
      /\ attempt'[r] = attempt[r] + 1 /\ opened'[r] = opened[r]
      /\ faults'[r] = Append(faults[r], e) /\ status'[r] = status[r]
      /\ usage'[r] = usage[r] /\ summary'[r] = summary[r]
      /\ task'[r] = task[r]
  BY <1>1 DEF OpenRetried, GoTo, CountError, configVars, callVars, openVars,
     counterVars, ledgerVars, TypeOK
<1>4. \A q \in Requests \ {r}: Same(q)
  BY <1>1 DEF OpenRetried, GoTo, CountError, configVars, callVars, openVars,
     counterVars, ledgerVars, TypeOK, Same
<1>5. TypeOK'
  <2>1. pc' \in [Requests -> PcStates]
    BY <1>1 DEF OpenRetried, GoTo, CountError, configVars, callVars,
       openVars, counterVars, ledgerVars, TypeOK, PcStates
  <2>2. faults' \in [Requests -> Seq(Failures)]
    BY <1>1 DEF OpenRetried, GoTo, CountError, configVars, callVars,
       openVars, counterVars, ledgerVars, TypeOK
  <2>3. attempt' \in [Requests -> 0..MaxRetries]
    <3>1. attempt \in [Requests -> 0..MaxRetries]
      BY <1>1 DEF TypeOK
    <3> QED BY <3>1, <1>2, RowTypes, <1>1 DEF OpenRetried
  <2>4. upstream_errors' \in [Positions -> Nat]
    BY SMTT(30), <1>1, <1>a DEF OpenRetried, GoTo, CountError, configVars, callVars,
       openVars, counterVars, ledgerVars, TypeOK
  <2> QED
    BY <1>1, <2>1, <2>2, <2>3, <2>4 DEF OpenRetried, GoTo, CountError,
       configVars, callVars, openVars, counterVars, ledgerVars, TypeOK
<1>6. IdentityInv(r)'
  BY <1>1, <1>2, <1>3 DEF ReqInv, IdentityInv, authenticate
<1>7. RouteInv(r)'
  BY <1>1, <1>2, <1>3, RowTypes DEF ReqInv, RouteInv
<1>8. LoopInv(r)'
  BY SMTT(30), <1>1, <1>2, <1>3, RowTypes DEF ReqInv, LoopInv
<1>9. Discipline(r)'
  BY <1>1, <1>2, <1>3, RowTypes, <1>8 DEF ReqInv, LoopInv, RouteInv,
     Discipline
<1>10. TaskInv(r)'
  BY <1>1, <1>2, <1>3, RowTypes DEF ReqInv, TaskInv, Billed, LoopInv,
     RouteInv
<1>11. QED
  BY <1>4, <1>5, <1>6, <1>7, <1>8, <1>9, <1>10, StepInv DEF ReqInv

LEMMA OpenExhaustedInv ==
  ASSUME Inv, NEW r \in Requests, NEW e \in Failures, OpenExhausted(r, e)
  PROVE  Inv'
<1>1. TypeOK /\ ReqInv(r)
  BY DEF Inv
<1>a. backend[r] \in Positions
  BY <1>1, RowTypes DEF ReqInv, RouteInv, TaskInv, OpenExhausted
<1>2. pc[r] = "opening" /\ is_retryable(e) /\ attempt[r] = MaxRetries
  BY <1>1 DEF OpenExhausted, GoTo, CountError, configVars, callVars,
     openVars, counterVars, ledgerVars
<1>3. /\ keys' = keys
      /\ pc'[r] = "exhausted" /\ call'[r] = call[r]
      /\ identity'[r] = identity[r] /\ backend'[r] = backend[r]
      /\ attempt'[r] = attempt[r] /\ opened'[r] = opened[r]
      /\ faults'[r] = Append(faults[r], e) /\ status'[r] = status[r]
      /\ usage'[r] = usage[r] /\ summary'[r] = summary[r]
      /\ task'[r] = task[r]
  BY <1>1 DEF OpenExhausted, GoTo, CountError, configVars, callVars,
     openVars, counterVars, ledgerVars, TypeOK
<1>4. \A q \in Requests \ {r}: Same(q)
  BY <1>1 DEF OpenExhausted, GoTo, CountError, configVars, callVars,
     openVars, counterVars, ledgerVars, TypeOK, Same
<1>5. TypeOK'
  <2>1. pc' \in [Requests -> PcStates]
    BY <1>1 DEF OpenExhausted, GoTo, CountError, configVars, callVars,
       openVars, counterVars, ledgerVars, TypeOK, PcStates
  <2>3. faults' \in [Requests -> Seq(Failures)]
    BY <1>1 DEF OpenExhausted, GoTo, CountError, configVars, callVars,
       openVars, counterVars, ledgerVars, TypeOK
  <2>4. upstream_errors' \in [Positions -> Nat]
    <3>1. upstream_errors \in [Positions -> Nat]
      BY <1>1 DEF TypeOK
    <3> QED BY <3>1, <1>a DEF OpenExhausted, CountError
  <2> QED
    BY <1>1, <2>1, <2>3, <2>4 DEF OpenExhausted, GoTo,
       CountError, configVars, callVars, openVars, counterVars, ledgerVars,
       TypeOK
<1>6. IdentityInv(r)'
  BY <1>1, <1>2, <1>3 DEF ReqInv, IdentityInv, authenticate
<1>7. RouteInv(r)'
  BY <1>1, <1>2, <1>3, RowTypes DEF ReqInv, RouteInv
<1>8. LoopInv(r)'
  BY <1>1, <1>2, <1>3, RowTypes DEF ReqInv, LoopInv
<1>9. Discipline(r)'
  <2>1. /\ Len(opened[r]) = MaxRetries + 1 /\ Len(faults[r]) = MaxRetries
        /\ \A i \in 1..Len(faults[r]): is_retryable(faults[r][i])
    BY <1>1, <1>2, RowTypes DEF ReqInv, LoopInv
  <2>2. MaxRetries \in Nat
    BY GatewayAssumption
  <2>3. /\ Len(faults'[r]) = MaxRetries + 1
        /\ \A i \in 1..Len(faults[r]): faults'[r][i] = faults[r][i]
    BY <1>1, <1>3, <2>1, RowTypes
  <2>4. Len(opened'[r]) = MaxRetries + 1
    BY <2>1, <1>3
  <2>5. \A i \in 1..Len(faults'[r]):
          i < Len(opened'[r]) => is_retryable(faults'[r][i])
    <3>1. \A i \in 1..Len(faults'[r]):
            i < Len(opened'[r]) => i \in 1..Len(faults[r])
      BY <2>1, <2>2, <2>3, <2>4
    <3> QED
      BY <3>1, <2>1, <2>3
  <2>6. status'[r] = 0
    BY <1>1, <1>2, <1>3 DEF ReqInv, LoopInv
  <2> QED
    BY <2>2, <2>4, <2>5, <2>6 DEF Discipline
<1>10. TaskInv(r)'
  BY <1>1, <1>2, <1>3, RowTypes DEF ReqInv, TaskInv, Billed, LoopInv,
     RouteInv
<1>11. QED
  BY <1>4, <1>5, <1>6, <1>7, <1>8, <1>9, <1>10, StepInv DEF ReqInv

LEMMA GiveUpInv ==
  ASSUME Inv, NEW r \in Requests, GiveUp(r)
  PROVE  Inv'
<1>1. TypeOK /\ ReqInv(r)
  BY DEF Inv
<1>a. backend[r] \in Positions
  BY <1>1, RowTypes DEF ReqInv, RouteInv, TaskInv, GiveUp
<1>2. pc[r] = "exhausted"
  BY <1>1 DEF GiveUp, Respond, configVars, callVars,
     openVars, counterVars, ledgerVars
<1>3. /\ keys' = keys
      /\ pc'[r] = "done" /\ call'[r] = call[r]
      /\ identity'[r] = identity[r] /\ backend'[r] = backend[r]
      /\ attempt'[r] = attempt[r] /\ opened'[r] = opened[r]
      /\ faults'[r] = faults[r] /\ status'[r] = 502
      /\ usage'[r] = usage[r] /\ summary'[r] = summary[r]
      /\ task'[r] = task[r]
  BY <1>1 DEF GiveUp, Respond, configVars, callVars,
     openVars, counterVars, ledgerVars, TypeOK
<1>4. \A q \in Requests \ {r}: Same(q)
  BY <1>1 DEF GiveUp, Respond, configVars, callVars,
     openVars, counterVars, ledgerVars, TypeOK, Same
<1>5. TypeOK'
  <2>1. pc' \in [Requests -> PcStates]
    BY <1>1 DEF GiveUp, Respond, configVars, callVars,
       openVars, counterVars, ledgerVars, TypeOK, PcStates
  <2>2. status' \in [Requests -> Nat]
    BY <1>1 DEF GiveUp, Respond, configVars, callVars,
       openVars, counterVars, ledgerVars, TypeOK
  <2>5. requests_total' \in [{"2xx", "5xx"} -> [Positions -> Nat]]
    <3>1. requests_total \in [{"2xx", "5xx"} -> [Positions -> Nat]]
      BY <1>1 DEF TypeOK
    <3> QED BY <3>1, <1>a DEF GiveUp
  <2> QED
    BY <1>1, <2>1, <2>2, <2>5 DEF GiveUp, Respond,
       configVars, callVars, openVars, counterVars, ledgerVars,
       TypeOK
<1>6. IdentityInv(r)'
  BY <1>1, <1>2, <1>3 DEF ReqInv, IdentityInv, authenticate
<1>7. RouteInv(r)'
  BY <1>1, <1>2, <1>3, RowTypes DEF ReqInv, RouteInv
<1>8. LoopInv(r)'
  BY <1>1, <1>2, <1>3, RowTypes DEF ReqInv, LoopInv
<1>9. Discipline(r)'
  BY <1>1, <1>2, <1>3, RowTypes DEF ReqInv, LoopInv, Discipline
<1>10. TaskInv(r)'
  BY <1>1, <1>2, <1>3, RowTypes DEF ReqInv, TaskInv, Billed, LoopInv,
     RouteInv
<1>11. QED
  BY <1>4, <1>5, <1>6, <1>7, <1>8, <1>9, <1>10, StepInv DEF ReqInv

LEMMA BackoffElapsedInv ==
  ASSUME Inv, NEW r \in Requests, BackoffElapsed(r)
  PROVE  Inv'
<1>1. TypeOK /\ ReqInv(r)
  BY DEF Inv
<1>a. backend[r] \in Positions
  BY <1>1, RowTypes DEF ReqInv, RouteInv, TaskInv, BackoffElapsed
<1>2. pc[r] = "backoff"
  BY <1>1 DEF BackoffElapsed, GoTo, configVars, callVars, openVars,
     counterVars, ledgerVars
<1>3. /\ keys' = keys
      /\ pc'[r] = "opening" /\ call'[r] = call[r]
      /\ identity'[r] = identity[r] /\ backend'[r] = backend[r]
      /\ attempt'[r] = attempt[r]
      /\ opened'[r] = Append(opened[r], backend[r])
      /\ faults'[r] = faults[r] /\ status'[r] = status[r]
      /\ usage'[r] = usage[r] /\ summary'[r] = summary[r]
      /\ task'[r] = task[r]
  BY <1>1 DEF BackoffElapsed, GoTo, configVars, callVars, openVars,
     counterVars, ledgerVars, TypeOK
<1>4. \A q \in Requests \ {r}: Same(q)
  BY <1>1 DEF BackoffElapsed, GoTo, configVars, callVars, openVars,
     counterVars, ledgerVars, TypeOK, Same
<1>5. TypeOK'
  <2>1. pc' \in [Requests -> PcStates]
    BY <1>1 DEF BackoffElapsed, GoTo, configVars, callVars, openVars,
       counterVars, ledgerVars, TypeOK, PcStates
  <2>2. opened' \in [Requests -> Seq(Positions)]
    BY <1>1, <1>a DEF BackoffElapsed, GoTo, configVars, callVars, openVars,
       counterVars, ledgerVars, TypeOK
  <2> QED
    BY <1>1, <2>1, <2>2 DEF BackoffElapsed, GoTo, configVars, callVars,
       openVars, counterVars, ledgerVars, TypeOK
<1>6. IdentityInv(r)'
  BY <1>1, <1>2, <1>3 DEF ReqInv, IdentityInv, authenticate
<1>7. RouteInv(r)'
  BY <1>1, <1>2, <1>3, RowTypes DEF ReqInv, RouteInv
<1>8. LoopInv(r)'
  BY <1>1, <1>2, <1>3, RowTypes DEF ReqInv, LoopInv
<1>9. Discipline(r)'
  <2>1. /\ Len(opened[r]) = attempt[r] /\ Len(faults[r]) = attempt[r]
        /\ \A i \in 1..Len(faults[r]): is_retryable(faults[r][i])
        /\ status[r] = 0
    BY <1>1, <1>2 DEF ReqInv, LoopInv
  <2>2. Len(opened'[r]) = attempt[r] + 1 /\ attempt[r] \in 0..MaxRetries
    BY <1>1, <1>3, <2>1, RowTypes
  <2>3. Len(opened'[r]) <= MaxRetries + 1
    BY <2>2, GatewayAssumption
  <2> QED
    BY <1>3, <2>1, <2>3 DEF Discipline
<1>10. TaskInv(r)'
  BY <1>1, <1>2, <1>3, RowTypes DEF ReqInv, TaskInv, Billed, LoopInv,
     RouteInv
<1>11. QED
  BY <1>4, <1>5, <1>6, <1>7, <1>8, <1>9, <1>10, StepInv DEF ReqInv

LEMMA OpenSucceededInv ==
  ASSUME Inv, NEW r \in Requests, OpenSucceeded(r)
  PROVE  Inv'
<1>1. TypeOK /\ ReqInv(r)
  BY DEF Inv
<1>a. backend[r] \in Positions
  BY <1>1, RowTypes DEF ReqInv, RouteInv, TaskInv, OpenSucceeded
<1>2. pc[r] = "opening"
  BY <1>1 DEF OpenSucceeded, GoTo, configVars, callVars, openVars,
     counterVars, ledgerVars
<1>3. /\ keys' = keys
      /\ pc'[r] = IF call[r].stream THEN "streaming" ELSE "reading"
      /\ call'[r] = call[r] /\ identity'[r] = identity[r]
      /\ backend'[r] = backend[r] /\ attempt'[r] = attempt[r]
      /\ opened'[r] = opened[r] /\ faults'[r] = faults[r]
      /\ status'[r] = IF call[r].stream THEN 200 ELSE status[r]
      /\ usage'[r] = usage[r] /\ summary'[r] = summary[r]
      /\ task'[r] = "waiting"
  BY <1>1 DEF OpenSucceeded, GoTo, configVars, callVars, openVars,
     counterVars, ledgerVars, TypeOK
<1>4. \A q \in Requests \ {r}: Same(q)
  BY <1>1 DEF OpenSucceeded, GoTo, configVars, callVars, openVars,
     counterVars, ledgerVars, TypeOK, Same
<1>5. TypeOK'
  <2>1. pc' \in [Requests -> PcStates]
    BY <1>1 DEF OpenSucceeded, GoTo, configVars, callVars, openVars,
       counterVars, ledgerVars, TypeOK, PcStates
  <2>2. status' \in [Requests -> Nat]
    BY <1>1 DEF OpenSucceeded, GoTo, configVars, callVars, openVars,
       counterVars, ledgerVars, TypeOK
  <2>3. task' \in [Requests -> TaskStates]
    BY <1>1 DEF OpenSucceeded, GoTo, configVars, callVars, openVars,
       counterVars, ledgerVars, TypeOK, TaskStates
  <2>4. requests_total' \in [{"2xx", "5xx"} -> [Positions -> Nat]]
    BY SMTT(30), <1>1, <1>a DEF OpenSucceeded, GoTo, configVars, callVars, openVars,
       counterVars, ledgerVars, TypeOK
  <2> QED
    BY <1>1, <2>1, <2>2, <2>3, <2>4 DEF OpenSucceeded, GoTo, configVars,
       callVars, openVars, counterVars, ledgerVars, TypeOK
<1>6. IdentityInv(r)'
  BY <1>1, <1>2, <1>3 DEF ReqInv, IdentityInv, authenticate
<1>7. RouteInv(r)'
  BY <1>1, <1>2, <1>3, RowTypes DEF ReqInv, RouteInv
<1>8. LoopInv(r)'
  BY <1>1, <1>2, <1>3, RowTypes DEF ReqInv, LoopInv
<1>9. Discipline(r)'
  <2>1. /\ Len(faults[r]) = attempt[r] /\ Len(opened[r]) = attempt[r] + 1
        /\ attempt[r] \in Nat
    BY <1>1, <1>2, RowTypes DEF ReqInv, LoopInv
  <2>2. Len(faults'[r]) # Len(opened'[r])
    BY <2>1, <1>3
  <2>3. /\ Len(opened'[r]) <= MaxRetries + 1
        /\ \A i \in 1..Len(faults'[r]):
             i < Len(opened'[r]) => is_retryable(faults'[r][i])
    BY <1>1, <1>3 DEF ReqInv, Discipline
  <2> QED
    BY <2>2, <2>3 DEF Discipline
<1>10. TaskInv(r)'
  BY <1>1, <1>2, <1>3, RowTypes DEF ReqInv, TaskInv, Billed, LoopInv,
     RouteInv
<1>11. QED
  BY <1>4, <1>5, <1>6, <1>7, <1>8, <1>9, <1>10, StepInv DEF ReqInv

LEMMA RelayScanInv ==
  ASSUME Inv, NEW r \in Requests, RelayScan(r)
  PROVE  Inv'
<1>1. TypeOK /\ ReqInv(r)
  BY DEF Inv
<1>a. PICK u \in Usages: usage' = [usage EXCEPT ![r] = u]
  BY DEF RelayScan
<1>2. pc[r] = "streaming"
  BY <1>1, <1>a DEF RelayScan, configVars, callVars, openVars, counterVars,
     ledgerVars
<1>3. /\ keys' = keys
      /\ pc'[r] = pc[r] /\ call'[r] = call[r]
      /\ identity'[r] = identity[r] /\ backend'[r] = backend[r]
      /\ attempt'[r] = attempt[r] /\ opened'[r] = opened[r]
      /\ faults'[r] = faults[r] /\ status'[r] = status[r] /\ usage'[r] = u
      /\ summary'[r] = summary[r] /\ task'[r] = task[r]
  BY <1>1, <1>a DEF RelayScan, configVars, callVars, openVars, counterVars,
     ledgerVars, TypeOK
<1>4. \A q \in Requests \ {r}: Same(q)
  BY <1>1, <1>a DEF RelayScan, configVars, callVars, openVars, counterVars,
     ledgerVars, TypeOK, Same
<1>5. TypeOK'
  <2>1. usage' \in [Requests -> Usages \cup {NoUsage}]
    BY <1>1, <1>a DEF RelayScan, configVars, callVars, openVars,
       counterVars, ledgerVars, TypeOK
  <2> QED
    BY <1>1, <2>1 DEF RelayScan, configVars, callVars, openVars,
       counterVars, ledgerVars, TypeOK
<1>6. IdentityInv(r)'
  BY <1>1, <1>2, <1>3 DEF ReqInv, IdentityInv, authenticate
<1>7. RouteInv(r)'
  BY <1>1, <1>2, <1>3, RowTypes DEF ReqInv, RouteInv
<1>8. LoopInv(r)'
  BY <1>1, <1>2, <1>3, RowTypes DEF ReqInv, LoopInv
<1>9. Discipline(r)'
  BY <1>1, <1>3 DEF ReqInv, Discipline
<1>10. TaskInv(r)'
  BY <1>1, <1>2, <1>3, RowTypes DEF ReqInv, TaskInv, Billed, LoopInv,
     RouteInv
<1>11. QED
  BY <1>4, <1>5, <1>6, <1>7, <1>8, <1>9, <1>10, StepInv DEF ReqInv

LEMMA RelayEndInv ==
  ASSUME Inv, NEW r \in Requests, RelayEnd(r)
  PROVE  Inv'
<1>1. TypeOK /\ ReqInv(r)
  BY DEF Inv
<1>a. PICK o \in Outcomes:
        summary' = [summary EXCEPT ![r] =
                      Append(@, [outcome |-> o, usage |-> usage[r]])]
  BY DEF RelayEnd
<1>b. [outcome |-> o, usage |-> usage[r]] \in
         [outcome: Outcomes, usage: Usages \cup {NoUsage}]
  BY <1>1, RowTypes
<1>2. pc[r] = "streaming"
  BY <1>1, <1>a DEF RelayEnd, GoTo, configVars, callVars, openVars,
     counterVars, ledgerVars
<1>3. /\ keys' = keys
      /\ pc'[r] = "done" /\ call'[r] = call[r]
      /\ identity'[r] = identity[r] /\ backend'[r] = backend[r]
      /\ attempt'[r] = attempt[r] /\ opened'[r] = opened[r]
      /\ faults'[r] = faults[r] /\ status'[r] = status[r]
      /\ usage'[r] = usage[r]
      /\ summary'[r] = Append(summary[r], [outcome |-> o, usage |-> usage[r]])
      /\ task'[r] = task[r]
  BY <1>1, <1>a DEF RelayEnd, GoTo, configVars, callVars, openVars,
     counterVars, ledgerVars, TypeOK
<1>4. \A q \in Requests \ {r}: Same(q)
  BY <1>1, <1>a DEF RelayEnd, GoTo, configVars, callVars, openVars,
     counterVars, ledgerVars, TypeOK, Same
<1>5. TypeOK'
  <2>1. pc' \in [Requests -> PcStates]
    BY <1>1, <1>a DEF RelayEnd, GoTo, configVars, callVars, openVars,
       counterVars, ledgerVars, TypeOK, PcStates
  <2>2. summary' \in [Requests -> Seq([outcome: Outcomes, usage: Usages \cup {NoUsage}])]
    <3> DEFINE S == [outcome: Outcomes, usage: Usages \cup {NoUsage}]
    <3>1. summary \in [Requests -> Seq(S)]
      BY <1>1 DEF TypeOK
    <3>2. [outcome |-> o, usage |-> usage[r]] \in S
      BY <1>b
    <3> HIDE DEF S
    <3>3. Append(summary[r], [outcome |-> o, usage |-> usage[r]]) \in Seq(S)
      BY <3>1, <3>2
    <3>4. summary' \in [Requests -> Seq(S)]
      BY <1>a, <3>1, <3>3
    <3> QED BY <3>4 DEF S
  <2> QED
    BY <1>1, <2>1, <2>2 DEF RelayEnd, GoTo, configVars, callVars, openVars,
       counterVars, ledgerVars, TypeOK
<1>6. IdentityInv(r)'
  BY <1>1, <1>2, <1>3 DEF ReqInv, IdentityInv, authenticate
<1>7. RouteInv(r)'
  BY <1>1, <1>2, <1>3, RowTypes DEF ReqInv, RouteInv
<1>8. LoopInv(r)'
  BY <1>1, <1>2, <1>3, RowTypes DEF ReqInv, LoopInv
<1>9. Discipline(r)'
  BY <1>1, <1>3 DEF ReqInv, Discipline
<1>10. TaskInv(r)'
  BY <1>1, <1>2, <1>3, RowTypes DEF ReqInv, TaskInv, Billed, LoopInv,
     RouteInv
<1>11. QED
  BY <1>4, <1>5, <1>6, <1>7, <1>8, <1>9, <1>10, StepInv DEF ReqInv

LEMMA TaskWokenInv ==
  ASSUME Inv, NEW r \in Requests, TaskWoken(r)
  PROVE  Inv'
<1>1. TypeOK /\ ReqInv(r)
  BY DEF Inv
<1>2. task[r] = "waiting" /\ summary[r] # <<>>
  BY <1>1 DEF TaskWoken, configVars, callVars, openVars, counterVars,
     ledgerVars
<1>3. /\ keys' = keys
      /\ pc'[r] = pc[r] /\ call'[r] = call[r]
      /\ identity'[r] = identity[r] /\ backend'[r] = backend[r]
      /\ attempt'[r] = attempt[r] /\ opened'[r] = opened[r]
      /\ faults'[r] = faults[r] /\ status'[r] = status[r]
      /\ usage'[r] = usage[r] /\ summary'[r] = summary[r]
      /\ task'[r] = IF Head(summary[r]).usage = NoUsage THEN "outcome" ELSE "budget"
  BY <1>1 DEF TaskWoken, configVars, callVars, openVars, counterVars,
     ledgerVars, TypeOK
<1>4. \A q \in Requests \ {r}: Same(q)
  BY <1>1 DEF TaskWoken, configVars, callVars, openVars, counterVars,
     ledgerVars, TypeOK, Same
<1>5. TypeOK'
  <2>1. task' \in [Requests -> TaskStates]
    BY <1>1 DEF TaskWoken, configVars, callVars, openVars, counterVars,
       ledgerVars, TypeOK, TaskStates
  <2> QED
    BY <1>1, <2>1 DEF TaskWoken, configVars, callVars, openVars,
       counterVars, ledgerVars, TypeOK
<1>6. IdentityInv(r)'
  BY <1>1, <1>2, <1>3 DEF ReqInv, IdentityInv, authenticate
<1>7. RouteInv(r)'
  BY <1>1, <1>2, <1>3, RowTypes DEF ReqInv, RouteInv
<1>8. LoopInv(r)'
  BY <1>1, <1>2, <1>3, RowTypes DEF ReqInv, LoopInv
<1>9. Discipline(r)'
  BY <1>1, <1>3 DEF ReqInv, Discipline
<1>10. TaskInv(r)'
  BY <1>1, <1>2, <1>3, RowTypes, SummaryHead DEF ReqInv, TaskInv, Billed,
     LoopInv, RouteInv
<1>11. QED
  BY <1>4, <1>5, <1>6, <1>7, <1>8, <1>9, <1>10, StepInv DEF ReqInv

LEMMA BodyReadInv ==
  ASSUME Inv, NEW r \in Requests, BodyRead(r)
  PROVE  Inv'
<1>1. TypeOK /\ ReqInv(r)
  BY DEF Inv
<1>a. PICK u \in Usages: /\ usage' = [usage EXCEPT ![r] = u]
                         /\ task' = [task EXCEPT ![r] = "budget"]
  BY DEF BodyRead
<1>2. pc[r] = "reading"
  BY <1>1, <1>a DEF BodyRead, GoTo, configVars, callVars, openVars,
     counterVars, ledgerVars
<1>3. /\ keys' = keys
      /\ pc'[r] = "accounting" /\ call'[r] = call[r]
      /\ identity'[r] = identity[r] /\ backend'[r] = backend[r]
      /\ attempt'[r] = attempt[r] /\ opened'[r] = opened[r]
      /\ faults'[r] = faults[r] /\ status'[r] = status[r] /\ usage'[r] = u
      /\ summary'[r] = summary[r] /\ task'[r] = "budget"
  BY <1>1, <1>a DEF BodyRead, GoTo, configVars, callVars, openVars,
     counterVars, ledgerVars, TypeOK
<1>4. \A q \in Requests \ {r}: Same(q)
  BY <1>1, <1>a DEF BodyRead, GoTo, configVars, callVars, openVars,
     counterVars, ledgerVars, TypeOK, Same
<1>5. TypeOK'
  <2>1. pc' \in [Requests -> PcStates]
    BY <1>1, <1>a DEF BodyRead, GoTo, configVars, callVars, openVars,
       counterVars, ledgerVars, TypeOK, PcStates
  <2>2. usage' \in [Requests -> Usages \cup {NoUsage}]
    BY <1>1, <1>a DEF BodyRead, GoTo, configVars, callVars, openVars,
       counterVars, ledgerVars, TypeOK
  <2>3. task' \in [Requests -> TaskStates]
    BY <1>1, <1>a DEF BodyRead, GoTo, configVars, callVars, openVars,
       counterVars, ledgerVars, TypeOK, TaskStates
  <2> QED
    BY <1>1, <2>1, <2>2, <2>3 DEF BodyRead, GoTo, configVars, callVars,
       openVars, counterVars, ledgerVars, TypeOK
<1>6. IdentityInv(r)'
  BY <1>1, <1>2, <1>3 DEF ReqInv, IdentityInv, authenticate
<1>7. RouteInv(r)'
  BY <1>1, <1>2, <1>3, RowTypes DEF ReqInv, RouteInv
<1>8. LoopInv(r)'
  BY <1>1, <1>2, <1>3, RowTypes DEF ReqInv, LoopInv
<1>9. Discipline(r)'
  BY <1>1, <1>3 DEF ReqInv, Discipline
<1>10. TaskInv(r)'
  BY <1>1, <1>2, <1>3, RowTypes DEF ReqInv, TaskInv, Billed, LoopInv,
     RouteInv
<1>11. QED
  BY <1>4, <1>5, <1>6, <1>7, <1>8, <1>9, <1>10, StepInv DEF ReqInv

LEMMA BodyWithoutUsageInv ==
  ASSUME Inv, NEW r \in Requests, BodyWithoutUsage(r)
  PROVE  Inv'
<1>1. TypeOK /\ ReqInv(r)
  BY DEF Inv
<1>2. pc[r] = "reading"
  BY <1>1 DEF BodyWithoutUsage, Respond, configVars, callVars, openVars,
     counterVars, ledgerVars
<1>3. /\ keys' = keys
      /\ pc'[r] = "done" /\ call'[r] = call[r]
      /\ identity'[r] = identity[r] /\ backend'[r] = backend[r]
      /\ attempt'[r] = attempt[r] /\ opened'[r] = opened[r]
      /\ faults'[r] = faults[r] /\ status'[r] = 200
      /\ usage'[r] = usage[r] /\ summary'[r] = summary[r]
      /\ task'[r] = "done"
  BY <1>1 DEF BodyWithoutUsage, Respond, configVars, callVars, openVars,
     counterVars, ledgerVars, TypeOK
<1>4. \A q \in Requests \ {r}: Same(q)
  BY <1>1 DEF BodyWithoutUsage, Respond, configVars, callVars, openVars,
     counterVars, ledgerVars, TypeOK, Same
<1>5. TypeOK'
  <2>1. pc' \in [Requests -> PcStates]
    BY <1>1 DEF BodyWithoutUsage, Respond, configVars, callVars, openVars,
       counterVars, ledgerVars, TypeOK, PcStates
  <2>2. status' \in [Requests -> Nat]
    BY <1>1 DEF BodyWithoutUsage, Respond, configVars, callVars, openVars,
       counterVars, ledgerVars, TypeOK
  <2>3. task' \in [Requests -> TaskStates]
    BY <1>1 DEF BodyWithoutUsage, Respond, configVars, callVars, openVars,
       counterVars, ledgerVars, TypeOK, TaskStates
  <2> QED
    BY <1>1, <2>1, <2>2, <2>3 DEF BodyWithoutUsage, Respond, configVars,
       callVars, openVars, counterVars, ledgerVars, TypeOK
<1>6. IdentityInv(r)'
  BY <1>1, <1>2, <1>3 DEF ReqInv, IdentityInv, authenticate
<1>7. RouteInv(r)'
  BY <1>1, <1>2, <1>3, RowTypes DEF ReqInv, RouteInv
<1>8. LoopInv(r)'
  BY <1>1, <1>2, <1>3, RowTypes DEF ReqInv, LoopInv
<1>9. Discipline(r)'
  <2>1. Len(faults'[r]) # Len(opened'[r])
    BY <1>1, <1>2, <1>3, RowTypes DEF ReqInv, LoopInv
  <2> QED BY <1>1, <1>3, <2>1 DEF ReqInv, Discipline
<1>10. TaskInv(r)'
  BY <1>1, <1>2, <1>3, RowTypes DEF ReqInv, TaskInv, Billed, LoopInv,
     RouteInv
<1>11. QED
  BY <1>4, <1>5, <1>6, <1>7, <1>8, <1>9, <1>10, StepInv DEF ReqInv

LEMMA BodyFailedInv ==
  ASSUME Inv, NEW r \in Requests, BodyFailed(r)
  PROVE  Inv'
<1>1. TypeOK /\ ReqInv(r)
  BY DEF Inv
<1>a. backend[r] \in Positions
  BY <1>1, RowTypes DEF ReqInv, RouteInv, TaskInv, BodyFailed
<1>2. pc[r] = "reading"
  BY <1>1 DEF BodyFailed, Respond, CountError, configVars, callVars,
     openVars, counterVars, ledgerVars
<1>3. /\ keys' = keys
      /\ pc'[r] = "done" /\ call'[r] = call[r]
      /\ identity'[r] = identity[r] /\ backend'[r] = backend[r]
      /\ attempt'[r] = attempt[r] /\ opened'[r] = opened[r]
      /\ faults'[r] = faults[r] /\ status'[r] = 502
      /\ usage'[r] = usage[r] /\ summary'[r] = summary[r]
      /\ task'[r] = "done"
  BY <1>1 DEF BodyFailed, Respond, CountError, configVars, callVars,
     openVars, counterVars, ledgerVars, TypeOK
<1>4. \A q \in Requests \ {r}: Same(q)
  BY <1>1 DEF BodyFailed, Respond, CountError, configVars, callVars,
     openVars, counterVars, ledgerVars, TypeOK, Same
<1>5. TypeOK'
  <2>1. pc' \in [Requests -> PcStates]
    BY <1>1 DEF BodyFailed, Respond, CountError, configVars, callVars,
       openVars, counterVars, ledgerVars, TypeOK, PcStates
  <2>2. status' \in [Requests -> Nat]
    BY <1>1 DEF BodyFailed, Respond, CountError, configVars, callVars,
       openVars, counterVars, ledgerVars, TypeOK
  <2>3. task' \in [Requests -> TaskStates]
    BY <1>1 DEF BodyFailed, Respond, CountError, configVars, callVars,
       openVars, counterVars, ledgerVars, TypeOK, TaskStates
  <2>4. upstream_errors' \in [Positions -> Nat]
    BY SMTT(30), <1>1, <1>a DEF BodyFailed, Respond, CountError, configVars, callVars,
       openVars, counterVars, ledgerVars, TypeOK
  <2> QED
    BY <1>1, <2>1, <2>2, <2>3, <2>4 DEF BodyFailed, Respond, CountError,
       configVars, callVars, openVars, counterVars, ledgerVars, TypeOK
<1>6. IdentityInv(r)'
  BY <1>1, <1>2, <1>3 DEF ReqInv, IdentityInv, authenticate
<1>7. RouteInv(r)'
  BY <1>1, <1>2, <1>3, RowTypes DEF ReqInv, RouteInv
<1>8. LoopInv(r)'
  BY <1>1, <1>2, <1>3, RowTypes DEF ReqInv, LoopInv
<1>9. Discipline(r)'
  BY <1>1, <1>2, <1>3, RowTypes DEF ReqInv, LoopInv, RouteInv, Discipline
<1>10. TaskInv(r)'
  BY <1>1, <1>2, <1>3, RowTypes DEF ReqInv, TaskInv, Billed, LoopInv,
     RouteInv
<1>11. QED
  BY <1>4, <1>5, <1>6, <1>7, <1>8, <1>9, <1>10, StepInv DEF ReqInv

LEMMA RecordBudgetInv ==
  ASSUME Inv, NEW r \in Requests, RecordBudget(r)
  PROVE  Inv'
<1>1. TypeOK /\ ReqInv(r)
  BY DEF Inv
<1>a. Billed(r) \in Nat
  BY <1>1, GatewayAssumption DEF ReqInv, TaskInv, RecordBudget
<1>2. task[r] = "budget"
  BY <1>1 DEF RecordBudget, Charge, configVars, callVars, openVars,
     counterVars, ledgerVars
<1>3. /\ keys' = keys
      /\ pc'[r] = pc[r] /\ call'[r] = call[r]
      /\ identity'[r] = identity[r] /\ backend'[r] = backend[r]
      /\ attempt'[r] = attempt[r] /\ opened'[r] = opened[r]
      /\ faults'[r] = faults[r] /\ status'[r] = status[r]
      /\ usage'[r] = usage[r] /\ summary'[r] = summary[r]
      /\ task'[r] = "tokens"
  BY <1>1 DEF RecordBudget, Charge, configVars, callVars, openVars,
     counterVars, ledgerVars, TypeOK
<1>4. \A q \in Requests \ {r}: Same(q)
  BY <1>1 DEF RecordBudget, Charge, configVars, callVars, openVars,
     counterVars, ledgerVars, TypeOK, Same
<1>5. TypeOK'
  <2>1. task' \in [Requests -> TaskStates]
    BY <1>1 DEF RecordBudget, Charge, configVars, callVars, openVars,
       counterVars, ledgerVars, TypeOK, TaskStates
  <2>2. budget' \in [Names -> Nat]
    BY <1>1, <1>a DEF RecordBudget, Charge, configVars, callVars, openVars,
       counterVars, ledgerVars, TypeOK
  <2> QED
    BY <1>1, <2>1, <2>2 DEF RecordBudget, Charge, configVars, callVars,
       openVars, counterVars, ledgerVars, TypeOK
<1>6. IdentityInv(r)'
  BY <1>1, <1>2, <1>3 DEF ReqInv, IdentityInv, authenticate
<1>7. RouteInv(r)'
  BY <1>1, <1>2, <1>3, RowTypes DEF ReqInv, RouteInv
<1>8. LoopInv(r)'
  BY <1>1, <1>2, <1>3, RowTypes DEF ReqInv, LoopInv
<1>9. Discipline(r)'
  BY <1>1, <1>3 DEF ReqInv, Discipline
<1>10. TaskInv(r)'
  BY <1>1, <1>2, <1>3, RowTypes DEF ReqInv, TaskInv, Billed, LoopInv,
     RouteInv
<1>11. QED
  BY <1>4, <1>5, <1>6, <1>7, <1>8, <1>9, <1>10, StepInv DEF ReqInv

LEMMA RecordTokensInv ==
  ASSUME Inv, NEW r \in Requests, RecordTokens(r)
  PROVE  Inv'
<1>1. TypeOK /\ ReqInv(r)
  BY DEF Inv
<1>a. Billed(r) \in Nat
  BY <1>1, GatewayAssumption DEF ReqInv, TaskInv, RecordTokens
<1>2. task[r] = "tokens"
  BY <1>1 DEF RecordTokens, Charge, configVars, callVars, openVars,
     counterVars, ledgerVars
<1>3. /\ keys' = keys
      /\ pc'[r] = pc[r] /\ call'[r] = call[r]
      /\ identity'[r] = identity[r] /\ backend'[r] = backend[r]
      /\ attempt'[r] = attempt[r] /\ opened'[r] = opened[r]
      /\ faults'[r] = faults[r] /\ status'[r] = status[r]
      /\ usage'[r] = usage[r] /\ summary'[r] = summary[r]
      /\ task'[r] = "tpm"
  BY <1>1 DEF RecordTokens, Charge, configVars, callVars, openVars,
     counterVars, ledgerVars, TypeOK
<1>4. \A q \in Requests \ {r}: Same(q)
  BY <1>1 DEF RecordTokens, Charge, configVars, callVars, openVars,
     counterVars, ledgerVars, TypeOK, Same
<1>5. TypeOK'
  <2>1. task' \in [Requests -> TaskStates]
    BY <1>1 DEF RecordTokens, Charge, configVars, callVars, openVars,
       counterVars, ledgerVars, TypeOK, TaskStates
  <2>2. tokens' \in [Names -> Nat]
    BY <1>1, <1>a DEF RecordTokens, Charge, configVars, callVars, openVars,
       counterVars, ledgerVars, TypeOK
  <2> QED
    BY <1>1, <2>1, <2>2 DEF RecordTokens, Charge, configVars, callVars,
       openVars, counterVars, ledgerVars, TypeOK
<1>6. IdentityInv(r)'
  BY <1>1, <1>2, <1>3 DEF ReqInv, IdentityInv, authenticate
<1>7. RouteInv(r)'
  BY <1>1, <1>2, <1>3, RowTypes DEF ReqInv, RouteInv
<1>8. LoopInv(r)'
  BY <1>1, <1>2, <1>3, RowTypes DEF ReqInv, LoopInv
<1>9. Discipline(r)'
  BY <1>1, <1>3 DEF ReqInv, Discipline
<1>10. TaskInv(r)'
  BY <1>1, <1>2, <1>3, RowTypes DEF ReqInv, TaskInv, Billed, LoopInv,
     RouteInv
<1>11. QED
  BY <1>4, <1>5, <1>6, <1>7, <1>8, <1>9, <1>10, StepInv DEF ReqInv

LEMMA RecordTpmInv ==
  ASSUME Inv, NEW r \in Requests, RecordTpm(r)
  PROVE  Inv'
<1>1. TypeOK /\ ReqInv(r)
  BY DEF Inv
<1>a. Billed(r) \in Nat
  BY <1>1, GatewayAssumption DEF ReqInv, TaskInv, RecordTpm
<1>2. task[r] = "tpm"
  BY <1>1 DEF RecordTpm, Charge, Respond, configVars, callVars, openVars,
     counterVars, ledgerVars
<1>3. /\ keys' = keys
      /\ pc'[r] = IF pc[r] = "accounting" THEN "done" ELSE pc[r]
      /\ call'[r] = call[r] /\ identity'[r] = identity[r]
      /\ backend'[r] = backend[r] /\ attempt'[r] = attempt[r]
      /\ opened'[r] = opened[r] /\ faults'[r] = faults[r]
      /\ status'[r] = IF pc[r] = "accounting" THEN 200 ELSE status[r]
      /\ usage'[r] = usage[r] /\ summary'[r] = summary[r]
      /\ task'[r] = IF pc[r] = "accounting" THEN "done" ELSE "outcome"
  BY <1>1 DEF RecordTpm, Charge, Respond, configVars, callVars, openVars,
     counterVars, ledgerVars, TypeOK
<1>4. \A q \in Requests \ {r}: Same(q)
  <2>1. CASE pc[r] = "accounting"
    BY <1>1, <2>1 DEF RecordTpm, Respond, configVars, callVars, openVars,
       TypeOK, Same
  <2>2. CASE pc[r] # "accounting"
    BY <1>1, <2>2 DEF RecordTpm, configVars, callVars, openVars, TypeOK, Same
  <2> QED BY <2>1, <2>2
<1>5. TypeOK'
  <2>1. pc' \in [Requests -> PcStates]
    <3>1. pc \in [Requests -> PcStates]
      BY <1>1 DEF TypeOK
    <3>2. Respond(r, 200) \/ pc' = pc
      BY DEF RecordTpm
    <3> QED BY <3>1, <3>2 DEF Respond, PcStates
  <2>2. status' \in [Requests -> Nat]
    <3>1. status \in [Requests -> Nat]
      BY <1>1 DEF TypeOK
    <3>2. Respond(r, 200) \/ status' = status
      BY DEF RecordTpm
    <3> QED BY <3>1, <3>2 DEF Respond
  <2>3. task' \in [Requests -> TaskStates]
    BY <1>1 DEF RecordTpm, Charge, Respond, configVars, callVars, openVars,
       counterVars, ledgerVars, TypeOK, TaskStates
  <2>4. tpm' \in [Names -> Nat]
    BY <1>1, <1>a DEF RecordTpm, Charge, Respond, configVars, callVars,
       openVars, counterVars, ledgerVars, TypeOK
  <2> QED
    BY <1>1, <2>1, <2>2, <2>3, <2>4 DEF RecordTpm, Charge, Respond,
       configVars, callVars, openVars, counterVars, ledgerVars, TypeOK
<1>6. IdentityInv(r)'
  BY <1>1, <1>2, <1>3 DEF ReqInv, IdentityInv, authenticate
<1>7. RouteInv(r)'
  BY <1>1, <1>2, <1>3, RowTypes DEF ReqInv, RouteInv
<1>8. LoopInv(r)'
  BY <1>1, <1>2, <1>3, RowTypes DEF ReqInv, LoopInv
<1>9. Discipline(r)'
  <2>1. CASE pc[r] = "accounting"
    <3>1. Len(faults'[r]) # Len(opened'[r])
      BY <1>1, <1>3, <2>1, RowTypes DEF ReqInv, LoopInv
    <3> QED BY <1>1, <1>3, <3>1 DEF ReqInv, Discipline
  <2>2. CASE pc[r] # "accounting"
    BY <1>1, <1>3, <2>2 DEF ReqInv, Discipline
  <2> QED BY <2>1, <2>2
<1>10. TaskInv(r)'
  BY <1>1, <1>2, <1>3, RowTypes DEF ReqInv, TaskInv, Billed, LoopInv,
     RouteInv
<1>11. QED
  BY <1>4, <1>5, <1>6, <1>7, <1>8, <1>9, <1>10, StepInv DEF ReqInv

LEMMA RecordOutcomeInv ==
  ASSUME Inv, NEW r \in Requests, RecordOutcome(r)
  PROVE  Inv'
<1>1. TypeOK /\ ReqInv(r)
  BY DEF Inv
<1>a. backend[r] \in Positions
  BY <1>1, RowTypes DEF ReqInv, RouteInv, TaskInv, RecordOutcome
<1>2. task[r] = "outcome"
  BY <1>1 DEF RecordOutcome, CountError, configVars, callVars, openVars,
     counterVars, ledgerVars
<1>3. /\ keys' = keys
      /\ pc'[r] = pc[r] /\ call'[r] = call[r]
      /\ identity'[r] = identity[r] /\ backend'[r] = backend[r]
      /\ attempt'[r] = attempt[r] /\ opened'[r] = opened[r]
      /\ faults'[r] = faults[r] /\ status'[r] = status[r]
      /\ usage'[r] = usage[r] /\ summary'[r] = summary[r]
      /\ task'[r] = "done"
  BY <1>1 DEF RecordOutcome, CountError, configVars, callVars, openVars,
     counterVars, ledgerVars, TypeOK
<1>4. \A q \in Requests \ {r}: Same(q)
  BY <1>1 DEF RecordOutcome, CountError, configVars, callVars, openVars,
     counterVars, ledgerVars, TypeOK, Same
<1>5. TypeOK'
  <2>1. task' \in [Requests -> TaskStates]
    BY <1>1 DEF RecordOutcome, CountError, configVars, callVars, openVars,
       counterVars, ledgerVars, TypeOK, TaskStates
  <2>2. upstream_errors' \in [Positions -> Nat]
    <3>1. upstream_errors \in [Positions -> Nat]
      BY <1>1 DEF TypeOK
    <3>2. \/ CountError(backend[r])
          \/ upstream_errors' = upstream_errors
      BY DEF RecordOutcome
    <3> QED BY <3>1, <3>2, <1>a DEF CountError
  <2> QED
    BY <1>1, <2>1, <2>2 DEF RecordOutcome, CountError, configVars, callVars,
       openVars, counterVars, ledgerVars, TypeOK
<1>6. IdentityInv(r)'
  BY <1>1, <1>2, <1>3 DEF ReqInv, IdentityInv, authenticate
<1>7. RouteInv(r)'
  BY <1>1, <1>2, <1>3, RowTypes DEF ReqInv, RouteInv
<1>8. LoopInv(r)'
  BY <1>1, <1>2, <1>3, RowTypes DEF ReqInv, LoopInv
<1>9. Discipline(r)'
  BY <1>1, <1>3 DEF ReqInv, Discipline
<1>10. TaskInv(r)'
  BY <1>1, <1>2, <1>3, RowTypes DEF ReqInv, TaskInv, Billed, LoopInv,
     RouteInv
<1>11. QED
  BY <1>4, <1>5, <1>6, <1>7, <1>8, <1>9, <1>10, StepInv DEF ReqInv

LEMMA ClientGoneInv ==
  ASSUME Inv, NEW r \in Requests, ClientGone(r)
  PROVE  Inv'
<1>1. TypeOK /\ ReqInv(r)
  BY DEF Inv
<1>2. pc[r] \in {"body", "opening", "backoff", "reading"}
  BY <1>1 DEF ClientGone, GoTo, configVars, callVars, openVars, counterVars,
     ledgerVars
<1>3. /\ keys' = keys
      /\ pc'[r] = "gone" /\ call'[r] = call[r]
      /\ identity'[r] = identity[r] /\ backend'[r] = backend[r]
      /\ attempt'[r] = attempt[r] /\ opened'[r] = opened[r]
      /\ faults'[r] = faults[r] /\ status'[r] = status[r]
      /\ usage'[r] = usage[r] /\ summary'[r] = summary[r]
      /\ task'[r] = IF task[r] = "none" THEN "none" ELSE "cancelled"
  BY <1>1 DEF ClientGone, GoTo, configVars, callVars, openVars, counterVars,
     ledgerVars, TypeOK
<1>4. \A q \in Requests \ {r}: Same(q)
  BY <1>1 DEF ClientGone, GoTo, configVars, callVars, openVars, counterVars,
     ledgerVars, TypeOK, Same
<1>5. TypeOK'
  <2>1. pc' \in [Requests -> PcStates]
    BY <1>1 DEF ClientGone, GoTo, configVars, callVars, openVars,
       counterVars, ledgerVars, TypeOK, PcStates
  <2>2. task' \in [Requests -> TaskStates]
    BY <1>1 DEF ClientGone, GoTo, configVars, callVars, openVars,
       counterVars, ledgerVars, TypeOK, TaskStates
  <2> QED
    BY <1>1, <2>1, <2>2 DEF ClientGone, GoTo, configVars, callVars,
       openVars, counterVars, ledgerVars, TypeOK
<1>6. IdentityInv(r)'
  BY <1>1, <1>2, <1>3 DEF ReqInv, IdentityInv, authenticate
<1>7. RouteInv(r)'
  BY <1>1, <1>2, <1>3, RowTypes DEF ReqInv, RouteInv
<1>8. LoopInv(r)'
  BY <1>1, <1>2, <1>3, RowTypes DEF ReqInv, LoopInv
<1>9. Discipline(r)'
  BY <1>1, <1>3 DEF ReqInv, Discipline
<1>10. TaskInv(r)'
  BY <1>1, <1>2, <1>3, RowTypes DEF ReqInv, TaskInv, Billed, LoopInv,
     RouteInv
<1>11. QED
  BY <1>4, <1>5, <1>6, <1>7, <1>8, <1>9, <1>10, StepInv DEF ReqInv

(* Time alone changes nothing the invariant speaks of.                      *)
LEMMA RefillInv ==
  ASSUME Inv, NEW k \in Names, Refill(k)
  PROVE  Inv'
<1>1. TypeOK
  BY DEF Inv
<1>2. TypeOK'
  <2>1. bucket' \in [Names -> Nat]
    BY <1>1 DEF Refill, TypeOK
  <2> QED BY <1>1, <2>1 DEF Refill, TypeOK, configVars, callVars, openVars,
             counterVars, ledgerVars
<1>3. \A q \in Requests: Same(q)
  BY DEF Refill, Same, configVars, callVars, openVars
<1>4. QED
  BY <1>2, <1>3, Frame DEF Inv

LEMMA NextInv == Inv /\ [Next]_vars => Inv'
<1> SUFFICES ASSUME Inv, [Next]_vars PROVE Inv'
  OBVIOUS
<1>1. CASE UNCHANGED vars
  <2>1. TypeOK'
    BY <1>1 DEF Inv, TypeOK, vars, configVars, callVars, openVars,
       counterVars, ledgerVars
  <2>2. \A q \in Requests: Same(q)
    BY <1>1 DEF Same, vars, configVars, callVars, openVars
  <2> QED BY <2>1, <2>2, Frame DEF Inv
<1>2. ASSUME NEW k \in Names, Refill(k) PROVE Inv'
  BY <1>2, RefillInv
<1>3. ASSUME NEW r \in Requests, NEW c \in Calls,
             Receive(r, c) \/ Unauthorized(r, c)
      PROVE  Inv'
  BY <1>3, ReceiveInv, UnauthorizedInv
<1>4. ASSUME NEW r \in Requests, Admit(r) PROVE Inv'
  BY <1>4, RateLimitedInv, MissingModelInv, NoEligibleBackendInv, ForwardInv
     DEF Admit
<1>5. ASSUME NEW r \in Requests, OpenFailed(r) PROVE Inv'
  BY <1>5, OpenRejectedInv, OpenRetriedInv, OpenExhaustedInv DEF OpenFailed
<1>6. ASSUME NEW r \in Requests,
             GiveUp(r) \/ BackoffElapsed(r) \/ OpenSucceeded(r)
      PROVE  Inv'
  BY <1>6, GiveUpInv, BackoffElapsedInv, OpenSucceededInv
<1>7. ASSUME NEW r \in Requests, RelayScan(r) \/ RelayEnd(r) PROVE Inv'
  BY <1>7, RelayScanInv, RelayEndInv
<1>8. ASSUME NEW r \in Requests,
             BodyRead(r) \/ BodyWithoutUsage(r) \/ BodyFailed(r)
      PROVE  Inv'
  BY <1>8, BodyReadInv, BodyWithoutUsageInv, BodyFailedInv
<1>9. ASSUME NEW r \in Requests, Account(r) PROVE Inv'
  BY <1>9, TaskWokenInv, RecordBudgetInv, RecordTokensInv, RecordTpmInv,
     RecordOutcomeInv DEF Account
<1>10. ASSUME NEW r \in Requests, ClientGone(r) PROVE Inv'
  BY <1>10, ClientGoneInv
<1>11. QED
  BY <1>1, <1>2, <1>3, <1>4, <1>5, <1>6, <1>7, <1>8, <1>9, <1>10 DEF Next

(* The inductive invariant holds of every reachable state of the gateway.   *)
THEOREM Invariance == Spec => []Inv
  BY InitInv, NextInv, PTL DEF Spec

-----------------------------------------------------------------------------
(* Every variable of the request path keeps its type.                       *)
THEOREM TypeCorrect == Spec => []TypeOK
  BY Invariance, PTL DEF Inv

(* Whatever the routing policy answers, a request made with a key that      *)
(* enforces privacy only ever reaches Local backends.                       *)
THEOREM Privacy == Spec => []PrivateStaysLocal
<1>1. Inv => PrivateStaysLocal
  <2> SUFFICES ASSUME Inv, NEW r \in Requests, NEW i \in 1..Len(opened[r])
               PROVE  /\ EnforcesPrivacy(r) =>
                            BackendTable[opened[r][i]].privacy = "Local"
                      /\ call[r].model \in BackendTable[opened[r][i]].models
    BY DEF PrivateStaysLocal
  <2>1. opened[r][i] = backend[r] /\ backend[r] # NoBackend
    <3>1. RouteInv(r)
      BY DEF Inv, ReqInv
    <3>2. opened[r] # <<>>
      OBVIOUS
    <3> QED BY <3>1, <3>2 DEF RouteInv
  <2>2. /\ identity[r] \in authenticate(call[r].token)
        /\ backend[r] \in gather(classify(identity[r].enforce_private),
                                 [model |-> call[r].model, required_tags |-> {}])
    BY <2>1 DEF Inv, ReqInv, IdentityInv, RouteInv
  <2>3. EnforcesPrivacy(r) => identity[r].enforce_private
    BY <2>2 DEF EnforcesPrivacy, authenticate
  <2> QED BY <2>1, <2>2, <2>3 DEF gather, admits, classify
<1>2. QED
  BY <1>1, Invariance, PTL

(* The retry loop keeps to its bound, to one backend and to failures worth  *)
(* retrying, and tells the client of the failure that ended it.             *)
THEOREM Retries == Spec => []RetryDiscipline
<1>1. Inv => RetryDiscipline
  BY DEF Inv, ReqInv, RouteInv, Discipline, RetryDiscipline
<1>2. QED
  BY <1>1, Invariance, PTL

(* No backend is contacted once a response has started.                     *)
THEOREM PreFirstByte == Spec => RetriesPreFirstByte
<1>1. Inv /\ [Next]_vars =>
        [\A r \in Requests: opened'[r] # opened[r] =>
             status[r] = 0 /\ task[r] = "none"]_vars
  <2> SUFFICES ASSUME Inv, Next, NEW r \in Requests, opened'[r] # opened[r]
               PROVE  status[r] = 0 /\ task[r] = "none"
    OBVIOUS
  <2>1. opened \in [Requests -> Seq(Positions)]
    BY DEF Inv, TypeOK
  <2>2. opened' # opened
    OBVIOUS
  <2>3. PICK q \in Requests: Forward(q) \/ BackoffElapsed(q)
    <3>1. ASSUME NEW k \in Names, Refill(k) PROVE opened' = opened
      BY <3>1 DEF Refill, openVars
    <3>2. ASSUME NEW q \in Requests, NEW c \in Calls,
                 Receive(q, c) \/ Unauthorized(q, c)
          PROVE  opened' = opened
      BY <3>2 DEF Receive, Unauthorized, openVars
    <3>3. ASSUME NEW q \in Requests,
                 RateLimited(q) \/ MissingModel(q) \/ NoEligibleBackend(q)
          PROVE  opened' = opened
      BY <3>3 DEF RateLimited, MissingModel, NoEligibleBackend, openVars
    <3>4. ASSUME NEW q \in Requests, OpenFailed(q) \/ GiveUp(q) \/ OpenSucceeded(q)
          PROVE  opened' = opened
      BY <3>4 DEF OpenFailed, OpenRejected, OpenRetried, OpenExhausted, GiveUp,
         OpenSucceeded, openVars
    <3>5. ASSUME NEW q \in Requests,
                 \/ RelayScan(q) \/ RelayEnd(q) \/ BodyRead(q)
                 \/ BodyWithoutUsage(q) \/ BodyFailed(q) \/ ClientGone(q)
          PROVE  opened' = opened
      BY <3>5 DEF RelayScan, RelayEnd, BodyRead, BodyWithoutUsage, BodyFailed,
         ClientGone, openVars
    <3>6. ASSUME NEW q \in Requests, Account(q) PROVE opened' = opened
      BY <3>6 DEF Account, TaskWoken, RecordBudget, RecordTokens, RecordTpm,
         RecordOutcome, openVars
    <3> QED BY <2>2, <3>1, <3>2, <3>3, <3>4, <3>5, <3>6 DEF Next, Admit
  <2>4. q = r
    BY <2>1, <2>3 DEF Forward, BackoffElapsed
  <2>5. pc[r] \in {"body", "backoff"}
    BY <2>3, <2>4 DEF Forward, BackoffElapsed
  <2> QED BY <2>5 DEF Inv, ReqInv, LoopInv
<1>2. QED
  BY <1>1, Invariance, PTL DEF Spec, RetriesPreFirstByte




-----------------------------------------------------------------------------
(* The accounting: what the ledgers and the counters hold follows from      *)
(* where each request is.                                                   *)

AfterBudget == {"tokens", "tpm", "outcome", "done"}
AfterTokens == {"tpm", "outcome", "done"}

(* Usage is found after the response has started, and a summary has come    *)
(* before a stream is accounted for.                                        *)
UsageInv(r) ==
  /\ pc[r] \in {"idle", "body", "opening", "backoff", "exhausted", "reading"} =>
       usage[r] = NoUsage
  /\ task[r] = "outcome" => summary[r] # <<>>
  /\ task[r] \in {"budget", "tokens", "tpm"} =>
       pc[r] = "accounting" \/ summary[r] # <<>>

(* Every ledger holds what is due; the window has yet to hear of those that *)
(* are about to tell it.                                                    *)
BooksInv ==
  \A k \in Names:
    /\ budget[k] = Total(AfterBudget, k)
    /\ tokens[k] = Total(AfterTokens, k)
    /\ tpm[k] + Total({"tpm"}, k) <= tokens[k]

AccountInv == Inv /\ \A r \in Requests: UsageInv(r)

(* What a step of request r does to the ledgers is what it does to what r   *)
(* owes them ...                                                            *)
LedgerStep(r) ==
  \A k \in Names:
    /\ budget'[k] + Due(AfterBudget, k, r) = budget[k] + Due(AfterBudget, k, r)'
    /\ tokens'[k] + Due(AfterTokens, k, r) = tokens[k] + Due(AfterTokens, k, r)'
    /\ tpm'[k] + Due({"tpm"}, k, r)' + tokens[k]
         <= tpm[k] + Due({"tpm"}, k, r) + tokens'[k]

(* ... and what it does to the counters is what it does to r's part in them. *)
MetricsStep(r) ==
  \A b \in Positions:
    /\ \/ /\ requests_total'["2xx"][b] = requests_total["2xx"][b]
          /\ Started(b, r)' <=> Started(b, r)
       \/ /\ requests_total'["2xx"][b] = requests_total["2xx"][b] + 1
          /\ Started(b, r)' /\ ~Started(b, r)
    /\ \/ /\ requests_total'["5xx"][b] = requests_total["5xx"][b]
          /\ RanOut(b, r)' <=> RanOut(b, r)
       \/ /\ requests_total'["5xx"][b] = requests_total["5xx"][b] + 1
          /\ RanOut(b, r)' /\ ~RanOut(b, r)
    /\ upstream_errors'[b] + ErrorsAt(b, r) = upstream_errors[b] + ErrorsAt(b, r)'

RowStep(r) == /\ \A q \in Requests \ {r}: Same(q)
              /\ UsageInv(r)' /\ LedgerStep(r) /\ MetricsStep(r)

(* What is due is a number.                                                 *)
DueTyped ==
  \A stages, k: \A r \in Requests: Due(stages, k, r) \in Nat

LEMMA DueType == TypeOK => DueTyped
<1> SUFFICES ASSUME TypeOK, NEW stages, NEW k, NEW r \in Requests
             PROVE  Due(stages, k, r) \in Nat
  BY DEF DueTyped
<1>1. Billed(r) \in Usages \cup {NoUsage}
  BY RowTypes, SummaryHead DEF Billed
<1> QED
  BY <1>1, GatewayAssumption DEF Due

LEMMA DueTypeNext == TypeOK' => DueTyped'
  BY DueType, PTL

(* The stages before the first ledger and after a dropped handler.          *)
Free == {"none", "waiting", "cancelled", "budget"}

(* Steps that owe nothing new and pay nothing.                              *)
LEMMA QuietLedger ==
  ASSUME TypeOK, NEW r \in Requests, UNCHANGED ledgerVars,
         \/ task[r] \in Free /\ (task'[r] \in Free \/ Billed(r)' = NoUsage)
         \/ /\ task[r] \in {"outcome", "done"} /\ task'[r] \in {"outcome", "done"}
            /\ Billed(r)' = Billed(r) /\ identity'[r] = identity[r]
  PROVE  LedgerStep(r)
<1> SUFFICES ASSUME NEW k \in Names
             PROVE  /\ budget'[k] + Due(AfterBudget, k, r)
                         = budget[k] + Due(AfterBudget, k, r)'
                    /\ tokens'[k] + Due(AfterTokens, k, r)
                         = tokens[k] + Due(AfterTokens, k, r)'
                    /\ tpm'[k] + Due({"tpm"}, k, r)' + tokens[k]
                         <= tpm[k] + Due({"tpm"}, k, r) + tokens'[k]
  BY DEF LedgerStep
<1>1. budget' = budget /\ tokens' = tokens /\ tpm' = tpm
  BY DEF ledgerVars
<1>2. /\ Due(AfterBudget, k, r)' = Due(AfterBudget, k, r)
      /\ Due(AfterTokens, k, r)' = Due(AfterTokens, k, r)
      /\ Due({"tpm"}, k, r)' = Due({"tpm"}, k, r)
  BY DEF Due, Free, AfterBudget, AfterTokens
<1>3. tpm[k] \in Nat /\ tokens[k] \in Nat /\ Due({"tpm"}, k, r) \in Nat
  BY DueType DEF DueTyped, TypeOK
<1> QED
  BY <1>1, <1>2, <1>3

LEMMA QuietMetrics ==
  ASSUME NEW r \in Requests, UNCHANGED <<requests_total, upstream_errors>>,
         backend'[r] = backend[r], faults'[r] = faults[r],
         task[r] = "none" <=> task'[r] = "none",
         task[r] = "none" /\ backend[r] \in Positions =>
           (status'[r] = 502 <=> status[r] = 502),
         Broke(r)' <=> Broke(r)
  PROVE  MetricsStep(r)
<1> SUFFICES ASSUME NEW b \in Positions
             PROVE  /\ Started(b, r)' <=> Started(b, r)
                    /\ RanOut(b, r)' <=> RanOut(b, r)
                    /\ ErrorsAt(b, r)' = ErrorsAt(b, r)
  BY DEF MetricsStep
<1>1. Started(b, r)' <=> Started(b, r)
  BY DEF Started
<1>2. RanOut(b, r)' <=> RanOut(b, r)
  BY DEF RanOut
<1>3. ErrorsAt(b, r)' = ErrorsAt(b, r)
  BY DEF ErrorsAt
<1> QED BY <1>1, <1>2, <1>3

(* A failed attempt or a broken response: one more error at r's backend.    *)
LEMMA OneMoreError ==
  ASSUME TypeOK, NEW r \in Requests, CountError(backend[r]),
         backend'[r] = backend[r],
         \/ Len(faults'[r]) = Len(faults[r]) + 1 /\ (Broke(r)' <=> Broke(r))
         \/ faults'[r] = faults[r] /\ Broke(r)' /\ ~Broke(r)
  PROVE  \A b \in Positions:
           upstream_errors'[b] + ErrorsAt(b, r) = upstream_errors[b] + ErrorsAt(b, r)'
<1> SUFFICES ASSUME NEW b \in Positions
             PROVE  upstream_errors'[b] + ErrorsAt(b, r)
                      = upstream_errors[b] + ErrorsAt(b, r)'
  OBVIOUS
<1>1. Len(faults[r]) \in Nat /\ upstream_errors \in [Positions -> Nat]
  BY RowTypes DEF TypeOK
<1>2. CASE backend[r] = b
  <2>1. upstream_errors'[b] = upstream_errors[b] + 1
    BY <1>1, <1>2 DEF CountError
  <2>2. ErrorsAt(b, r)' = ErrorsAt(b, r) + 1 /\ ErrorsAt(b, r) \in Nat
    <3>1. PICK x, y: /\ x = IF Broke(r) THEN 1 ELSE 0
                     /\ y = IF Broke(r)' THEN 1 ELSE 0
      OBVIOUS
    <3>2. ErrorsAt(b, r) = Len(faults[r]) + x /\ ErrorsAt(b, r)' = Len(faults'[r]) + y
      BY <1>2, <3>1 DEF ErrorsAt
    <3>3. CASE Len(faults'[r]) = Len(faults[r]) + 1 /\ (Broke(r)' <=> Broke(r))
      <4>1. x = y /\ x \in Nat
        BY <3>1, <3>3
      <4> QED BY <1>1, <3>2, <3>3, <4>1
    <3>4. CASE faults'[r] = faults[r] /\ Broke(r)' /\ ~Broke(r)
      <4>1. x = 0 /\ y = 1
        BY <3>1, <3>4
      <4> QED BY <1>1, <3>2, <3>4, <4>1
    <3> QED BY <3>3, <3>4
  <2> QED BY <1>1, <2>1, <2>2
<1>3. CASE backend[r] # b
  <2>1. upstream_errors'[b] = upstream_errors[b]
    BY <1>1, <1>3 DEF CountError
  <2>2. ErrorsAt(b, r)' = ErrorsAt(b, r)
    BY <1>3 DEF ErrorsAt
  <2> QED BY <2>1, <2>2
<1> QED BY <1>2, <1>3

-----------------------------------------------------------------------------
LEMMA ReceiveRow ==
  ASSUME AccountInv, NEW r \in Requests, NEW c \in Calls, Receive(r, c)
  PROVE  RowStep(r)
<1>1. Inv /\ TypeOK /\ ReqInv(r) /\ UsageInv(r)
  BY DEF AccountInv, Inv
<1>2. pc[r] = "idle" /\ task[r] = "none" /\ status[r] = 0 /\ backend[r] = NoBackend
  BY <1>1 DEF Receive, ReqInv, LoopInv, RouteInv, TaskInv
<1>3. /\ pc'[r] = "body" /\ backend'[r] = backend[r]
      /\ faults'[r] = faults[r] /\ status'[r] = status[r]
      /\ usage'[r] = usage[r] /\ summary'[r] = summary[r]
      /\ task'[r] = task[r]
  BY <1>1 DEF Receive, GoTo, Respond, configVars, callVars, openVars,
     counterVars, ledgerVars, CountError, TypeOK
<1>4. \A q \in Requests \ {r}: Same(q)
  BY <1>1 DEF Receive, GoTo, Respond, configVars, callVars, openVars,
     counterVars, ledgerVars, TypeOK, Same
<1>5. UsageInv(r)'
  BY <1>1, <1>2, <1>3 DEF UsageInv, ReqInv, TaskInv
<1>6. LedgerStep(r)
  <2>1. UNCHANGED ledgerVars
    BY DEF Receive, ledgerVars
  <2> QED BY <1>1, <1>2, <1>3, <2>1, QuietLedger DEF Free, Billed, UsageInv
<1>7. MetricsStep(r)
  <2>1. UNCHANGED <<requests_total, upstream_errors>>
    BY DEF Receive, counterVars
  <2>2. Broke(r)' <=> Broke(r)
    BY <1>2, <1>3 DEF Broke
  <2> QED BY <1>2, <1>3, <2>1, <2>2, RouterAssumption, QuietMetrics
<1> QED BY <1>4, <1>5, <1>6, <1>7 DEF RowStep

LEMMA UnauthorizedRow ==
  ASSUME AccountInv, NEW r \in Requests, NEW c \in Calls, Unauthorized(r, c)
  PROVE  RowStep(r)
<1>1. Inv /\ TypeOK /\ ReqInv(r) /\ UsageInv(r)
  BY DEF AccountInv, Inv
<1>2. pc[r] = "idle" /\ task[r] = "none" /\ status[r] = 0 /\ backend[r] = NoBackend
  BY <1>1 DEF Unauthorized, ReqInv, LoopInv, RouteInv, TaskInv
<1>3. /\ pc'[r] = "done" /\ identity'[r] = identity[r]
      /\ backend'[r] = backend[r] /\ faults'[r] = faults[r]
      /\ status'[r] = 401 /\ usage'[r] = usage[r]
      /\ summary'[r] = summary[r] /\ task'[r] = task[r]
  BY <1>1 DEF Unauthorized, GoTo, Respond, configVars, callVars, openVars,
     counterVars, ledgerVars, CountError, TypeOK
<1>4. \A q \in Requests \ {r}: Same(q)
  BY <1>1 DEF Unauthorized, GoTo, Respond, configVars, callVars, openVars,
     counterVars, ledgerVars, TypeOK, Same
<1>5. UsageInv(r)'
  BY <1>1, <1>2, <1>3 DEF UsageInv, ReqInv, TaskInv
<1>6. LedgerStep(r)
  <2>1. UNCHANGED ledgerVars
    BY DEF Unauthorized, ledgerVars
  <2> QED BY <1>1, <1>2, <1>3, <2>1, QuietLedger DEF Free, Billed, UsageInv
<1>7. MetricsStep(r)
  <2>1. UNCHANGED <<requests_total, upstream_errors>>
    BY DEF Unauthorized, counterVars
  <2>2. Broke(r)' <=> Broke(r)
    BY <1>2, <1>3 DEF Broke
  <2> QED BY <1>2, <1>3, <2>1, <2>2, RouterAssumption, QuietMetrics
<1> QED BY <1>4, <1>5, <1>6, <1>7 DEF RowStep

LEMMA RateLimitedRow ==
  ASSUME AccountInv, NEW r \in Requests, RateLimited(r)
  PROVE  RowStep(r)
<1>1. Inv /\ TypeOK /\ ReqInv(r) /\ UsageInv(r)
  BY DEF AccountInv, Inv
<1>2. pc[r] = "body" /\ task[r] = "none" /\ status[r] = 0 /\ backend[r] = NoBackend
  BY <1>1 DEF RateLimited, ReqInv, LoopInv, RouteInv, TaskInv
<1>3. /\ pc'[r] = "done" /\ identity'[r] = identity[r]
      /\ backend'[r] = backend[r] /\ faults'[r] = faults[r]
      /\ status'[r] = 429 /\ usage'[r] = usage[r]
      /\ summary'[r] = summary[r] /\ task'[r] = task[r]
  BY <1>1 DEF RateLimited, GoTo, Respond, configVars, callVars, openVars,
     counterVars, ledgerVars, CountError, TypeOK, take_cell
<1>4. \A q \in Requests \ {r}: Same(q)
  BY <1>1 DEF RateLimited, GoTo, Respond, configVars, callVars, openVars,
     counterVars, ledgerVars, TypeOK, Same, take_cell
<1>5. UsageInv(r)'
  BY <1>1, <1>2, <1>3 DEF UsageInv, ReqInv, TaskInv
<1>6. LedgerStep(r)
  <2>1. UNCHANGED ledgerVars
    BY DEF RateLimited, ledgerVars
  <2> QED BY <1>1, <1>2, <1>3, <2>1, QuietLedger DEF Free, Billed, UsageInv
<1>7. MetricsStep(r)
  <2>1. UNCHANGED <<requests_total, upstream_errors>>
    BY DEF RateLimited, counterVars
  <2>2. Broke(r)' <=> Broke(r)
    BY <1>2, <1>3 DEF Broke
  <2> QED BY <1>2, <1>3, <2>1, <2>2, RouterAssumption, QuietMetrics
<1> QED BY <1>4, <1>5, <1>6, <1>7 DEF RowStep

LEMMA MissingModelRow ==
  ASSUME AccountInv, NEW r \in Requests, MissingModel(r)
  PROVE  RowStep(r)
<1>1. Inv /\ TypeOK /\ ReqInv(r) /\ UsageInv(r)
  BY DEF AccountInv, Inv
<1>2. pc[r] = "body" /\ task[r] = "none" /\ status[r] = 0 /\ backend[r] = NoBackend
  BY <1>1 DEF MissingModel, ReqInv, LoopInv, RouteInv, TaskInv
<1>3. /\ pc'[r] = "done" /\ identity'[r] = identity[r]
      /\ backend'[r] = backend[r] /\ faults'[r] = faults[r]
      /\ status'[r] = 400 /\ usage'[r] = usage[r]
      /\ summary'[r] = summary[r] /\ task'[r] = task[r]
  BY <1>1 DEF MissingModel, GoTo, Respond, configVars, callVars, openVars,
     counterVars, ledgerVars, CountError, TypeOK, take_cell
<1>4. \A q \in Requests \ {r}: Same(q)
  BY <1>1 DEF MissingModel, GoTo, Respond, configVars, callVars, openVars,
     counterVars, ledgerVars, TypeOK, Same, take_cell
<1>5. UsageInv(r)'
  BY <1>1, <1>2, <1>3 DEF UsageInv, ReqInv, TaskInv
<1>6. LedgerStep(r)
  <2>1. UNCHANGED ledgerVars
    BY DEF MissingModel, ledgerVars
  <2> QED BY <1>1, <1>2, <1>3, <2>1, QuietLedger DEF Free, Billed, UsageInv
<1>7. MetricsStep(r)
  <2>1. UNCHANGED <<requests_total, upstream_errors>>
    BY DEF MissingModel, counterVars
  <2>2. Broke(r)' <=> Broke(r)
    BY <1>2, <1>3 DEF Broke
  <2> QED BY <1>2, <1>3, <2>1, <2>2, RouterAssumption, QuietMetrics
<1> QED BY <1>4, <1>5, <1>6, <1>7 DEF RowStep

LEMMA NoEligibleBackendRow ==
  ASSUME AccountInv, NEW r \in Requests, NoEligibleBackend(r)
  PROVE  RowStep(r)
<1>1. Inv /\ TypeOK /\ ReqInv(r) /\ UsageInv(r)
  BY DEF AccountInv, Inv
<1>2. pc[r] = "body" /\ task[r] = "none" /\ status[r] = 0 /\ backend[r] = NoBackend
  BY <1>1 DEF NoEligibleBackend, ReqInv, LoopInv, RouteInv, TaskInv
<1>3. /\ pc'[r] = "done" /\ identity'[r] = identity[r]
      /\ backend'[r] = backend[r] /\ faults'[r] = faults[r]
      /\ status'[r] = 502 /\ usage'[r] = usage[r]
      /\ summary'[r] = summary[r] /\ task'[r] = task[r]
  BY <1>1 DEF NoEligibleBackend, GoTo, Respond, configVars, callVars, openVars,
     counterVars, ledgerVars, CountError, TypeOK, take_cell
<1>4. \A q \in Requests \ {r}: Same(q)
  BY <1>1 DEF NoEligibleBackend, GoTo, Respond, configVars, callVars, openVars,
     counterVars, ledgerVars, TypeOK, Same, take_cell
<1>5. UsageInv(r)'
  BY <1>1, <1>2, <1>3 DEF UsageInv, ReqInv, TaskInv
<1>6. LedgerStep(r)
  <2>1. UNCHANGED ledgerVars
    BY DEF NoEligibleBackend, ledgerVars
  <2> QED BY <1>1, <1>2, <1>3, <2>1, QuietLedger DEF Free, Billed, UsageInv
<1>7. MetricsStep(r)
  <2>1. UNCHANGED <<requests_total, upstream_errors>>
    BY DEF NoEligibleBackend, counterVars
  <2>2. Broke(r)' <=> Broke(r)
    BY <1>2, <1>3 DEF Broke
  <2> QED BY <1>2, <1>3, <2>1, <2>2, RouterAssumption, QuietMetrics
<1> QED BY <1>4, <1>5, <1>6, <1>7 DEF RowStep

LEMMA ForwardRow ==
  ASSUME AccountInv, NEW r \in Requests, Forward(r)
  PROVE  RowStep(r)
<1>1. Inv /\ TypeOK /\ ReqInv(r) /\ UsageInv(r)
  BY DEF AccountInv, Inv
<1>2. pc[r] = "body" /\ task[r] = "none" /\ status[r] = 0 /\ backend[r] = NoBackend
  BY <1>1 DEF Forward, ReqInv, LoopInv, RouteInv, TaskInv
<1>3. /\ pc'[r] = "opening" /\ identity'[r] = identity[r]
      /\ faults'[r] = faults[r] /\ status'[r] = status[r]
      /\ usage'[r] = usage[r] /\ summary'[r] = summary[r]
      /\ task'[r] = task[r]
  BY <1>1 DEF Forward, GoTo, Respond, configVars, callVars, openVars,
     counterVars, ledgerVars, CountError, TypeOK, take_cell
<1>4. \A q \in Requests \ {r}: Same(q)
  BY <1>1 DEF Forward, GoTo, Respond, configVars, callVars, openVars,
     counterVars, ledgerVars, TypeOK, Same, take_cell
<1>5. UsageInv(r)'
  BY <1>1, <1>2, <1>3 DEF UsageInv, ReqInv, TaskInv
<1>6. LedgerStep(r)
  <2>1. UNCHANGED ledgerVars
    BY DEF Forward, ledgerVars
  <2> QED BY <1>1, <1>2, <1>3, <2>1, QuietLedger DEF Free, Billed, UsageInv
<1>7. MetricsStep(r)
  <2>1. UNCHANGED <<requests_total, upstream_errors>>
    BY DEF Forward, counterVars
  <2>2. Len(faults[r]) = 0
    BY <1>1, <1>2 DEF ReqInv, LoopInv
  <2>3. ~Broke(r) /\ ~Broke(r)'
    BY <1>2, <1>3 DEF Broke
  <2>4. \A b \in Positions: ErrorsAt(b, r) = 0 /\ ErrorsAt(b, r)' = 0
    BY <1>3, <2>2, <2>3 DEF ErrorsAt
  <2>5. \A b \in Positions: /\ ~Started(b, r) /\ ~Started(b, r)'
                            /\ ~RanOut(b, r) /\ ~RanOut(b, r)'
    BY <1>2, <1>3 DEF Started, RanOut
  <2> QED BY <2>1, <2>4, <2>5 DEF MetricsStep
<1> QED BY <1>4, <1>5, <1>6, <1>7 DEF RowStep

LEMMA OpenRejectedRow ==
  ASSUME AccountInv, NEW r \in Requests, NEW e \in Failures, OpenRejected(r, e)
  PROVE  RowStep(r)
<1>1. Inv /\ TypeOK /\ ReqInv(r) /\ UsageInv(r)
  BY DEF AccountInv, Inv
<1>2. pc[r] = "opening" /\ task[r] = "none" /\ status[r] = 0
  BY <1>1 DEF OpenRejected, ReqInv, LoopInv, RouteInv, TaskInv
<1>3. /\ pc'[r] = "done" /\ identity'[r] = identity[r]
      /\ backend'[r] = backend[r] /\ faults'[r] = Append(faults[r], e)
      /\ status'[r] = e /\ usage'[r] = usage[r] /\ summary'[r] = summary[r]
      /\ task'[r] = task[r]
  BY <1>1 DEF OpenRejected, GoTo, Respond, configVars, callVars, openVars,
     counterVars, ledgerVars, CountError, TypeOK
<1>4. \A q \in Requests \ {r}: Same(q)
  BY <1>1 DEF OpenRejected, GoTo, Respond, configVars, callVars, openVars,
     counterVars, ledgerVars, TypeOK, Same
<1>5. UsageInv(r)'
  BY <1>1, <1>2, <1>3 DEF UsageInv, ReqInv, TaskInv
<1>6. LedgerStep(r)
  <2>1. UNCHANGED ledgerVars
    BY DEF OpenRejected, ledgerVars
  <2> QED BY <1>1, <1>2, <1>3, <2>1, QuietLedger DEF Free, Billed, UsageInv
<1>e. e # 502
  BY DEF OpenRejected, is_retryable
<1>7. MetricsStep(r)
  <2>1. backend[r] \in Positions
    BY <1>1, <1>2, RowTypes DEF ReqInv, RouteInv, TaskInv
  <2>2. Len(faults'[r]) = Len(faults[r]) + 1
    BY <1>1, <1>3, RowTypes
  <2>3. ~Broke(r) /\ ~Broke(r)'
    BY <1>2, <1>3 DEF Broke
  <2>4. \A b \in Positions: upstream_errors'[b] + ErrorsAt(b, r)
                                = upstream_errors[b] + ErrorsAt(b, r)'
    BY <1>1, <1>3, <2>2, <2>3, OneMoreError DEF OpenRejected
  <2>5. \A b \in Positions: Started(b, r)' <=> Started(b, r)
    BY <1>2, <1>3 DEF Started
  <2>6. \A b \in Positions: RanOut(b, r)' <=> RanOut(b, r)
    BY <1>2, <1>3, <1>e DEF RanOut
  <2>7. requests_total' = requests_total
    BY DEF OpenRejected
  <2> QED BY <2>4, <2>5, <2>6, <2>7 DEF MetricsStep
<1> QED BY <1>4, <1>5, <1>6, <1>7 DEF RowStep

LEMMA OpenRetriedRow ==
  ASSUME AccountInv, NEW r \in Requests, NEW e \in Failures, OpenRetried(r, e)
  PROVE  RowStep(r)
<1>1. Inv /\ TypeOK /\ ReqInv(r) /\ UsageInv(r)
  BY DEF AccountInv, Inv
<1>2. pc[r] = "opening" /\ task[r] = "none" /\ status[r] = 0
  BY <1>1 DEF OpenRetried, ReqInv, LoopInv, RouteInv, TaskInv
<1>3. /\ pc'[r] = "backoff" /\ identity'[r] = identity[r]
      /\ backend'[r] = backend[r] /\ faults'[r] = Append(faults[r], e)
      /\ status'[r] = status[r] /\ usage'[r] = usage[r]
      /\ summary'[r] = summary[r] /\ task'[r] = task[r]
  BY <1>1 DEF OpenRetried, GoTo, Respond, configVars, callVars, openVars,
     counterVars, ledgerVars, CountError, TypeOK
<1>4. \A q \in Requests \ {r}: Same(q)
  BY <1>1 DEF OpenRetried, GoTo, Respond, configVars, callVars, openVars,
     counterVars, ledgerVars, TypeOK, Same
<1>5. UsageInv(r)'
  BY <1>1, <1>2, <1>3 DEF UsageInv, ReqInv, TaskInv
<1>6. LedgerStep(r)
  <2>1. UNCHANGED ledgerVars
    BY DEF OpenRetried, ledgerVars
  <2> QED BY <1>1, <1>2, <1>3, <2>1, QuietLedger DEF Free, Billed, UsageInv
<1>7. MetricsStep(r)
  <2>1. backend[r] \in Positions
    BY <1>1, <1>2, RowTypes DEF ReqInv, RouteInv, TaskInv
  <2>2. Len(faults'[r]) = Len(faults[r]) + 1
    BY <1>1, <1>3, RowTypes
  <2>3. ~Broke(r) /\ ~Broke(r)'
    BY <1>2, <1>3 DEF Broke
  <2>4. \A b \in Positions: upstream_errors'[b] + ErrorsAt(b, r)
                                = upstream_errors[b] + ErrorsAt(b, r)'
    BY <1>1, <1>3, <2>2, <2>3, OneMoreError DEF OpenRetried
  <2>5. \A b \in Positions: Started(b, r)' <=> Started(b, r)
    BY <1>2, <1>3 DEF Started
  <2>6. \A b \in Positions: RanOut(b, r)' <=> RanOut(b, r)
    BY <1>2, <1>3 DEF RanOut
  <2>7. requests_total' = requests_total
    BY DEF OpenRetried
  <2> QED BY <2>4, <2>5, <2>6, <2>7 DEF MetricsStep
<1> QED BY <1>4, <1>5, <1>6, <1>7 DEF RowStep

LEMMA OpenExhaustedRow ==
  ASSUME AccountInv, NEW r \in Requests, NEW e \in Failures, OpenExhausted(r, e)
  PROVE  RowStep(r)
<1>1. Inv /\ TypeOK /\ ReqInv(r) /\ UsageInv(r)
  BY DEF AccountInv, Inv
<1>2. pc[r] = "opening" /\ task[r] = "none" /\ status[r] = 0
  BY <1>1 DEF OpenExhausted, ReqInv, LoopInv, RouteInv, TaskInv
<1>3. /\ pc'[r] = "exhausted" /\ identity'[r] = identity[r]
      /\ backend'[r] = backend[r] /\ faults'[r] = Append(faults[r], e)
      /\ status'[r] = status[r] /\ usage'[r] = usage[r]
      /\ summary'[r] = summary[r] /\ task'[r] = task[r]
  BY <1>1 DEF OpenExhausted, GoTo, Respond, configVars, callVars, openVars,
     counterVars, ledgerVars, CountError, TypeOK
<1>4. \A q \in Requests \ {r}: Same(q)
  BY <1>1 DEF OpenExhausted, GoTo, Respond, configVars, callVars, openVars,
     counterVars, ledgerVars, TypeOK, Same
<1>5. UsageInv(r)'
  BY <1>1, <1>2, <1>3 DEF UsageInv, ReqInv, TaskInv
<1>6. LedgerStep(r)
  <2>1. UNCHANGED ledgerVars
    BY DEF OpenExhausted, ledgerVars
  <2> QED BY <1>1, <1>2, <1>3, <2>1, QuietLedger DEF Free, Billed, UsageInv
<1>7. MetricsStep(r)
  <2>1. backend[r] \in Positions
    BY <1>1, <1>2, RowTypes DEF ReqInv, RouteInv, TaskInv
  <2>2. Len(faults'[r]) = Len(faults[r]) + 1
    BY <1>1, <1>3, RowTypes
  <2>3. ~Broke(r) /\ ~Broke(r)'
    BY <1>2, <1>3 DEF Broke
  <2>4. \A b \in Positions: upstream_errors'[b] + ErrorsAt(b, r)
                                = upstream_errors[b] + ErrorsAt(b, r)'
    BY <1>1, <1>3, <2>2, <2>3, OneMoreError DEF OpenExhausted
  <2>5. \A b \in Positions: Started(b, r)' <=> Started(b, r)
    BY <1>2, <1>3 DEF Started
  <2>6. \A b \in Positions: RanOut(b, r)' <=> RanOut(b, r)
    BY <1>2, <1>3 DEF RanOut
  <2>7. requests_total' = requests_total
    BY DEF OpenExhausted
  <2> QED BY <2>4, <2>5, <2>6, <2>7 DEF MetricsStep
<1> QED BY <1>4, <1>5, <1>6, <1>7 DEF RowStep

LEMMA GiveUpRow ==
  ASSUME AccountInv, NEW r \in Requests, GiveUp(r)
  PROVE  RowStep(r)
<1>1. Inv /\ TypeOK /\ ReqInv(r) /\ UsageInv(r)
  BY DEF AccountInv, Inv
<1>2. pc[r] = "exhausted" /\ task[r] = "none" /\ status[r] = 0
  BY <1>1 DEF GiveUp, ReqInv, LoopInv, RouteInv, TaskInv
<1>3. /\ pc'[r] = "done" /\ identity'[r] = identity[r]
      /\ backend'[r] = backend[r] /\ faults'[r] = faults[r]
      /\ status'[r] = 502 /\ usage'[r] = usage[r]
      /\ summary'[r] = summary[r] /\ task'[r] = task[r]
  BY <1>1 DEF GiveUp, GoTo, Respond, configVars, callVars, openVars,
     counterVars, ledgerVars, CountError, TypeOK
<1>4. \A q \in Requests \ {r}: Same(q)
  BY <1>1 DEF GiveUp, GoTo, Respond, configVars, callVars, openVars,
     counterVars, ledgerVars, TypeOK, Same
<1>5. UsageInv(r)'
  BY <1>1, <1>2, <1>3 DEF UsageInv, ReqInv, TaskInv
<1>6. LedgerStep(r)
  <2>1. UNCHANGED ledgerVars
    BY DEF GiveUp, ledgerVars
  <2> QED BY <1>1, <1>2, <1>3, <2>1, QuietLedger DEF Free, Billed, UsageInv
<1>7. MetricsStep(r)
  <2>1. backend[r] \in Positions
    BY <1>1, <1>2, RowTypes DEF ReqInv, RouteInv, TaskInv
  <2>3. ~Broke(r) /\ ~Broke(r)'
    BY <1>2, <1>3 DEF Broke
  <2>4. \A b \in Positions: upstream_errors'[b] + ErrorsAt(b, r)
                                = upstream_errors[b] + ErrorsAt(b, r)'
    <3>1. upstream_errors' = upstream_errors
      BY DEF GiveUp
    <3> QED BY <1>3, <2>3, <3>1 DEF ErrorsAt
  <2>5. \A b \in Positions: Started(b, r)' <=> Started(b, r)
    BY <1>2, <1>3 DEF Started
  <2>6. PICK a: a = backend[r]
    OBVIOUS
  <2>7. requests_total' = [requests_total EXCEPT !["5xx"][a] = @ + 1]
    BY <2>6 DEF GiveUp
  <2>8. /\ requests_total'["2xx"] = requests_total["2xx"]
        /\ \A b \in Positions: requests_total'["5xx"][b]
                                 = IF b = a THEN requests_total["5xx"][b] + 1
                                            ELSE requests_total["5xx"][b]
    BY <1>1, <2>1, <2>6, <2>7 DEF TypeOK
  <2>9. \A b \in Positions: ~RanOut(b, r) /\ (RanOut(b, r)' <=> b = a)
    BY <1>2, <1>3, <2>6 DEF RanOut
  <2> QED BY <2>4, <2>5, <2>8, <2>9 DEF MetricsStep
<1> QED BY <1>4, <1>5, <1>6, <1>7 DEF RowStep

LEMMA BackoffElapsedRow ==
  ASSUME AccountInv, NEW r \in Requests, BackoffElapsed(r)
  PROVE  RowStep(r)
<1>1. Inv /\ TypeOK /\ ReqInv(r) /\ UsageInv(r)
  BY DEF AccountInv, Inv
<1>2. pc[r] = "backoff" /\ task[r] = "none" /\ status[r] = 0
  BY <1>1 DEF BackoffElapsed, ReqInv, LoopInv, RouteInv, TaskInv
<1>3. /\ pc'[r] = "opening" /\ identity'[r] = identity[r]
      /\ backend'[r] = backend[r] /\ faults'[r] = faults[r]
      /\ status'[r] = status[r] /\ usage'[r] = usage[r]
      /\ summary'[r] = summary[r] /\ task'[r] = task[r]
  BY <1>1 DEF BackoffElapsed, GoTo, Respond, configVars, callVars, openVars,
     counterVars, ledgerVars, CountError, TypeOK
<1>4. \A q \in Requests \ {r}: Same(q)
  BY <1>1 DEF BackoffElapsed, GoTo, Respond, configVars, callVars, openVars,
     counterVars, ledgerVars, TypeOK, Same
<1>5. UsageInv(r)'
  BY <1>1, <1>2, <1>3 DEF UsageInv, ReqInv, TaskInv
<1>6. LedgerStep(r)
  <2>1. UNCHANGED ledgerVars
    BY DEF BackoffElapsed, ledgerVars
  <2> QED BY <1>1, <1>2, <1>3, <2>1, QuietLedger DEF Free, Billed, UsageInv
<1>7. MetricsStep(r)
  <2>1. UNCHANGED <<requests_total, upstream_errors>>
    BY DEF BackoffElapsed, counterVars
  <2>2. Broke(r)' <=> Broke(r)
    BY <1>2, <1>3 DEF Broke
  <2> QED BY <1>2, <1>3, <2>1, <2>2, RouterAssumption, QuietMetrics
<1> QED BY <1>4, <1>5, <1>6, <1>7 DEF RowStep

LEMMA OpenSucceededRow ==
  ASSUME AccountInv, NEW r \in Requests, OpenSucceeded(r)
  PROVE  RowStep(r)
<1>1. Inv /\ TypeOK /\ ReqInv(r) /\ UsageInv(r)
  BY DEF AccountInv, Inv
<1>2. pc[r] = "opening" /\ task[r] = "none" /\ status[r] = 0
  BY <1>1 DEF OpenSucceeded, ReqInv, LoopInv, RouteInv, TaskInv
<1>3. /\ pc'[r] \in {"streaming", "reading"} /\ identity'[r] = identity[r]
      /\ backend'[r] = backend[r] /\ faults'[r] = faults[r]
      /\ usage'[r] = usage[r] /\ summary'[r] = summary[r]
      /\ task'[r] = "waiting"
  BY <1>1 DEF OpenSucceeded, GoTo, Respond, configVars, callVars, openVars,
     counterVars, ledgerVars, CountError, TypeOK
<1>4. \A q \in Requests \ {r}: Same(q)
  BY <1>1 DEF OpenSucceeded, GoTo, Respond, configVars, callVars, openVars,
     counterVars, ledgerVars, TypeOK, Same
<1>5. UsageInv(r)'
  BY <1>1, <1>2, <1>3 DEF UsageInv, ReqInv, TaskInv
<1>6. LedgerStep(r)
  <2>1. UNCHANGED ledgerVars
    BY DEF OpenSucceeded, ledgerVars
  <2> QED BY <1>1, <1>2, <1>3, <2>1, QuietLedger DEF Free, Billed, UsageInv
<1>7. MetricsStep(r)
  <2>1. backend[r] \in Positions
    BY <1>1, <1>2, RowTypes DEF ReqInv, RouteInv
  <2>2. PICK a: a = backend[r]
    OBVIOUS
  <2>3. requests_total' = [requests_total EXCEPT !["2xx"][a] = @ + 1]
    BY <2>2 DEF OpenSucceeded
  <2>4. /\ requests_total'["5xx"] = requests_total["5xx"]
        /\ \A b \in Positions: requests_total'["2xx"][b]
                                 = IF b = a THEN requests_total["2xx"][b] + 1
                                            ELSE requests_total["2xx"][b]
    BY <1>1, <2>1, <2>2, <2>3 DEF TypeOK
  <2>5. \A b \in Positions: ~Started(b, r) /\ (Started(b, r)' <=> b = a)
    BY <1>2, <1>3, <2>2 DEF Started
  <2>6. \A b \in Positions: ~RanOut(b, r) /\ ~RanOut(b, r)'
    BY <1>2, <1>3 DEF RanOut
  <2>7. ~Broke(r) /\ ~Broke(r)' /\ upstream_errors' = upstream_errors
    BY <1>2, <1>3 DEF Broke, OpenSucceeded
  <2>8. \A b \in Positions: ErrorsAt(b, r)' = ErrorsAt(b, r)
    BY <1>3, <2>7 DEF ErrorsAt
  <2> QED BY <2>4, <2>5, <2>6, <2>7, <2>8 DEF MetricsStep
<1> QED BY <1>4, <1>5, <1>6, <1>7 DEF RowStep

LEMMA RelayScanRow ==
  ASSUME AccountInv, NEW r \in Requests, RelayScan(r)
  PROVE  RowStep(r)
<1>1. Inv /\ TypeOK /\ ReqInv(r) /\ UsageInv(r)
  BY DEF AccountInv, Inv
<1>2. pc[r] = "streaming" /\ task[r] = "waiting" /\ summary[r] = <<>>
  BY <1>1 DEF RelayScan, ReqInv, LoopInv, RouteInv, TaskInv
<1>3. /\ pc'[r] = pc[r] /\ identity'[r] = identity[r]
      /\ backend'[r] = backend[r] /\ faults'[r] = faults[r]
      /\ status'[r] = status[r] /\ summary'[r] = summary[r]
      /\ task'[r] = task[r]
  BY <1>1 DEF RelayScan, GoTo, Respond, configVars, callVars, openVars,
     counterVars, ledgerVars, CountError, TypeOK
<1>4. \A q \in Requests \ {r}: Same(q)
  BY <1>1 DEF RelayScan, GoTo, Respond, configVars, callVars, openVars,
     counterVars, ledgerVars, TypeOK, Same
<1>5. UsageInv(r)'
  BY <1>1, <1>2, <1>3 DEF UsageInv, ReqInv, TaskInv
<1>6. LedgerStep(r)
  <2>1. UNCHANGED ledgerVars
    BY DEF RelayScan, ledgerVars
  <2> QED BY <1>1, <1>2, <1>3, <2>1, QuietLedger DEF Free, Billed, UsageInv
<1>7. MetricsStep(r)
  <2>1. UNCHANGED <<requests_total, upstream_errors>>
    BY DEF RelayScan, counterVars
  <2>2. Broke(r)' <=> Broke(r)
    BY <1>2, <1>3 DEF Broke
  <2> QED BY <1>2, <1>3, <2>1, <2>2, RouterAssumption, QuietMetrics
<1> QED BY <1>4, <1>5, <1>6, <1>7 DEF RowStep

LEMMA RelayEndRow ==
  ASSUME AccountInv, NEW r \in Requests, RelayEnd(r)
  PROVE  RowStep(r)
<1>1. Inv /\ TypeOK /\ ReqInv(r) /\ UsageInv(r)
  BY DEF AccountInv, Inv
<1>2. pc[r] = "streaming" /\ task[r] = "waiting" /\ summary[r] = <<>>
  BY <1>1 DEF RelayEnd, ReqInv, LoopInv, RouteInv, TaskInv
<1>3. /\ pc'[r] = "done" /\ identity'[r] = identity[r]
      /\ backend'[r] = backend[r] /\ faults'[r] = faults[r]
      /\ status'[r] = status[r] /\ usage'[r] = usage[r]
      /\ task'[r] = task[r]
  BY <1>1 DEF RelayEnd, GoTo, Respond, configVars, callVars, openVars,
     counterVars, ledgerVars, CountError, TypeOK
<1>4. \A q \in Requests \ {r}: Same(q)
  BY <1>1 DEF RelayEnd, GoTo, Respond, configVars, callVars, openVars,
     counterVars, ledgerVars, TypeOK, Same
<1>5. UsageInv(r)'
  BY <1>1, <1>2, <1>3 DEF UsageInv, ReqInv, TaskInv
<1>6. LedgerStep(r)
  <2>1. UNCHANGED ledgerVars
    BY DEF RelayEnd, ledgerVars
  <2> QED BY <1>1, <1>2, <1>3, <2>1, QuietLedger DEF Free, Billed, UsageInv
<1>7. MetricsStep(r)
  <2>1. UNCHANGED <<requests_total, upstream_errors>>
    BY DEF RelayEnd, counterVars
  <2>2. Broke(r)' <=> Broke(r)
    BY <1>2, <1>3 DEF Broke
  <2> QED BY <1>2, <1>3, <2>1, <2>2, RouterAssumption, QuietMetrics
<1> QED BY <1>4, <1>5, <1>6, <1>7 DEF RowStep

LEMMA TaskWokenRow ==
  ASSUME AccountInv, NEW r \in Requests, TaskWoken(r)
  PROVE  RowStep(r)
<1>1. Inv /\ TypeOK /\ ReqInv(r) /\ UsageInv(r)
  BY DEF AccountInv, Inv
<1>2. task[r] = "waiting" /\ summary[r] # <<>>
  BY <1>1 DEF TaskWoken, ReqInv, LoopInv, RouteInv, TaskInv
<1>3. /\ pc'[r] = pc[r] /\ identity'[r] = identity[r]
      /\ backend'[r] = backend[r] /\ faults'[r] = faults[r]
      /\ status'[r] = status[r] /\ usage'[r] = usage[r]
      /\ summary'[r] = summary[r]
      /\ task'[r] = (IF Head(summary[r]).usage = NoUsage THEN "outcome" ELSE "budget")
  BY <1>1 DEF TaskWoken, GoTo, Respond, configVars, callVars, openVars,
     counterVars, ledgerVars, CountError, TypeOK
<1>4. \A q \in Requests \ {r}: Same(q)
  BY <1>1 DEF TaskWoken, GoTo, Respond, configVars, callVars, openVars,
     counterVars, ledgerVars, TypeOK, Same
<1>5. UsageInv(r)'
  BY <1>1, <1>2, <1>3 DEF UsageInv, ReqInv, TaskInv
<1>6. LedgerStep(r)
  <2>1. UNCHANGED ledgerVars
    BY DEF TaskWoken, ledgerVars
  <2> QED BY <1>1, <1>2, <1>3, <2>1, QuietLedger DEF Free, Billed, UsageInv
<1>7. MetricsStep(r)
  <2>1. UNCHANGED <<requests_total, upstream_errors>>
    BY DEF TaskWoken, counterVars
  <2>2. Broke(r)' <=> Broke(r)
    BY <1>2, <1>3 DEF Broke
  <2> QED BY <1>2, <1>3, <2>1, <2>2, RouterAssumption, QuietMetrics
<1> QED BY <1>4, <1>5, <1>6, <1>7 DEF RowStep

LEMMA BodyReadRow ==
  ASSUME AccountInv, NEW r \in Requests, BodyRead(r)
  PROVE  RowStep(r)
<1>1. Inv /\ TypeOK /\ ReqInv(r) /\ UsageInv(r)
  BY DEF AccountInv, Inv
<1>2. pc[r] = "reading" /\ task[r] = "waiting" /\ summary[r] = <<>>
  BY <1>1 DEF BodyRead, ReqInv, LoopInv, RouteInv, TaskInv
<1>3. /\ pc'[r] = "accounting" /\ identity'[r] = identity[r]
      /\ backend'[r] = backend[r] /\ faults'[r] = faults[r]
      /\ status'[r] = status[r] /\ summary'[r] = summary[r]
      /\ task'[r] = "budget"
  BY <1>1 DEF BodyRead, GoTo, Respond, configVars, callVars, openVars,
     counterVars, ledgerVars, CountError, TypeOK
<1>4. \A q \in Requests \ {r}: Same(q)
  BY <1>1 DEF BodyRead, GoTo, Respond, configVars, callVars, openVars,
     counterVars, ledgerVars, TypeOK, Same
<1>5. UsageInv(r)'
  BY <1>1, <1>2, <1>3 DEF UsageInv, ReqInv, TaskInv
<1>6. LedgerStep(r)
  <2>1. UNCHANGED ledgerVars
    BY DEF BodyRead, ledgerVars
  <2> QED BY <1>1, <1>2, <1>3, <2>1, QuietLedger DEF Free, Billed, UsageInv
<1>7. MetricsStep(r)
  <2>1. UNCHANGED <<requests_total, upstream_errors>>
    BY DEF BodyRead, counterVars
  <2>2. Broke(r)' <=> Broke(r)
    BY <1>2, <1>3 DEF Broke
  <2> QED BY <1>2, <1>3, <2>1, <2>2, RouterAssumption, QuietMetrics
<1> QED BY <1>4, <1>5, <1>6, <1>7 DEF RowStep

LEMMA BodyWithoutUsageRow ==
  ASSUME AccountInv, NEW r \in Requests, BodyWithoutUsage(r)
  PROVE  RowStep(r)
<1>1. Inv /\ TypeOK /\ ReqInv(r) /\ UsageInv(r)
  BY DEF AccountInv, Inv
<1>2. pc[r] = "reading" /\ task[r] = "waiting" /\ summary[r] = <<>>
  BY <1>1 DEF BodyWithoutUsage, ReqInv, LoopInv, RouteInv, TaskInv
<1>3. /\ pc'[r] = "done" /\ identity'[r] = identity[r]
      /\ backend'[r] = backend[r] /\ faults'[r] = faults[r]
      /\ status'[r] = 200 /\ usage'[r] = usage[r]
      /\ summary'[r] = summary[r] /\ task'[r] = "done"
  BY <1>1 DEF BodyWithoutUsage, GoTo, Respond, configVars, callVars, openVars,
     counterVars, ledgerVars, CountError, TypeOK
<1>4. \A q \in Requests \ {r}: Same(q)
  BY <1>1 DEF BodyWithoutUsage, GoTo, Respond, configVars, callVars, openVars,
     counterVars, ledgerVars, TypeOK, Same
<1>5. UsageInv(r)'
  BY <1>1, <1>2, <1>3 DEF UsageInv, ReqInv, TaskInv
<1>6. LedgerStep(r)
  <2>1. UNCHANGED ledgerVars
    BY DEF BodyWithoutUsage, ledgerVars
  <2> QED BY <1>1, <1>2, <1>3, <2>1, QuietLedger DEF Free, Billed, UsageInv
<1>7. MetricsStep(r)
  <2>1. UNCHANGED <<requests_total, upstream_errors>>
    BY DEF BodyWithoutUsage, counterVars
  <2>2. Broke(r)' <=> Broke(r)
    BY <1>2, <1>3 DEF Broke
  <2> QED BY <1>2, <1>3, <2>1, <2>2, RouterAssumption, QuietMetrics
<1> QED BY <1>4, <1>5, <1>6, <1>7 DEF RowStep

LEMMA BodyFailedRow ==
  ASSUME AccountInv, NEW r \in Requests, BodyFailed(r)
  PROVE  RowStep(r)
<1>1. Inv /\ TypeOK /\ ReqInv(r) /\ UsageInv(r)
  BY DEF AccountInv, Inv
<1>2. pc[r] = "reading" /\ task[r] = "waiting" /\ summary[r] = <<>>
  BY <1>1 DEF BodyFailed, ReqInv, LoopInv, RouteInv, TaskInv
<1>3. /\ pc'[r] = "done" /\ identity'[r] = identity[r]
      /\ backend'[r] = backend[r] /\ faults'[r] = faults[r]
      /\ status'[r] = 502 /\ usage'[r] = usage[r]
      /\ summary'[r] = summary[r] /\ task'[r] = "done"
  BY <1>1 DEF BodyFailed, GoTo, Respond, configVars, callVars, openVars,
     counterVars, ledgerVars, CountError, TypeOK
<1>4. \A q \in Requests \ {r}: Same(q)
  BY <1>1 DEF BodyFailed, GoTo, Respond, configVars, callVars, openVars,
     counterVars, ledgerVars, TypeOK, Same
<1>5. UsageInv(r)'
  BY <1>1, <1>2, <1>3 DEF UsageInv, ReqInv, TaskInv
<1>6. LedgerStep(r)
  <2>1. UNCHANGED ledgerVars
    BY DEF BodyFailed, ledgerVars
  <2> QED BY <1>1, <1>2, <1>3, <2>1, QuietLedger DEF Free, Billed, UsageInv
<1>7. MetricsStep(r)
  <2>1. backend[r] \in Positions
    BY <1>1, <1>2, RowTypes DEF ReqInv, RouteInv, TaskInv
  <2>2. faults'[r] = faults[r]
    BY <1>3
  <2>3. ~Broke(r) /\ Broke(r)'
    BY <1>1, <1>2, <1>3 DEF Broke, ReqInv, TaskInv
  <2>4. \A b \in Positions: upstream_errors'[b] + ErrorsAt(b, r)
                                = upstream_errors[b] + ErrorsAt(b, r)'
    BY <1>1, <1>3, <2>2, <2>3, OneMoreError DEF BodyFailed
  <2>5. \A b \in Positions: Started(b, r)' <=> Started(b, r)
    BY <1>2, <1>3 DEF Started
  <2>6. \A b \in Positions: RanOut(b, r)' <=> RanOut(b, r)
    BY <1>2, <1>3 DEF RanOut
  <2>7. requests_total' = requests_total
    BY DEF BodyFailed
  <2> QED BY <2>4, <2>5, <2>6, <2>7 DEF MetricsStep
<1> QED BY <1>4, <1>5, <1>6, <1>7 DEF RowStep

LEMMA RecordBudgetRow ==
  ASSUME AccountInv, NEW r \in Requests, RecordBudget(r)
  PROVE  RowStep(r)
<1>1. Inv /\ TypeOK /\ ReqInv(r) /\ UsageInv(r)
  BY DEF AccountInv, Inv
<1>2. task[r] = "budget"
  BY <1>1 DEF RecordBudget, ReqInv, LoopInv, RouteInv, TaskInv
<1>3. /\ pc'[r] = pc[r] /\ identity'[r] = identity[r]
      /\ backend'[r] = backend[r] /\ faults'[r] = faults[r]
      /\ status'[r] = status[r] /\ usage'[r] = usage[r]
      /\ summary'[r] = summary[r] /\ task'[r] = "tokens"
  BY <1>1 DEF RecordBudget, GoTo, Respond, configVars, callVars, openVars,
     counterVars, ledgerVars, CountError, TypeOK
<1>4. \A q \in Requests \ {r}: Same(q)
  BY <1>1 DEF RecordBudget, GoTo, Respond, configVars, callVars, openVars,
     counterVars, ledgerVars, TypeOK, Same
<1>5. UsageInv(r)'
  BY <1>1, <1>2, <1>3 DEF UsageInv, ReqInv, TaskInv
<1>6. LedgerStep(r)
  <2>1. PICK n, u: n = identity[r].name /\ u = Billed(r)
    OBVIOUS
  <2>2. u \in Nat /\ u # NoUsage
    BY <1>1, <1>2, <2>1, GatewayAssumption DEF ReqInv, TaskInv
  <2>3. /\ budget' = [budget EXCEPT ![n] = @ + u]
        /\ tokens' = tokens /\ tpm' = tpm
    BY <2>1 DEF RecordBudget, Charge
  <2>4. Billed(r)' = u /\ identity'[r].name = n
    BY <1>3, <2>1 DEF Billed
  <2>5. ASSUME NEW k \in Names
        PROVE  /\ budget'[k] + Due(AfterBudget, k, r)
                    = budget[k] + Due(AfterBudget, k, r)'
               /\ tokens'[k] + Due(AfterTokens, k, r)
                    = tokens[k] + Due(AfterTokens, k, r)'
               /\ tpm'[k] + Due({"tpm"}, k, r)' + tokens[k]
                    <= tpm[k] + Due({"tpm"}, k, r) + tokens'[k]
    <3>1. budget[k] \in Nat /\ tokens[k] \in Nat /\ tpm[k] \in Nat
      BY <1>1 DEF TypeOK
    <3>2. budget'[k] = budget[k] + IF k = n THEN u ELSE 0
      BY SMTT(30), <1>1, <2>2, <2>3, <3>1 DEF TypeOK
    <3>3. /\ Due(AfterBudget, k, r) = 0
          /\ Due(AfterBudget, k, r)' = IF k = n THEN u ELSE 0
          /\ Due(AfterTokens, k, r) = 0 /\ Due(AfterTokens, k, r)' = 0
          /\ Due({"tpm"}, k, r) = 0 /\ Due({"tpm"}, k, r)' = 0
      BY <1>2, <1>3, <2>1, <2>2, <2>4 DEF Due, AfterBudget, AfterTokens
    <3> QED BY <2>2, <2>3, <3>1, <3>2, <3>3
  <2> QED BY <2>5 DEF LedgerStep
<1>7. MetricsStep(r)
  <2>1. UNCHANGED <<requests_total, upstream_errors>>
    BY DEF RecordBudget, counterVars
  <2>2. Broke(r)' <=> Broke(r)
    BY <1>2, <1>3 DEF Broke
  <2> QED BY <1>2, <1>3, <2>1, <2>2, RouterAssumption, QuietMetrics
<1> QED BY <1>4, <1>5, <1>6, <1>7 DEF RowStep

LEMMA RecordTokensRow ==
  ASSUME AccountInv, NEW r \in Requests, RecordTokens(r)
  PROVE  RowStep(r)
<1>1. Inv /\ TypeOK /\ ReqInv(r) /\ UsageInv(r)
  BY DEF AccountInv, Inv
<1>2. task[r] = "tokens"
  BY <1>1 DEF RecordTokens, ReqInv, LoopInv, RouteInv, TaskInv
<1>3. /\ pc'[r] = pc[r] /\ identity'[r] = identity[r]
      /\ backend'[r] = backend[r] /\ faults'[r] = faults[r]
      /\ status'[r] = status[r] /\ usage'[r] = usage[r]
      /\ summary'[r] = summary[r] /\ task'[r] = "tpm"
  BY <1>1 DEF RecordTokens, GoTo, Respond, configVars, callVars, openVars,
     counterVars, ledgerVars, CountError, TypeOK
<1>4. \A q \in Requests \ {r}: Same(q)
  BY <1>1 DEF RecordTokens, GoTo, Respond, configVars, callVars, openVars,
     counterVars, ledgerVars, TypeOK, Same
<1>5. UsageInv(r)'
  BY <1>1, <1>2, <1>3 DEF UsageInv, ReqInv, TaskInv
<1>6. LedgerStep(r)
  <2>1. PICK n, u: n = identity[r].name /\ u = Billed(r)
    OBVIOUS
  <2>2. u \in Nat /\ u # NoUsage
    BY <1>1, <1>2, <2>1, GatewayAssumption DEF ReqInv, TaskInv
  <2>3. /\ tokens' = [tokens EXCEPT ![n] = @ + u]
        /\ budget' = budget /\ tpm' = tpm
    BY <2>1 DEF RecordTokens, Charge
  <2>4. Billed(r)' = u /\ identity'[r].name = n
    BY <1>3, <2>1 DEF Billed
  <2>5. ASSUME NEW k \in Names
        PROVE  /\ budget'[k] + Due(AfterBudget, k, r)
                    = budget[k] + Due(AfterBudget, k, r)'
               /\ tokens'[k] + Due(AfterTokens, k, r)
                    = tokens[k] + Due(AfterTokens, k, r)'
               /\ tpm'[k] + Due({"tpm"}, k, r)' + tokens[k]
                    <= tpm[k] + Due({"tpm"}, k, r) + tokens'[k]
    <3>1. budget[k] \in Nat /\ tokens[k] \in Nat /\ tpm[k] \in Nat
      BY <1>1 DEF TypeOK
    <3>2. tokens'[k] = tokens[k] + IF k = n THEN u ELSE 0
      BY SMTT(30), <1>1, <2>2, <2>3, <3>1 DEF TypeOK
    <3>3. /\ Due(AfterBudget, k, r)' = Due(AfterBudget, k, r)
          /\ Due(AfterTokens, k, r) = 0 /\ Due({"tpm"}, k, r) = 0
          /\ Due(AfterTokens, k, r)' = IF k = n THEN u ELSE 0
          /\ Due({"tpm"}, k, r)' = IF k = n THEN u ELSE 0
      BY <1>2, <1>3, <2>1, <2>2, <2>4 DEF Due, AfterBudget, AfterTokens
    <3> QED BY <2>2, <2>3, <3>1, <3>2, <3>3
  <2> QED BY <2>5 DEF LedgerStep
<1>7. MetricsStep(r)
  <2>1. UNCHANGED <<requests_total, upstream_errors>>
    BY DEF RecordTokens, counterVars
  <2>2. Broke(r)' <=> Broke(r)
    BY <1>2, <1>3 DEF Broke
  <2> QED BY <1>2, <1>3, <2>1, <2>2, RouterAssumption, QuietMetrics
<1> QED BY <1>4, <1>5, <1>6, <1>7 DEF RowStep

LEMMA RecordTpmRow ==
  ASSUME AccountInv, NEW r \in Requests, RecordTpm(r)
  PROVE  RowStep(r)
<1>1. Inv /\ TypeOK /\ ReqInv(r) /\ UsageInv(r)
  BY DEF AccountInv, Inv
<1>2. task[r] = "tpm"
  BY <1>1 DEF RecordTpm, ReqInv, LoopInv, RouteInv, TaskInv
<1>3. /\ pc'[r] = (IF pc[r] = "accounting" THEN "done" ELSE pc[r])
      /\ identity'[r] = identity[r] /\ backend'[r] = backend[r]
      /\ faults'[r] = faults[r]
      /\ (pc[r] = "accounting" => status'[r] = 200) /\ usage'[r] = usage[r]
      /\ summary'[r] = summary[r]
      /\ task'[r] = (IF pc[r] = "accounting" THEN "done" ELSE "outcome")
  BY <1>1 DEF RecordTpm, GoTo, Respond, configVars, callVars, openVars,
     counterVars, ledgerVars, CountError, TypeOK
<1>4. \A q \in Requests \ {r}: Same(q)
  BY SMTT(30), <1>1 DEF RecordTpm, GoTo, Respond, configVars, callVars, openVars,
     counterVars, ledgerVars, TypeOK, Same
<1>5. UsageInv(r)'
  BY <1>1, <1>2, <1>3 DEF UsageInv, ReqInv, TaskInv
<1>6. LedgerStep(r)
  <2>1. PICK n, u: n = identity[r].name /\ u = Billed(r)
    OBVIOUS
  <2>2. u \in Nat /\ u # NoUsage
    BY <1>1, <1>2, <2>1, GatewayAssumption DEF ReqInv, TaskInv
  <2>3. PICK old \in {tpm, [tpm EXCEPT ![n] = 0]}: tpm' = [old EXCEPT ![n] = @ + u]
    BY <2>1 DEF RecordTpm, Charge
  <2>4. /\ budget' = budget /\ tokens' = tokens
        /\ Billed(r)' = u /\ identity'[r].name = n
    BY <1>3, <2>1 DEF RecordTpm, Billed
  <2>5. ASSUME NEW k \in Names
        PROVE  /\ budget'[k] + Due(AfterBudget, k, r)
                    = budget[k] + Due(AfterBudget, k, r)'
               /\ tokens'[k] + Due(AfterTokens, k, r)
                    = tokens[k] + Due(AfterTokens, k, r)'
               /\ tpm'[k] + Due({"tpm"}, k, r)' + tokens[k]
                    <= tpm[k] + Due({"tpm"}, k, r) + tokens'[k]
    <3>1. tokens[k] \in Nat /\ tpm[k] \in Nat /\ tpm \in [Names -> Nat]
      BY <1>1 DEF TypeOK
    <3>2. /\ tpm'[k] \in Nat
          /\ k = n => tpm'[k] <= tpm[k] + u
          /\ k # n => tpm'[k] = tpm[k]
      <4>1. old \in [Names -> Nat] /\ old[k] <= tpm[k] /\ (k # n => old[k] = tpm[k])
        BY <2>3, <3>1
      <4>2. k = n => tpm'[k] = old[k] + u
        BY <2>3, <4>1
      <4>3. k # n => tpm'[k] = old[k]
        BY <2>3, <4>1
      <4>4. old[k] \in Nat
        BY <4>1
      <4>5. CASE k = n
        BY <2>2, <3>1, <4>1, <4>2, <4>4, <4>5
      <4>6. CASE k # n
        BY <3>1, <4>1, <4>3, <4>6
      <4> QED BY <4>5, <4>6
    <3>3. /\ Due(AfterBudget, k, r)' = Due(AfterBudget, k, r)
          /\ Due(AfterTokens, k, r)' = Due(AfterTokens, k, r)
          /\ Due({"tpm"}, k, r) = IF k = n THEN u ELSE 0
          /\ Due({"tpm"}, k, r)' = 0
      BY <1>2, <1>3, <2>1, <2>2, <2>4 DEF Due, AfterBudget, AfterTokens
    <3> QED BY <2>2, <2>4, <3>1, <3>2, <3>3
  <2> QED BY <2>5 DEF LedgerStep
<1>7. MetricsStep(r)
  <2>1. UNCHANGED <<requests_total, upstream_errors>>
    BY DEF RecordTpm, counterVars
  <2>2. pc[r] = "accounting" => summary[r] = <<>>
    BY <1>1 DEF ReqInv, TaskInv
  <2>3. ~Broke(r) /\ ~Broke(r)'
    BY <1>2, <1>3, <2>2 DEF Broke
  <2>4. task[r] # "none" /\ task'[r] # "none"
    BY <1>2, <1>3
  <2> QED BY <1>3, <2>1, <2>3, <2>4, QuietMetrics
<1> QED BY <1>4, <1>5, <1>6, <1>7 DEF RowStep

LEMMA RecordOutcomeRow ==
  ASSUME AccountInv, NEW r \in Requests, RecordOutcome(r)
  PROVE  RowStep(r)
<1>1. Inv /\ TypeOK /\ ReqInv(r) /\ UsageInv(r)
  BY DEF AccountInv, Inv
<1>2. task[r] = "outcome"
  BY <1>1 DEF RecordOutcome, ReqInv, LoopInv, RouteInv, TaskInv
<1>3. /\ pc'[r] = pc[r] /\ identity'[r] = identity[r]
      /\ backend'[r] = backend[r] /\ faults'[r] = faults[r]
      /\ status'[r] = status[r] /\ usage'[r] = usage[r]
      /\ summary'[r] = summary[r] /\ task'[r] = "done"
  BY <1>1 DEF RecordOutcome, GoTo, Respond, configVars, callVars, openVars,
     counterVars, ledgerVars, CountError, TypeOK
<1>4. \A q \in Requests \ {r}: Same(q)
  BY <1>1 DEF RecordOutcome, GoTo, Respond, configVars, callVars, openVars,
     counterVars, ledgerVars, TypeOK, Same
<1>5. UsageInv(r)'
  BY <1>1, <1>2, <1>3 DEF UsageInv, ReqInv, TaskInv
<1>6. LedgerStep(r)
  <2>1. UNCHANGED ledgerVars
    BY DEF RecordOutcome, ledgerVars
  <2> QED BY <1>1, <1>2, <1>3, <2>1, QuietLedger DEF Free, Billed, UsageInv
<1>7. MetricsStep(r)
  <2>1. summary[r] # <<>> /\ ~Broke(r)
    BY <1>1, <1>2 DEF UsageInv, Broke
  <2>2. Broke(r)' <=> Head(summary[r]).outcome \in {"Stalled", "UpstreamError"}
    BY <1>3, <2>1 DEF Broke
  <2>3. CASE Head(summary[r]).outcome \notin {"Stalled", "UpstreamError"}
    <3>1. UNCHANGED <<requests_total, upstream_errors>>
      BY <2>3 DEF RecordOutcome
    <3> QED BY <1>2, <1>3, <2>1, <2>2, <2>3, <3>1, QuietMetrics
  <2>4. CASE Head(summary[r]).outcome \in {"Stalled", "UpstreamError"}
    <3>1. requests_total' = requests_total /\ CountError(backend[r])
      BY <2>4 DEF RecordOutcome
    <3>2. \A b \in Positions: upstream_errors'[b] + ErrorsAt(b, r)
                                = upstream_errors[b] + ErrorsAt(b, r)'
      BY <1>1, <1>3, <2>1, <2>2, <2>4, <3>1, OneMoreError
    <3>3. \A b \in Positions: /\ Started(b, r)' <=> Started(b, r)
                              /\ RanOut(b, r)' <=> RanOut(b, r)
      BY <1>2, <1>3 DEF Started, RanOut
    <3> QED BY <3>1, <3>2, <3>3 DEF MetricsStep
  <2> QED BY <2>3, <2>4
<1> QED BY <1>4, <1>5, <1>6, <1>7 DEF RowStep

LEMMA ClientGoneRow ==
  ASSUME AccountInv, NEW r \in Requests, ClientGone(r)
  PROVE  RowStep(r)
<1>1. Inv /\ TypeOK /\ ReqInv(r) /\ UsageInv(r)
  BY DEF AccountInv, Inv
<1>2. pc[r] \in {"body", "opening", "backoff", "reading"} /\ task[r] \in {"none", "waiting"}
  BY <1>1 DEF ClientGone, ReqInv, LoopInv, RouteInv, TaskInv
<1>3. /\ pc'[r] = "gone" /\ identity'[r] = identity[r]
      /\ backend'[r] = backend[r] /\ faults'[r] = faults[r]
      /\ status'[r] = status[r] /\ usage'[r] = usage[r]
      /\ summary'[r] = summary[r]
      /\ task'[r] = (IF task[r] = "none" THEN "none" ELSE "cancelled")
  BY <1>1 DEF ClientGone, GoTo, Respond, configVars, callVars, openVars,
     counterVars, ledgerVars, CountError, TypeOK
<1>4. \A q \in Requests \ {r}: Same(q)
  BY <1>1 DEF ClientGone, GoTo, Respond, configVars, callVars, openVars,
     counterVars, ledgerVars, TypeOK, Same
<1>5. UsageInv(r)'
  BY <1>1, <1>2, <1>3 DEF UsageInv, ReqInv, TaskInv
<1>6. LedgerStep(r)
  <2>1. UNCHANGED ledgerVars
    BY DEF ClientGone, ledgerVars
  <2> QED BY <1>1, <1>2, <1>3, <2>1, QuietLedger DEF Free, Billed, UsageInv
<1>7. MetricsStep(r)
  <2>1. UNCHANGED <<requests_total, upstream_errors>>
    BY DEF ClientGone, counterVars
  <2>2. Broke(r)' <=> Broke(r)
    BY <1>2, <1>3 DEF Broke
  <2> QED BY <1>2, <1>3, <2>1, <2>2, RouterAssumption, QuietMetrics
<1> QED BY <1>4, <1>5, <1>6, <1>7 DEF RowStep

-----------------------------------------------------------------------------
(* One request's step changes a sum over the requests by its own part.      *)
LEMMA SumStep ==
  ASSUME NEW f, NEW g, NEW r \in Requests,
         \A q \in Requests: f[q] \in Nat /\ g[q] \in Nat,
         \A q \in Requests \ {r}: g[q] = f[q]
  PROVE  /\ SumFunctionOnSet(f, Requests) \in Nat
         /\ SumFunctionOnSet(g, Requests) \in Nat
         /\ SumFunctionOnSet(g, Requests) + f[r] = SumFunctionOnSet(f, Requests) + g[r]
<1>1. IsFiniteSet(Requests)
  BY GatewayAssumption
<1>2. SumFunctionOnSet(f, Requests) \in Nat /\ SumFunctionOnSet(g, Requests) \in Nat
  BY <1>1, SumType
<1>3. SumFunctionOnSet(g, Requests) = SumFunctionOnSet(f, Requests) - f[r] + g[r]
  BY <1>1, SumChange
<1> QED BY <1>2, <1>3

LEMMA TotalStep ==
  ASSUME TypeOK, TypeOK', NEW r \in Requests, \A q \in Requests \ {r}: Same(q),
         NEW stages, NEW k
  PROVE  /\ Total(stages, k) \in Nat /\ Total(stages, k)' \in Nat
         /\ Due(stages, k, r) \in Nat /\ Due(stages, k, r)' \in Nat
         /\ Total(stages, k)' + Due(stages, k, r)
              = Total(stages, k) + Due(stages, k, r)'
<1>1. PICK f, g: /\ f = [q \in Requests |-> Due(stages, k, q)]
                 /\ g = [q \in Requests |-> Due(stages, k, q)']
  OBVIOUS
<1>2. \A q \in Requests: f[q] = Due(stages, k, q) /\ g[q] = Due(stages, k, q)'
  BY <1>1
<1>3. \A q \in Requests: Due(stages, k, q) \in Nat /\ Due(stages, k, q)' \in Nat
  BY DueType, DueTypeNext DEF DueTyped
<1>4. \A q \in Requests \ {r}: Due(stages, k, q)' = Due(stages, k, q)
  BY DEF Due, Billed, Same
<1>5. /\ Total(stages, k) = SumFunctionOnSet(f, Requests)
      /\ Total(stages, k)' = SumFunctionOnSet(g, Requests)
  BY <1>1 DEF Total
<1>6. /\ SumFunctionOnSet(f, Requests) \in Nat
      /\ SumFunctionOnSet(g, Requests) \in Nat
      /\ SumFunctionOnSet(g, Requests) + f[r] = SumFunctionOnSet(f, Requests) + g[r]
  BY <1>2, <1>3, <1>4, SumStep
<1> QED BY <1>2, <1>3, <1>5, <1>6

LEMMA BooksStep ==
  ASSUME TypeOK, TypeOK', BooksInv, NEW r \in Requests, RowStep(r)
  PROVE  BooksInv'
<1> SUFFICES ASSUME NEW k \in Names
             PROVE  /\ budget'[k] = Total(AfterBudget, k)'
                    /\ tokens'[k] = Total(AfterTokens, k)'
                    /\ tpm'[k] + Total({"tpm"}, k)' <= tokens'[k]
  BY DEF BooksInv
<1>1. /\ budget[k] \in Nat /\ tokens[k] \in Nat /\ tpm[k] \in Nat
      /\ budget'[k] \in Nat /\ tokens'[k] \in Nat /\ tpm'[k] \in Nat
  BY DEF TypeOK
<1>2. \A q \in Requests \ {r}: Same(q)
  BY DEF RowStep
<1>3. /\ budget[k] = Total(AfterBudget, k) /\ tokens[k] = Total(AfterTokens, k)
      /\ tpm[k] + Total({"tpm"}, k) <= tokens[k]
  BY DEF BooksInv
<1>4. /\ budget'[k] + Due(AfterBudget, k, r) = budget[k] + Due(AfterBudget, k, r)'
      /\ tokens'[k] + Due(AfterTokens, k, r) = tokens[k] + Due(AfterTokens, k, r)'
      /\ tpm'[k] + Due({"tpm"}, k, r)' + tokens[k]
           <= tpm[k] + Due({"tpm"}, k, r) + tokens'[k]
  BY DEF RowStep, LedgerStep
<1>5. ASSUME NEW stages
      PROVE  /\ Total(stages, k) \in Nat /\ Total(stages, k)' \in Nat
             /\ Due(stages, k, r) \in Nat /\ Due(stages, k, r)' \in Nat
             /\ Total(stages, k)' + Due(stages, k, r)
                  = Total(stages, k) + Due(stages, k, r)'
  BY <1>2, TotalStep
<1>6. budget'[k] = Total(AfterBudget, k)'
  <2>1. /\ Total(AfterBudget, k) \in Nat /\ Total(AfterBudget, k)' \in Nat
        /\ Due(AfterBudget, k, r) \in Nat /\ Due(AfterBudget, k, r)' \in Nat
        /\ Total(AfterBudget, k)' + Due(AfterBudget, k, r)
             = Total(AfterBudget, k) + Due(AfterBudget, k, r)'
    BY <1>5
  <2> QED BY <1>1, <1>3, <1>4, <2>1
<1>7. tokens'[k] = Total(AfterTokens, k)'
  BY <1>1, <1>3, <1>4, <1>5
<1>8. tpm'[k] + Total({"tpm"}, k)' <= tokens'[k]
  BY <1>1, <1>3, <1>4, <1>5
<1> QED BY <1>6, <1>7, <1>8

(* A request that comes to be counted makes the count one more.             *)
LEMMA CountStep ==
  ASSUME NEW S, NEW T, IsFiniteSet(S), NEW r, NEW m \in Nat, NEW n,
         m = Cardinality(S),
         \/ n = m /\ T = S
         \/ n = m + 1 /\ T = S \cup {r} /\ r \notin S
  PROVE  n = Cardinality(T)
BY FS_AddElement

LEMMA ReconcileStep ==
  ASSUME TypeOK, TypeOK', MetricsReconcile, NEW r \in Requests, RowStep(r)
  PROVE  MetricsReconcile'
<1> SUFFICES ASSUME NEW b \in Positions
             PROVE  /\ requests_total'["2xx"][b]
                         = Cardinality({q \in Requests: Started(b, q)'})
                    /\ requests_total'["5xx"][b]
                         = Cardinality({q \in Requests: RanOut(b, q)'})
                    /\ upstream_errors'[b]
                         = SumFunctionOnSet([q \in Requests |-> ErrorsAt(b, q)'], Requests)
  BY DEF MetricsReconcile
<1>1. \A q \in Requests \ {r}: /\ Started(b, q)' <=> Started(b, q)
                               /\ RanOut(b, q)' <=> RanOut(b, q)
                               /\ ErrorsAt(b, q)' = ErrorsAt(b, q)
  <2> SUFFICES ASSUME NEW q \in Requests \ {r}
               PROVE  /\ Started(b, q)' <=> Started(b, q)
                      /\ RanOut(b, q)' <=> RanOut(b, q)
                      /\ ErrorsAt(b, q)' = ErrorsAt(b, q)
    OBVIOUS
  <2>1. Same(q)
    BY DEF RowStep
  <2>2. Broke(q)' <=> Broke(q)
    BY <2>1 DEF Same, Broke
  <2>3. /\ Started(b, q)' <=> Started(b, q)
        /\ RanOut(b, q)' <=> RanOut(b, q)
    BY <2>1 DEF Same, Started, RanOut
  <2>4. ErrorsAt(b, q)' = ErrorsAt(b, q)
    BY <2>1, <2>2 DEF Same, ErrorsAt
  <2> QED BY <2>3, <2>4
<1>2. /\ requests_total["2xx"][b] \in Nat /\ requests_total["5xx"][b] \in Nat
      /\ upstream_errors[b] \in Nat /\ upstream_errors'[b] \in Nat
  BY DEF TypeOK
<1>3. /\ IsFiniteSet({q \in Requests: Started(b, q)})
      /\ IsFiniteSet({q \in Requests: RanOut(b, q)})
  BY GatewayAssumption, FS_Subset
<1>4. requests_total'["2xx"][b] = Cardinality({q \in Requests: Started(b, q)'})
  <2>1. PICK S, T: /\ S = {q \in Requests: Started(b, q)}
                   /\ T = {q \in Requests: Started(b, q)'}
    OBVIOUS
  <2>2. requests_total["2xx"][b] = Cardinality(S) /\ IsFiniteSet(S)
    BY <1>3, <2>1 DEF MetricsReconcile
  <2>3. \/ requests_total'["2xx"][b] = requests_total["2xx"][b] /\ T = S
        \/ /\ requests_total'["2xx"][b] = requests_total["2xx"][b] + 1
           /\ T = S \cup {r} /\ r \notin S
    <3>1. CASE /\ requests_total'["2xx"][b] = requests_total["2xx"][b]
               /\ Started(b, r)' <=> Started(b, r)
      BY <1>1, <2>1, <3>1
    <3>2. CASE /\ requests_total'["2xx"][b] = requests_total["2xx"][b] + 1
               /\ Started(b, r)' /\ ~Started(b, r)
      BY <1>1, <2>1, <3>2
    <3> QED BY <3>1, <3>2 DEF RowStep, MetricsStep
  <2> QED BY <1>2, <2>1, <2>2, <2>3, CountStep
<1>5. requests_total'["5xx"][b] = Cardinality({q \in Requests: RanOut(b, q)'})
  <2>1. PICK S, T: /\ S = {q \in Requests: RanOut(b, q)}
                   /\ T = {q \in Requests: RanOut(b, q)'}
    OBVIOUS
  <2>2. requests_total["5xx"][b] = Cardinality(S) /\ IsFiniteSet(S)
    BY <1>3, <2>1 DEF MetricsReconcile
  <2>3. \/ requests_total'["5xx"][b] = requests_total["5xx"][b] /\ T = S
        \/ /\ requests_total'["5xx"][b] = requests_total["5xx"][b] + 1
           /\ T = S \cup {r} /\ r \notin S
    <3>1. CASE /\ requests_total'["5xx"][b] = requests_total["5xx"][b]
               /\ RanOut(b, r)' <=> RanOut(b, r)
      BY <1>1, <2>1, <3>1
    <3>2. CASE /\ requests_total'["5xx"][b] = requests_total["5xx"][b] + 1
               /\ RanOut(b, r)' /\ ~RanOut(b, r)
      BY <1>1, <2>1, <3>2
    <3> QED BY <3>1, <3>2 DEF RowStep, MetricsStep
  <2> QED BY <1>2, <2>1, <2>2, <2>3, CountStep
<1>6. upstream_errors'[b] = SumFunctionOnSet([q \in Requests |-> ErrorsAt(b, q)'], Requests)
  <2>1. PICK f, g: /\ f = [q \in Requests |-> ErrorsAt(b, q)]
                   /\ g = [q \in Requests |-> ErrorsAt(b, q)']
    OBVIOUS
  <2>2. \A q \in Requests: ErrorsAt(b, q) \in Nat /\ ErrorsAt(b, q)' \in Nat
    <3>1. faults \in [Requests -> Seq(Failures)] /\ faults' \in [Requests -> Seq(Failures)]
      BY DEF TypeOK
    <3>2. ASSUME NEW q \in Requests
          PROVE  ErrorsAt(b, q) \in Nat /\ ErrorsAt(b, q)' \in Nat
      <4>1. Len(faults[q]) \in Nat /\ Len(faults'[q]) \in Nat
        BY <3>1
      <4>2. PICK x, y: /\ x = IF Broke(q) THEN 1 ELSE 0
                       /\ y = IF Broke(q)' THEN 1 ELSE 0
        OBVIOUS
      <4>3. x \in Nat /\ y \in Nat
        BY <4>2
      <4>4. /\ ErrorsAt(b, q) = IF backend[q] = b THEN Len(faults[q]) + x ELSE 0
            /\ ErrorsAt(b, q)' = IF backend'[q] = b THEN Len(faults'[q]) + y ELSE 0
        BY <4>2 DEF ErrorsAt
      <4> QED BY <4>1, <4>3, <4>4
    <3> QED BY <3>2
  <2>3. /\ \A q \in Requests: f[q] \in Nat /\ g[q] \in Nat
        /\ \A q \in Requests \ {r}: g[q] = f[q]
    BY <1>1, <2>1, <2>2
  <2>4. /\ SumFunctionOnSet(f, Requests) \in Nat
        /\ SumFunctionOnSet(g, Requests) \in Nat
        /\ SumFunctionOnSet(g, Requests) + f[r] = SumFunctionOnSet(f, Requests) + g[r]
    BY <2>3, SumStep
  <2>5. upstream_errors'[b] + f[r] = upstream_errors[b] + g[r]
    BY <2>1 DEF RowStep, MetricsStep
  <2>6. upstream_errors[b] = SumFunctionOnSet(f, Requests)
    BY <2>1 DEF MetricsReconcile
  <2>7. f[r] \in Nat /\ g[r] \in Nat
    BY <2>3
  <2>8. upstream_errors'[b] = SumFunctionOnSet(g, Requests)
    BY <1>2, <2>4, <2>5, <2>6, <2>7
  <2> QED BY <2>1, <2>8
<1> QED BY <1>4, <1>5, <1>6

(* What moves when no request does.                                         *)
Settled == /\ \A r \in Requests: Same(r)
           /\ UNCHANGED <<ledgerVars, requests_total, upstream_errors>>

LEMMA NextRow ==
  ASSUME AccountInv, [Next]_vars
  PROVE  Settled \/ \E r \in Requests: RowStep(r)
<1>1. CASE UNCHANGED vars
  BY <1>1 DEF Settled, Same, vars, configVars, callVars, openVars, counterVars
<1>2. ASSUME NEW k \in Names, Refill(k) PROVE Settled
  BY <1>2 DEF Settled, Same, Refill, configVars, callVars, openVars, counterVars
<1>3. ASSUME NEW r \in Requests, NEW c \in Calls,
             Receive(r, c) \/ Unauthorized(r, c)
      PROVE  RowStep(r)
  BY <1>3, ReceiveRow, UnauthorizedRow
<1>4. ASSUME NEW r \in Requests, Admit(r) PROVE RowStep(r)
  BY <1>4, RateLimitedRow, MissingModelRow, NoEligibleBackendRow, ForwardRow
     DEF Admit
<1>5. ASSUME NEW r \in Requests, OpenFailed(r) PROVE RowStep(r)
  BY <1>5, OpenRejectedRow, OpenRetriedRow, OpenExhaustedRow DEF OpenFailed
<1>6. ASSUME NEW r \in Requests,
             GiveUp(r) \/ BackoffElapsed(r) \/ OpenSucceeded(r)
      PROVE  RowStep(r)
  BY <1>6, GiveUpRow, BackoffElapsedRow, OpenSucceededRow
<1>7. ASSUME NEW r \in Requests, RelayScan(r) \/ RelayEnd(r) PROVE RowStep(r)
  BY <1>7, RelayScanRow, RelayEndRow
<1>8. ASSUME NEW r \in Requests,
             BodyRead(r) \/ BodyWithoutUsage(r) \/ BodyFailed(r)
      PROVE  RowStep(r)
  BY <1>8, BodyReadRow, BodyWithoutUsageRow, BodyFailedRow
<1>9. ASSUME NEW r \in Requests, Account(r) PROVE RowStep(r)
  BY <1>9, TaskWokenRow, RecordBudgetRow, RecordTokensRow, RecordTpmRow,
     RecordOutcomeRow DEF Account
<1>10. ASSUME NEW r \in Requests, ClientGone(r) PROVE RowStep(r)
  BY <1>10, ClientGoneRow
<1>11. QED
  BY <1>1, <1>2, <1>3, <1>4, <1>5, <1>6, <1>7, <1>8, <1>9, <1>10 DEF Next

LEMMA UsageFrame ==
  ASSUME NEW q \in Requests, UsageInv(q), Same(q)
  PROVE  UsageInv(q)'
BY DEF UsageInv, Same

LEMMA SettledStep ==
  ASSUME Settled
  PROVE  /\ BooksInv => BooksInv'
         /\ MetricsReconcile => MetricsReconcile'
<1>1. /\ \A q \in Requests: Same(q)
      /\ budget' = budget /\ tokens' = tokens /\ tpm' = tpm
      /\ UNCHANGED <<requests_total, upstream_errors>>
  BY DEF Settled, ledgerVars
<1>2. \A stages, k: Total(stages, k)' = Total(stages, k)
  <2> SUFFICES ASSUME NEW stages, NEW k
               PROVE  Total(stages, k)' = Total(stages, k)
    OBVIOUS
  <2>1. \A q \in Requests: Due(stages, k, q)' = Due(stages, k, q)
    BY <1>1 DEF Due, Billed, Same
  <2>2. [q \in Requests |-> Due(stages, k, q)'] = [q \in Requests |-> Due(stages, k, q)]
    BY <2>1
  <2> QED BY <2>2 DEF Total
<1>3. BooksInv => BooksInv'
  BY <1>1, <1>2 DEF BooksInv
<1>4. \A b \in Positions: \A q \in Requests:
        /\ Started(b, q)' <=> Started(b, q)
        /\ RanOut(b, q)' <=> RanOut(b, q)
        /\ ErrorsAt(b, q)' = ErrorsAt(b, q)
  <2> SUFFICES ASSUME NEW b \in Positions, NEW q \in Requests
               PROVE  /\ Started(b, q)' <=> Started(b, q)
                      /\ RanOut(b, q)' <=> RanOut(b, q)
                      /\ ErrorsAt(b, q)' = ErrorsAt(b, q)
    OBVIOUS
  <2>1. Same(q)
    BY <1>1
  <2>2. Broke(q)' <=> Broke(q)
    BY <2>1 DEF Same, Broke
  <2>3. /\ Started(b, q)' <=> Started(b, q)
        /\ RanOut(b, q)' <=> RanOut(b, q)
    BY <2>1 DEF Same, Started, RanOut
  <2>4. ErrorsAt(b, q)' = ErrorsAt(b, q)
    BY <2>1, <2>2 DEF Same, ErrorsAt
  <2> QED BY <2>3, <2>4
<1>5. \A b \in Positions:
        /\ {q \in Requests: Started(b, q)'} = {q \in Requests: Started(b, q)}
        /\ {q \in Requests: RanOut(b, q)'} = {q \in Requests: RanOut(b, q)}
        /\ [q \in Requests |-> ErrorsAt(b, q)'] = [q \in Requests |-> ErrorsAt(b, q)]
  BY <1>4
<1>6. MetricsReconcile => MetricsReconcile'
  BY <1>1, <1>5 DEF MetricsReconcile
<1> QED BY <1>3, <1>6

LEMMA InitAccount == Init => AccountInv /\ BooksInv /\ MetricsReconcile
<1> SUFFICES ASSUME Init PROVE AccountInv /\ BooksInv /\ MetricsReconcile
  OBVIOUS
<1>0. IsFiniteSet(Requests)
  BY GatewayAssumption
<1>1. AccountInv
  BY InitInv DEF AccountInv, UsageInv, Init
<1>2. ASSUME NEW f, \A q \in Requests: f[q] = 0
      PROVE  SumFunctionOnSet(f, Requests) = 0
  BY <1>0, <1>2, SumZero
<1>3. BooksInv
  <2>1. \A stages, k: Total(stages, k) = 0 \/ "none" \in stages
    <3> SUFFICES ASSUME NEW stages, NEW k, "none" \notin stages
                 PROVE  Total(stages, k) = 0
      OBVIOUS
    <3>1. PICK f: f = [q \in Requests |-> Due(stages, k, q)]
      OBVIOUS
    <3>2. \A q \in Requests: f[q] = 0
      BY <3>1 DEF Due, Init
    <3> QED BY <1>2, <3>1, <3>2 DEF Total
  <2>2. \A k: Total(AfterBudget, k) = 0 /\ Total(AfterTokens, k) = 0 /\ Total({"tpm"}, k) = 0
    BY <2>1 DEF AfterBudget, AfterTokens
  <2> QED BY <2>2 DEF Init, BooksInv
<1>4. MetricsReconcile
  <2> SUFFICES ASSUME NEW b \in Positions
               PROVE  /\ requests_total["2xx"][b] = Cardinality({q \in Requests: Started(b, q)})
                      /\ requests_total["5xx"][b] = Cardinality({q \in Requests: RanOut(b, q)})
                      /\ upstream_errors[b] =
                           SumFunctionOnSet([q \in Requests |-> ErrorsAt(b, q)], Requests)
    BY DEF MetricsReconcile
  <2>1. /\ requests_total["2xx"][b] = 0 /\ requests_total["5xx"][b] = 0
        /\ upstream_errors[b] = 0
    BY DEF Init
  <2>2. {q \in Requests: Started(b, q)} = {} /\ {q \in Requests: RanOut(b, q)} = {}
    BY DEF Init, Started, RanOut
  <2>3. PICK f: f = [q \in Requests |-> ErrorsAt(b, q)]
    OBVIOUS
  <2>4. \A q \in Requests: f[q] = 0
    <3>1. \A q \in Requests: b # backend[q]
      BY RouterAssumption DEF Init
    <3> QED BY <2>3, <3>1 DEF ErrorsAt
  <2>5. SumFunctionOnSet(f, Requests) = 0
    BY <1>2, <2>4
  <2> QED BY <2>1, <2>2, <2>3, <2>5, FS_EmptySet
<1> QED BY <1>1, <1>3, <1>4

LEMMA NextAccount == AccountInv /\ [Next]_vars => AccountInv'
<1> SUFFICES ASSUME AccountInv, [Next]_vars PROVE AccountInv'
  OBVIOUS
<1>1. Inv'
  BY NextInv DEF AccountInv
<1>2. ASSUME NEW q \in Requests PROVE UsageInv(q)'
  <2>1. CASE Settled
    BY <2>1, UsageFrame DEF Settled, AccountInv
  <2>2. ASSUME NEW r \in Requests, RowStep(r) PROVE UsageInv(q)'
    BY <2>2, UsageFrame DEF RowStep, AccountInv
  <2> QED BY <2>1, <2>2, NextRow
<1> QED BY <1>1, <1>2 DEF AccountInv

LEMMA NextBooks ==
  AccountInv /\ AccountInv' /\ BooksInv /\ [Next]_vars => BooksInv'
<1> SUFFICES ASSUME AccountInv, AccountInv', BooksInv, [Next]_vars PROVE BooksInv'
  OBVIOUS
<1>1. TypeOK /\ TypeOK'
  BY DEF AccountInv, Inv
<1> QED BY <1>1, NextRow, SettledStep, BooksStep

LEMMA NextReconcile ==
  AccountInv /\ AccountInv' /\ MetricsReconcile /\ [Next]_vars => MetricsReconcile'
<1> SUFFICES ASSUME AccountInv, AccountInv', MetricsReconcile, [Next]_vars
             PROVE  MetricsReconcile'
  OBVIOUS
<1>1. TypeOK /\ TypeOK'
  BY DEF AccountInv, Inv
<1> QED BY <1>1, NextRow, SettledStep, ReconcileStep

LEMMA AlwaysAccount == Spec => []AccountInv
  BY InitAccount, NextAccount, PTL DEF Spec

(* However the requests of any number of clients interleave, each usage is  *)
(* in the budget and in the token counter exactly once, under the key that  *)
(* made the request, as soon as its task has passed there, and the minute's *)
(* window never holds more than was billed.                                 *)
THEOREM Billing == Spec => []BilledExactlyOnce
<1>1. Spec => []BooksInv
  BY InitAccount, NextBooks, AlwaysAccount, PTL DEF Spec
<1>2. AccountInv /\ BooksInv => BilledExactlyOnce
  <2> SUFFICES ASSUME AccountInv, BooksInv, NEW k \in Names
               PROVE  /\ budget[k] = Total({"tokens", "tpm", "outcome", "done"}, k)
                      /\ tokens[k] = Total({"tpm", "outcome", "done"}, k)
                      /\ tpm[k] <= tokens[k]
    BY DEF BilledExactlyOnce
  <2>1. /\ budget[k] = Total(AfterBudget, k) /\ tokens[k] = Total(AfterTokens, k)
        /\ tpm[k] + Total({"tpm"}, k) <= tokens[k]
    BY DEF BooksInv
  <2>2. tpm[k] \in Nat /\ tokens[k] \in Nat /\ TypeOK
    BY DEF AccountInv, Inv, TypeOK
  <2>3. Total({"tpm"}, k) \in Nat
    <3>1. PICK f: f = [q \in Requests |-> Due({"tpm"}, k, q)]
      OBVIOUS
    <3>2. \A q \in Requests: f[q] \in Nat
      BY <2>2, <3>1, DueType DEF DueTyped
    <3> QED BY <3>1, <3>2, GatewayAssumption, SumType DEF Total
  <2>4. tpm[k] <= tokens[k]
    BY <2>1, <2>2, <2>3
  <2> QED BY <2>1, <2>4 DEF AfterBudget, AfterTokens
<1> QED BY <1>1, <1>2, AlwaysAccount, PTL

(* The counters that GET /metrics shows agree with what happened to the     *)
(* requests, at every moment and for every backend: no response, exhausted  *)
(* request, failed attempt or broken stream is missed or counted twice.     *)
THEOREM Reconciled == Spec => []MetricsReconcile
  BY InitAccount, NextReconcile, AlwaysAccount, PTL DEF Spec

-----------------------------------------------------------------------------
(* What Candidates::select expects of a policy: an index into a list that   *)
(* is not empty.                                                            *)
Honest ==
  \A C \in SUBSET Positions: C # {} => choose(C) \subseteq 0..(Cardinality(C) - 1)

(* There are finitely many backends.                                        *)
LEMMA FinitePositions == IsFiniteSet(Positions)
<1>1. PICK n \in Int: n = Len(BackendTable)
  BY RouterAssumption
<1>2. IsFiniteSet(1..n)
  BY FS_Interval
<1> QED BY <1>1, <1>2 DEF Positions

(* StaticPriority is such a policy.                                         *)
LEMMA StaticPriorityHonest ==
  ASSUME \A C \in SUBSET Positions: choose(C) = StaticPriority(C)
  PROVE  Honest
<1> SUFFICES ASSUME NEW C \in SUBSET Positions, C # {}
             PROVE  choose(C) \subseteq 0..(Cardinality(C) - 1)
  BY DEF Honest
<1>1. IsFiniteSet(C)
  BY FinitePositions, FS_Subset
<1>2. Cardinality(C) \in Nat /\ Cardinality(C) # 0
  BY <1>1, FS_CardinalityType, FS_EmptySet
<1>3. choose(C) = {0}
  BY DEF StaticPriority
<1> QED BY <1>2, <1>3

(* An honest policy answers a list that is not empty with one of it.        *)
LEMMA HonestSelects ==
  ASSUME Honest, NEW C \in SUBSET Positions,
         NoBackend \in select(C)
  PROVE  C = {}
<1> SUFFICES ASSUME C # {} PROVE FALSE
  OBVIOUS
<1>1. IsFiniteSet(C) /\ C \subseteq Int
  <2>1. IsFiniteSet(C)
    BY FinitePositions, FS_Subset
  <2>2. C \subseteq Int
    BY DEF Positions
  <2> QED BY <2>1, <2>2
<1>2. Cardinality(C) \in Nat
  BY <1>1, FS_CardinalityType
<1>3. PICK idx \in choose(C):
        NoBackend \in IF item(C, idx) = {} THEN {NoBackend} ELSE item(C, idx)
  BY DEF select
<1>4. idx \in Nat /\ idx < Cardinality(C)
  BY <1>2 DEF Honest
<1>5. PICK c \in C: Cardinality({x \in C: x < c}) = idx
  BY <1>1, <1>4, RankSurjective
<1>6. c \in item(C, idx)
  BY <1>5 DEF item
<1>7. NoBackend \in item(C, idx)
  BY <1>3, <1>6
<1> QED BY <1>7, RouterAssumption DEF item

(* A 502 without an attempt is NoEligibleBackend's.                         *)
LEMMA RefusedRow ==
  ASSUME Inv, [Next]_vars, NEW q \in Requests,
         status'[q] = 502, opened'[q] = <<>>
  PROVE  \/ /\ status[q] = 502 /\ opened[q] = <<>>
            /\ identity'[q] = identity[q] /\ call'[q] = call[q]
         \/ NoEligibleBackend(q)
<1> DEFINE Kept == /\ status[q] = 502 /\ opened[q] = <<>>
                   /\ identity'[q] = identity[q] /\ call'[q] = call[q]
<1>0. /\ status \in [Requests -> Nat] /\ opened \in [Requests -> Seq(Positions)]
      /\ identity \in [Requests -> [name: Names, enforce_private: BOOLEAN]]
      /\ DOMAIN call = Requests
  BY DEF Inv, TypeOK
<1>a. /\ pc[q] \in {"idle", "body", "opening", "backoff"} => status[q] = 0
      /\ pc[q] \in {"opening", "exhausted", "streaming", "reading", "accounting"}
           => opened[q] # <<>>
  <2>1. /\ attempt[q] \in Nat /\ MaxRetries \in Nat /\ LoopInv(q)
    BY RowTypes, GatewayAssumption DEF Inv, ReqInv
  <2>2. pc[q] \in {"opening", "exhausted", "streaming", "reading", "accounting"}
          => Len(opened[q]) # 0
    BY <2>1 DEF LoopInv
  <2> QED BY <2>1, <2>2 DEF LoopInv
<1>1. CASE UNCHANGED vars
  BY <1>1 DEF vars, callVars, openVars
<1>2. ASSUME NEW k \in Names, Refill(k) PROVE Kept
  BY <1>2 DEF Refill, callVars, openVars
<1>3. ASSUME NEW r \in Requests, NEW c \in Calls,
             Receive(r, c) \/ Unauthorized(r, c)
      PROVE  Kept
  <2>1. CASE Receive(r, c)
    BY <1>0, <1>a, <2>1 DEF Receive, openVars
  <2>2. CASE Unauthorized(r, c)
    BY <1>0, <1>a, <2>2 DEF Unauthorized, Respond, openVars
  <2> QED BY <1>3, <2>1, <2>2
<1>4. ASSUME NEW r \in Requests, Admit(r) PROVE Kept \/ NoEligibleBackend(q)
  <2>1. CASE RateLimited(r)
    BY <1>0, <2>1 DEF RateLimited, Respond, callVars, openVars
  <2>2. CASE MissingModel(r)
    BY <1>0, <2>2 DEF MissingModel, Respond, callVars, openVars
  <2>3. CASE NoEligibleBackend(r) /\ r # q
    BY <1>0, <2>3 DEF NoEligibleBackend, Respond, callVars, openVars
  <2>4. CASE Forward(r)
    <3>1. /\ UNCHANGED <<status, call, identity>>
          /\ r # q => opened'[q] = opened[q]
      BY <1>0, <2>4 DEF Forward, callVars
    <3>2. r # q
      BY <1>a, <2>4, <3>1 DEF Forward
    <3> QED BY <3>1, <3>2
  <2> QED BY <1>4, <2>1, <2>2, <2>3, <2>4 DEF Admit
<1>5. ASSUME NEW r \in Requests, OpenFailed(r) PROVE Kept
  <2>1. /\ pc[r] = "opening" /\ UNCHANGED <<opened, call, identity>>
        /\ r # q => status'[q] = status[q]
    BY <1>0, <1>5 DEF OpenFailed, OpenRejected, OpenRetried, OpenExhausted,
       Respond, callVars
  <2> QED BY <1>a, <2>1
<1>6. ASSUME NEW r \in Requests, BackoffElapsed(r) \/ OpenSucceeded(r)
      PROVE  Kept
  <2>1. CASE BackoffElapsed(r)
    <3>1. /\ UNCHANGED <<status, call, identity>> /\ pc[r] = "backoff"
          /\ r # q => opened'[q] = opened[q]
      BY <1>0, <2>1 DEF BackoffElapsed, callVars
    <3> QED BY <1>a, <3>1
  <2>2. CASE OpenSucceeded(r)
    <3>1. /\ pc[r] = "opening" /\ UNCHANGED <<opened, call, identity>>
          /\ r # q => status'[q] = status[q]
      BY <1>0, <2>2 DEF OpenSucceeded, callVars, openVars
    <3> QED BY <1>a, <3>1
  <2> QED BY <1>6, <2>1, <2>2
<1>7. ASSUME NEW r \in Requests,
             RelayScan(r) \/ RelayEnd(r) \/ BodyRead(r) \/ ClientGone(r)
      PROVE  Kept
  BY <1>7 DEF RelayScan, RelayEnd, BodyRead, ClientGone, callVars, openVars
<1>8. ASSUME NEW r \in Requests,
             BodyWithoutUsage(r) \/ BodyFailed(r) \/ GiveUp(r)
      PROVE  Kept
  <2>1. /\ pc[r] \in {"reading", "exhausted"} /\ UNCHANGED <<opened, call, identity>>
        /\ r # q => status'[q] = status[q]
    BY <1>0, <1>8 DEF BodyWithoutUsage, BodyFailed, GiveUp, Respond, callVars,
       openVars
  <2> QED BY <1>a, <2>1
<1>9. ASSUME NEW r \in Requests, Account(r) PROVE Kept
  <2>1. CASE RecordTpm(r)
    <3>1. /\ UNCHANGED <<opened, call, identity>>
          /\ status'[q] = status[q] \/ (r = q /\ pc[q] = "accounting")
      BY <1>0, <2>1 DEF RecordTpm, Respond, callVars, openVars
    <3> QED BY <1>a, <3>1
  <2>2. CASE TaskWoken(r) \/ RecordBudget(r) \/ RecordTokens(r) \/ RecordOutcome(r)
    BY <2>2 DEF TaskWoken, RecordBudget, RecordTokens, RecordOutcome, callVars,
       openVars
  <2> QED BY <1>9, <2>1, <2>2 DEF Account
<1> HIDE DEF Kept
<1>10. Kept \/ NoEligibleBackend(q)
  BY <1>1, <1>2, <1>3, <1>4, <1>5, <1>6, <1>7, <1>8, <1>9 DEF Next, Kept
<1> QED BY <1>10 DEF Kept

(* With any policy that keeps to its list, StaticPriority among them, a     *)
(* request is told that no backend is eligible only when none is.           *)
THEOREM Refusals ==
  ASSUME Honest
  PROVE  Spec => []RefusedOnlyIfNoneEligible
<1>1. Init => RefusedOnlyIfNoneEligible
  BY DEF Init, RefusedOnlyIfNoneEligible
<1>2. Inv /\ RefusedOnlyIfNoneEligible /\ [Next]_vars => RefusedOnlyIfNoneEligible'
  <2> SUFFICES ASSUME Inv, RefusedOnlyIfNoneEligible, [Next]_vars,
                      NEW q \in Requests, status'[q] = 502, opened'[q] = <<>>
               PROVE  gather(classify(identity'[q].enforce_private),
                             [model |-> call'[q].model, required_tags |-> {}]) = {}
    BY DEF RefusedOnlyIfNoneEligible
  <2>1. CASE /\ status[q] = 502 /\ opened[q] = <<>>
             /\ identity'[q] = identity[q] /\ call'[q] = call[q]
    BY ZenonT(30), <2>1 DEF RefusedOnlyIfNoneEligible
  <2>2. CASE NoEligibleBackend(q)
    <3>1. PICK C: C = gather(classify(identity[q].enforce_private),
                             [model |-> call[q].model, required_tags |-> {}])
      OBVIOUS
    <3>2. C \in SUBSET Positions
      BY <3>1 DEF gather
    <3>3. NoBackend \in select(C)
      BY <2>2, <3>1 DEF NoEligibleBackend, Routes, route
    <3>4. C = {}
      BY <3>2, <3>3, HonestSelects
    <3>5. identity' = identity /\ call' = call
      BY <2>2 DEF NoEligibleBackend, callVars
    <3> QED BY <3>1, <3>4, <3>5
  <2>3. \/ /\ status[q] = 502 /\ opened[q] = <<>>
           /\ identity'[q] = identity[q] /\ call'[q] = call[q]
        \/ NoEligibleBackend(q)
    BY RefusedRow
  <2> QED BY <2>1, <2>2, <2>3
<1> QED BY <1>1, <1>2, Invariance, PTL DEF Spec

=============================================================================
