----------------------------- MODULE MCGateway -----------------------------
(* Gateway for TLC: three backends, two keys, and the calls that reach every *)
(* branch of the handler.                                                    *)
EXTENDS Gateway, TLC

CONSTANTS m1, m2

(* An External backend comes first, so that priority and privacy disagree.  *)
MCBackendTable ==
  << [privacy |-> "External", models |-> {m1},     capability_tags |-> {}],
     [privacy |-> "Local",    models |-> {m1},     capability_tags |-> {}],
     [privacy |-> "External", models |-> {m2},     capability_tags |-> {}] >>

(* A policy that may answer anything, in range or not.                      *)
AnyChoice(candidates) == 0..Len(BackendTable) \cup {NoIndex}

MCNames == {"secret", "open", "anonymous"}

MCKeyStores ==
  { <<>>,
    "t1" :> [name |-> "secret", enforce_private |-> TRUE] @@
    "t2" :> [name |-> "open", enforce_private |-> FALSE] }

MCRateLimits ==
  { [k \in MCNames |-> Unlimited],
    [k \in MCNames |-> IF k = "secret" THEN 1 ELSE 0] }

Call(t, m, s) == [token |-> t, model |-> m, stream |-> s]

MCCalls == { Call("t1", m1, TRUE), Call("t1", m2, FALSE), Call("t2", m1, FALSE),
             Call("t2", m2, TRUE), Call("t1", NoModel, TRUE), Call("t3", m1, TRUE) }

(* For liveness: one key table and one limit table, and fewer calls.        *)
LiveKeyStores == {ks \in MCKeyStores: DOMAIN ks # {}}

LiveRateLimits == {[k \in MCNames |-> 1]}

LiveCalls == {Call("t1", m1, TRUE), Call("t2", m1, FALSE), Call("t1", m2, TRUE)}

Symmetry == Permutations(Requests)
=============================================================================
