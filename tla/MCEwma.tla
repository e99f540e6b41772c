------------------------------- MODULE MCEwma -------------------------------
(* Ewma for TLC: a private and a shareable query, and a backend that only   *)
(* the shareable one may use in front of those that both may.               *)
EXTENDS Ewma

MCBackendTable ==
  << [privacy |-> "External", models |-> {"m"}, capability_tags |-> {}],
     [privacy |-> "Local",    models |-> {"m"}, capability_tags |-> {}],
     [privacy |-> "Local",    models |-> {"m"}, capability_tags |-> {}] >>

MCQueries == [model: {"m"}, private: BOOLEAN]
=============================================================================
