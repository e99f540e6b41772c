----------------------------- MODULE MCMetrics -----------------------------
(* Metrics for TLC: label values that collide unless they are escaped, and  *)
(* one recording of each kind.                                              *)
EXTENDS Metrics

Plain  == <<"a">>
Nested == <<Quote, ",model=", Quote>>

MCCalls ==
  { record_request(<<>>, Nested, <<"2xx">>),
    record_request(Nested, <<>>, <<"2xx">>),
    record_upstream_error(<<Newline>>),
    record_upstream_error(<<Backslash, "n">>),
    record_tokens(Plain, [prompt_tokens |-> 1, completion_tokens |-> 0,
                          total_tokens |-> 1]),
    record_rate_limit_rejection(Plain),
    record_budget_rejection(Plain) }

Symmetry == Permutations(Threads)
=============================================================================
