-------------------------------- MODULE Ewma --------------------------------
(***************************************************************************)
(* The EwmaLatency policy (router.rs) behind a router built with           *)
(* Router::with_policy, whose owner feeds it the latency of each answer:   *)
(* requests are routed by the averages as they are at that moment, and     *)
(* change them, or fail and do not, when they end.  observe and choose     *)
(* each run under the lock of the table and are one step.                  *)
(*                                                                         *)
(* Latencies are f64 milliseconds in the code, and whole units here: every *)
(* f64 is a multiple of the smallest one, so a unit that makes all of them *)
(* whole exists.  The arithmetic of an update is rounded, and even two     *)
(* equal latencies may average to less than either; all that is assumed of *)
(* the result is that it is off by at most Rounding.                       *)
(***************************************************************************)
EXTENDS Naturals, Sequences, FiniteSetsExt

CONSTANTS BackendTable, NoIndex, NoBackend,  \* see Router
          Requests,  \* slots for concurrent requests
          Queries,   \* what they ask for: [model, private]
          Samples,   \* latencies that are observed
          AlphaNum, AlphaDen, \* alpha = AlphaNum / AlphaDen
          Rounding   \* the error that f64 arithmetic adds in one update, at most

VARIABLES
  stats,     \* backend -> its average, for those observed so far
  inflight,  \* the backend a slot's request was sent to
  observed   \* latencies observed of each backend (history)

vars == <<stats, inflight, observed>>

(* Mutant of score: a backend without samples is taken for the slowest.     *)
scorePessimistic(b) ==
  IF b \in DOMAIN stats THEN stats[b] ELSE Max(Samples) + 1

(* Unseen backends score 0.                                                 *)
score(b) == IF b \in DOMAIN stats THEN stats[b] ELSE 0

(* Policy for EwmaLatency: min_by returns the first of the lowest.          *)
choose(candidates) ==
  IF candidates = {}
  THEN {NoIndex}
  ELSE LET lowest == Min({score(b): b \in candidates})
           chosen == Min({b \in candidates: score(b) = lowest})
       IN  {Cardinality({b \in candidates: b < chosen})}

R == INSTANCE Router WITH choose <- choose

(* Config validation admits no other alpha; and no answer takes no time, so *)
(* that a score of 0 is that of an unseen backend (a product of positive    *)
(* numbers far from the smallest f64 does not round to 0).                  *)
ASSUME EwmaAssumption ==
  /\ Len(BackendTable) \in Nat /\ NoBackend \notin R!Positions
  /\ AlphaDen \in Nat /\ AlphaNum \in 1..AlphaDen
  /\ Samples \subseteq Nat \ {0} /\ Samples # {}
  /\ Rounding \in Nat \ {0}

TypeOK ==
  /\ DOMAIN stats \subseteq R!Positions
  /\ \A b \in DOMAIN stats: stats[b] \in Nat \ {0}
  /\ inflight \in [Requests -> R!Positions \cup {NoBackend}]
  /\ observed \in [R!Positions -> SUBSET Samples]

(* EwmaLatency::new and Router::with_policy.                                *)
Init ==
  /\ stats = <<>>
  /\ inflight = [r \in Requests |-> NoBackend]
  /\ observed = [b \in R!Positions |-> {}]

(* Router::route, and the request is sent.                                  *)
Route(r, q) ==
  /\ inflight[r] = NoBackend
  /\ \E b \in R!route([model |-> q.model, required_tags |-> {}], q.private)
                \ {NoBackend}:
       inflight' = [inflight EXCEPT ![r] = b]
  /\ UNCHANGED <<stats, observed>>

(* What alpha * sample + (1 - alpha) * old may give, rounding included.     *)
mixed(sample, old) ==
  LET exact == AlphaNum * sample + (AlphaDen - AlphaNum) * old
  IN  {v \in 1..(exact \div AlphaDen + Rounding):
         exact <= AlphaDen * (v + Rounding)}

(* Mutants of average: the first sample is averaged with nothing; alpha - 1 *)
(* for 1 - alpha.                                                           *)
averageFromZero(b, sample) == mixed(sample, score(b))

averageInverted(b, sample) ==
  IF b \in DOMAIN stats
  THEN {(AlphaNum * sample) \div AlphaDen - ((AlphaDen - AlphaNum) * stats[b])}
  ELSE {sample}

average(b, sample) ==
  IF b \in DOMAIN stats THEN mixed(sample, stats[b]) ELSE {sample}

(* EwmaLatency::observe, when the answer is there.                          *)
observe(b, sample) ==
  /\ \E v \in average(b, sample):
       stats' = [c \in DOMAIN stats \cup {b} |-> IF c = b THEN v ELSE stats[c]]
  /\ observed' = [observed EXCEPT ![b] = @ \cup {sample}]

Answer(r, sample) ==
  /\ inflight[r] # NoBackend
  /\ observe(inflight[r], sample)
  /\ inflight' = [inflight EXCEPT ![r] = NoBackend]

(* A request that fails has no latency.                                     *)
Fail(r) ==
  /\ inflight[r] # NoBackend
  /\ inflight' = [inflight EXCEPT ![r] = NoBackend]
  /\ UNCHANGED <<stats, observed>>

Next ==
  \E r \in Requests: \/ \E q \in Queries: Route(r, q)
                     \/ \E sample \in Samples: Answer(r, sample)
                     \/ Fail(r)

Spec == Init /\ [][Next]_vars

-----------------------------------------------------------------------------
(* Each average is computed from the one before, with the error that it     *)
(* carries: however many samples of overlapping requests are mixed, these   *)
(* errors do not add up. A backend's average never leaves the range from    *)
(* its fastest to its slowest answer by more than 1 / alpha times the error *)
(* of one update.                                                           *)
NoDrift ==
  \A b \in DOMAIN stats:
    /\ observed[b] # {}
    /\ AlphaNum * Min(observed[b]) <= AlphaNum * stats[b] + AlphaDen * Rounding
    /\ AlphaNum * stats[b] <= AlphaNum * Max(observed[b]) + AlphaDen * Rounding

(* Every kind of query keeps coming, requests end, and a backend that is    *)
(* asked again and again answers at some time.                              *)
Traffic ==
  /\ \A q \in Queries: SF_vars(\E r \in Requests: Route(r, q))
  /\ \A b \in R!Positions:
       SF_vars(\E r \in Requests, sample \in Samples:
                 inflight[r] = b /\ Answer(r, sample))

(* "cold backends get probed instead of starved" (router.rs:247-249): a     *)
(* backend that is eligible for some query is tried and observed in the     *)
(* end, however fast the others are and whatever is ahead of it.            *)
ColdProbed ==
  Traffic =>
    \A b \in R!Positions:
      (\E q \in Queries:
         b \in R!gather(R!classify(q.private),
                        [model |-> q.model, required_tags |-> {}]))
        => <>(b \in DOMAIN stats)
=============================================================================
