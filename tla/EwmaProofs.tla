----------------------------- MODULE EwmaProofs -----------------------------
(***************************************************************************)
(* The rounding of EwmaLatency's averages does not add up, for every alpha *)
(* that the configuration admits and every bound on the error of one       *)
(* update, and its answer, an index into a list that others build, leads   *)
(* to the fastest candidate.                                               *)
(***************************************************************************)
EXTENDS Ewma, DataTheorems

(* y is no further above x than the errors of all updates together: with    *)
(* the error of one update divided by alpha.                                *)
Near(y, x) == AlphaNum * y <= AlphaNum * x + AlphaDen * Rounding

(* The average of a backend lies near the range of two of its samples,      *)
(* which in turn bound all of them.                                         *)
Bracketed(b) ==
  \E lo \in observed[b], hi \in observed[b]:
    /\ \A sample \in observed[b]: lo <= sample /\ sample <= hi
    /\ Near(lo, stats[b]) /\ Near(stats[b], hi)

(* A backend without an average has no samples.                             *)
IInv ==
  /\ TypeOK
  /\ \A b \in DOMAIN stats: Bracketed(b)
  /\ \A b \in R!Positions \ DOMAIN stats: observed[b] = {}

-----------------------------------------------------------------------------
(* One update, with a new error of r: if the old average is at most d * r   *)
(* / a above hi, the new one is as well (a / d is alpha, c its complement). *)
LEMMA ErrorAbove ==
  ASSUME NEW a \in Nat, NEW c \in Nat, NEW d \in Nat, d = a + c, d > 0,
         NEW r \in Nat, NEW x \in Nat, NEW y \in Nat, NEW v \in Nat,
         NEW hi \in Nat, x <= hi, a * y <= a * hi + d * r,
         d * v <= a * x + c * y + d * r
  PROVE  a * v <= a * hi + d * r
<1> DEFINE m == a * hi + d * r
<1>1. m \in Nat /\ a * v \in Nat /\ a * x \in Nat /\ a * y \in Nat
      /\ c * y \in Nat /\ d * r \in Nat /\ d * v \in Nat /\ a * hi \in Nat
  OBVIOUS
<1>2. a * (d * v) <= a * (a * x + c * y + d * r)
  BY <1>1
<1>3. a * (a * x + c * y + d * r) = a * (a * x) + c * (a * y) + a * (d * r)
  BY <1>1
<1>4. a * (a * x) <= a * (a * hi)
  <2>1. a * x <= a * hi
    OBVIOUS
  <2> QED BY <1>1, <2>1
<1>5. c * (a * y) <= c * m
  BY <1>1
<1>6. a * (a * hi) + c * m + a * (d * r) = d * m
  <2>1. d * m = a * m + c * m
    BY <1>1
  <2>2. a * m = a * (a * hi) + a * (d * r)
    BY <1>1
  <2>3. a * m \in Nat /\ c * m \in Nat /\ a * (a * hi) \in Nat /\ a * (d * r) \in Nat
    BY <1>1
  <2> QED BY <2>1, <2>2, <2>3
<1>7. d * (a * v) <= d * m
  <2>1. a * (d * v) = d * (a * v)
    BY <1>1
  <2>2. /\ a * (d * v) \in Nat /\ a * (a * x) \in Nat /\ c * (a * y) \in Nat
        /\ a * (d * r) \in Nat /\ a * (a * hi) \in Nat /\ c * m \in Nat
        /\ d * m \in Nat
    BY <1>1
  <2> HIDE DEF m
  <2> QED BY <1>2, <1>3, <1>4, <1>5, <1>6, <2>1, <2>2
<1> HIDE DEF m
<1>8. a * v <= m
  <2> SUFFICES ASSUME m + 1 <= a * v PROVE FALSE
    BY <1>1
  <2>1. d * (m + 1) <= d * (a * v)
    BY <1>1
  <2>2. d * (m + 1) = d * m + d /\ d * m \in Nat /\ d * (a * v) \in Nat
    BY <1>1
  <2> QED BY <1>7, <2>1, <2>2
<1> QED BY <1>8 DEF m

(* The same below: the old average, and the new one, reach lo but for that  *)
(* much.                                                                    *)
LEMMA ErrorBelow ==
  ASSUME NEW a \in Nat, NEW c \in Nat, NEW d \in Nat, d = a + c, d > 0,
         NEW r \in Nat, NEW x \in Nat, NEW y \in Nat, NEW v \in Nat,
         NEW lo \in Nat, lo <= x, a * lo <= a * y + d * r,
         a * x + c * y <= d * (v + r)
  PROVE  a * lo <= a * v + d * r
<1>1. /\ a * lo \in Nat /\ a * v \in Nat /\ a * x \in Nat /\ a * y \in Nat
      /\ c * y \in Nat /\ d * r \in Nat /\ d * v \in Nat
  OBVIOUS
<1>2. a * (a * x + c * y) <= a * (d * v + d * r)
  <2>1. d * (v + r) = d * v + d * r
    OBVIOUS
  <2> QED BY <1>1, <2>1
<1>3. /\ a * (a * x + c * y) = a * (a * x) + c * (a * y)
      /\ a * (d * v + d * r) = d * (a * v) + a * (d * r)
  BY <1>1
<1>4. a * (a * lo) <= a * (a * x)
  <2>1. a * lo <= a * x
    OBVIOUS
  <2> QED BY <1>1, <2>1
<1>5. c * (a * lo) <= c * (a * y) + c * (d * r)
  <2>1. c * (a * lo) <= c * (a * y + d * r)
    BY <1>1
  <2>2. c * (a * y + d * r) = c * (a * y) + c * (d * r)
    BY <1>1
  <2> QED BY <2>1, <2>2
<1>6. /\ d * (a * lo) = a * (a * lo) + c * (a * lo)
      /\ d * (d * r) = a * (d * r) + c * (d * r)
      /\ d * (a * v + d * r) = d * (a * v) + d * (d * r)
  BY <1>1
<1>7. d * (a * lo) <= d * (a * v + d * r)
  <2>1. /\ a * (a * x) \in Nat /\ c * (a * y) \in Nat /\ d * (a * v) \in Nat
        /\ a * (d * r) \in Nat /\ c * (d * r) \in Nat /\ a * (a * lo) \in Nat
        /\ c * (a * lo) \in Nat /\ d * (d * r) \in Nat /\ d * (a * lo) \in Nat
        /\ d * (a * v + d * r) \in Nat
    BY <1>1
  <2> QED BY <1>2, <1>3, <1>4, <1>5, <1>6, <2>1
<1> DEFINE m == a * v + d * r
           w == a * lo
<1>8. m \in Nat /\ w \in Nat /\ d * w <= d * m
  BY <1>1, <1>7
<1> HIDE DEF m, w
<1>9. w <= m
  <2> SUFFICES ASSUME m + 1 <= w PROVE FALSE
    BY <1>8
  <2>1. d * (m + 1) <= d * w
    BY <1>8
  <2>2. d * (m + 1) = d * m + d /\ d * m \in Nat /\ d * w \in Nat
    BY <1>8
  <2> QED BY <1>8, <2>1, <2>2
<1> QED BY <1>9 DEF m, w

(* What an update may give, as inequalities.                                *)
LEMMA MixedBounds ==
  ASSUME NEW x \in Nat, NEW y \in Nat, NEW v \in mixed(x, y)
  PROVE  /\ v \in Nat \ {0}
         /\ AlphaDen * v <= AlphaNum * x + (AlphaDen - AlphaNum) * y
                              + AlphaDen * Rounding
         /\ AlphaNum * x + (AlphaDen - AlphaNum) * y <= AlphaDen * (v + Rounding)
<1> DEFINE exact == AlphaNum * x + (AlphaDen - AlphaNum) * y
           q == exact \div AlphaDen
<1>1. /\ AlphaDen \in Nat \ {0} /\ AlphaNum \in Nat /\ Rounding \in Nat
      /\ AlphaDen - AlphaNum \in Nat
  BY EwmaAssumption
<1>2. exact \in Nat
  <2>1. AlphaNum * x \in Nat /\ (AlphaDen - AlphaNum) * y \in Nat
    BY <1>1
  <2> QED BY <2>1
<1>3. /\ v \in 1..(q + Rounding)
      /\ exact <= AlphaDen * (v + Rounding)
  BY DEF mixed
<1> HIDE DEF exact
<1>4. q \in Nat /\ AlphaDen * q <= exact
  BY <1>1, <1>2
<1> HIDE DEF q
<1>5. v \in Nat \ {0} /\ v <= q + Rounding
  BY <1>1, <1>3, <1>4
<1>6. AlphaDen * v <= AlphaDen * (q + Rounding)
  BY <1>1, <1>4, <1>5
<1>7. AlphaDen * (q + Rounding) = AlphaDen * q + AlphaDen * Rounding
  BY <1>1, <1>4
<1>8. AlphaDen * v <= exact + AlphaDen * Rounding
  <2>1. AlphaDen * v \in Nat /\ AlphaDen * q \in Nat /\ AlphaDen * Rounding \in Nat
    BY <1>1, <1>4, <1>5
  <2> QED BY <1>2, <1>4, <1>6, <1>7, <2>1
<1> QED BY <1>3, <1>5, <1>8 DEF exact

(* Candidates::select gives a backend of the list or none.                  *)
LEMMA SelectFromList ==
  ASSUME NEW C
  PROVE  R!select(C) \subseteq C \cup {NoBackend}
<1>1. \A idx: R!item(C, idx) \subseteq C
  BY DEF R!item
<1> QED
  BY <1>1 DEF R!select

LEMMA RouteInTable ==
  ASSUME NEW query, NEW private
  PROVE  R!route(query, private) \subseteq R!Positions \cup {NoBackend}
BY SelectFromList DEF R!route, R!gather

LEMMA SamplesAreNat == \A sample \in Samples: sample \in Nat \ {0}
BY EwmaAssumption

LEMMA InitIInv == Init => IInv
<1> SUFFICES ASSUME Init PROVE IInv
  OBVIOUS
<1>1. DOMAIN stats = {}
  BY DEF Init
<1> QED
  BY <1>1 DEF IInv, TypeOK, Init

(* Route and Fail leave the averages alone.                                 *)
LEMMA InflightStep ==
  ASSUME IInv, inflight' \in [Requests -> R!Positions \cup {NoBackend}],
         UNCHANGED <<stats, observed>>
  PROVE  IInv'
<1>1. TypeOK'
  BY DEF IInv, TypeOK, R!Positions
<1> QED
  BY <1>1 DEF IInv, Bracketed, Near, R!Positions

(* A sample is averaged into what was there, or is the first.               *)
LEMMA ObserveStep ==
  ASSUME IInv, NEW b \in R!Positions, NEW sample \in Samples, observe(b, sample)
  PROVE  /\ DOMAIN stats' = DOMAIN stats \cup {b}
         /\ \A c \in DOMAIN stats \ {b}: stats'[c] = stats[c]
         /\ stats'[b] \in Nat \ {0}
         /\ observed' \in [R!Positions -> SUBSET Samples]
         /\ observed'[b] = observed[b] \cup {sample}
         /\ \A c \in R!Positions \ {b}: observed'[c] = observed[c]
         /\ Bracketed(b)'
<1>1. /\ DOMAIN stats' = DOMAIN stats \cup {b}
      /\ \A c \in DOMAIN stats \ {b}: stats'[c] = stats[c]
      /\ stats'[b] \in average(b, sample)
  BY DEF observe
<1>2. observed \in [R!Positions -> SUBSET Samples]
  BY DEF IInv, TypeOK
<1>3. /\ observed' \in [R!Positions -> SUBSET Samples]
      /\ observed'[b] = observed[b] \cup {sample}
      /\ \A c \in R!Positions \ {b}: observed'[c] = observed[c]
  BY <1>2 DEF observe
<1>4. sample \in Nat \ {0} /\ \A s \in observed[b]: s \in Nat
  BY <1>2, SamplesAreNat
<1>0. /\ AlphaNum \in Nat /\ AlphaDen \in Nat \ {0} /\ Rounding \in Nat
      /\ AlphaDen - AlphaNum \in Nat
      /\ AlphaDen = AlphaNum + (AlphaDen - AlphaNum)
  BY EwmaAssumption
<1>9. ASSUME NEW x \in Nat PROVE Near(x, x)
  <2>1. AlphaNum * x \in Nat /\ AlphaDen * Rounding \in Nat
    BY <1>0
  <2> QED BY <2>1 DEF Near
<1>5. CASE b \notin DOMAIN stats
  <2>1. observed'[b] = {sample}
    BY <1>3, <1>5 DEF IInv
  <2>2. stats'[b] = sample
    BY <1>1, <1>5 DEF average
  <2>3. Bracketed(b)'
    <3>1. Near(sample, sample)
      BY <1>4, <1>9
    <3>2. /\ \A s \in observed'[b]: sample <= s /\ s <= sample
          /\ Near(sample, stats[b])' /\ Near(stats[b], sample)'
      BY <1>4, <2>1, <2>2, <3>1 DEF Near
    <3> QED BY <2>1, <3>2 DEF Bracketed
  <2> QED BY <1>1, <1>3, <1>4, <2>2, <2>3
<1>6. CASE b \in DOMAIN stats
  <2>1. PICK lo \in observed[b], hi \in observed[b]:
          /\ \A s \in observed[b]: lo <= s /\ s <= hi
          /\ Near(lo, stats[b]) /\ Near(stats[b], hi)
    BY <1>6 DEF IInv, Bracketed
  <2> DEFINE lo2 == IF sample < lo THEN sample ELSE lo
             hi2 == IF sample > hi THEN sample ELSE hi
  <2>2. lo \in Nat /\ hi \in Nat /\ stats[b] \in Nat
    BY <1>4, <1>6 DEF IInv, TypeOK
  <2>3. /\ lo2 \in Nat /\ hi2 \in Nat
        /\ lo2 <= sample /\ sample <= hi2 /\ lo2 <= lo /\ hi <= hi2
    BY <1>4, <2>2
  <2>4. lo2 \in observed'[b] /\ hi2 \in observed'[b]
    BY <1>3
  <2>5. \A s \in observed'[b]: lo2 <= s /\ s <= hi2
    BY <1>3, <1>4, <2>1, <2>2
  <2> HIDE DEF lo2, hi2
  <2>6. /\ AlphaNum * lo2 <= AlphaNum * stats[b] + AlphaDen * Rounding
        /\ AlphaNum * stats[b] <= AlphaNum * hi2 + AlphaDen * Rounding
    <3>1. AlphaNum * lo2 <= AlphaNum * lo /\ AlphaNum * hi <= AlphaNum * hi2
      BY <1>0, <2>2, <2>3
    <3>2. /\ AlphaNum * lo <= AlphaNum * stats[b] + AlphaDen * Rounding
          /\ AlphaNum * stats[b] <= AlphaNum * hi + AlphaDen * Rounding
      BY <2>1 DEF Near
    <3>3. /\ AlphaNum * lo2 \in Nat /\ AlphaNum * lo \in Nat
          /\ AlphaNum * hi \in Nat /\ AlphaNum * hi2 \in Nat
          /\ AlphaNum * stats[b] \in Nat /\ AlphaDen * Rounding \in Nat
      BY <1>0, <2>2, <2>3
    <3> QED BY <3>1, <3>2, <3>3
  <2>7. PICK v \in mixed(sample, stats[b]): v = stats'[b]
    BY <1>1, <1>6 DEF average
  <2>8. /\ v \in Nat \ {0}
        /\ AlphaDen * v <= AlphaNum * sample + (AlphaDen - AlphaNum) * stats[b]
                             + AlphaDen * Rounding
        /\ AlphaNum * sample + (AlphaDen - AlphaNum) * stats[b]
             <= AlphaDen * (v + Rounding)
    BY <1>4, <2>2, MixedBounds
  <2>9. /\ AlphaNum * lo2 <= AlphaNum * v + AlphaDen * Rounding
        /\ AlphaNum * v <= AlphaNum * hi2 + AlphaDen * Rounding
    <3> DEFINE c == AlphaDen - AlphaNum
    <3>1. c \in Nat /\ AlphaDen = AlphaNum + c /\ AlphaDen > 0
      BY <1>0
    <3>2. /\ AlphaDen * v <= AlphaNum * sample + c * stats[b] + AlphaDen * Rounding
          /\ AlphaNum * sample + c * stats[b] <= AlphaDen * (v + Rounding)
      BY <2>8
    <3> HIDE DEF c
    <3>3. AlphaNum * v <= AlphaNum * hi2 + AlphaDen * Rounding
      BY <1>0, <1>4, <2>2, <2>3, <2>6, <2>8, <3>1, <3>2, ErrorAbove
    <3>4. AlphaNum * lo2 <= AlphaNum * v + AlphaDen * Rounding
      BY <1>0, <1>4, <2>2, <2>3, <2>6, <2>8, <3>1, <3>2, ErrorBelow
    <3> QED BY <3>3, <3>4
  <2>10. Bracketed(b)'
    <3>1. Near(lo2, stats[b])' /\ Near(stats[b], hi2)'
      BY <2>7, <2>9 DEF Near, lo2, hi2
    <3> QED BY <2>4, <2>5, <3>1 DEF Bracketed
  <2> QED BY <1>1, <1>3, <2>7, <2>8, <2>10
<1> QED BY <1>5, <1>6

LEMMA NextIInv == IInv /\ [Next]_vars => IInv'
<1> SUFFICES ASSUME IInv, [Next]_vars PROVE IInv'
  OBVIOUS
<1>1. ASSUME NEW r \in Requests, NEW q \in Queries, Route(r, q)
      PROVE  IInv'
  <2>1. PICK b \in R!route([model |-> q.model, required_tags |-> {}], q.private):
          inflight' = [inflight EXCEPT ![r] = b]
    BY <1>1 DEF Route
  <2>2. b \in R!Positions \cup {NoBackend}
    BY RouteInTable
  <2> QED BY <1>1, <2>1, <2>2, InflightStep DEF Route, IInv, TypeOK
<1>2. ASSUME NEW r \in Requests, NEW sample \in Samples, Answer(r, sample)
      PROVE  IInv'
  <2>1. PICK b \in R!Positions: b = inflight[r]
    BY <1>2 DEF Answer, IInv, TypeOK
  <2>2. observe(b, sample)
    BY <1>2, <2>1 DEF Answer
  <2>3. inflight' \in [Requests -> R!Positions \cup {NoBackend}]
    BY <1>2 DEF Answer, IInv, TypeOK
  <2>0. /\ DOMAIN stats' = DOMAIN stats \cup {b}
        /\ \A c \in DOMAIN stats \ {b}: stats'[c] = stats[c]
        /\ stats'[b] \in Nat \ {0}
        /\ observed' \in [R!Positions -> SUBSET Samples]
        /\ \A c \in R!Positions \ {b}: observed'[c] = observed[c]
        /\ Bracketed(b)'
    BY <2>1, <2>2, ObserveStep
  <2>4. TypeOK'
    BY <2>0, <2>1, <2>3 DEF IInv, TypeOK, R!Positions
  <2>5. \A c \in DOMAIN stats': Bracketed(c)'
    <3> SUFFICES ASSUME NEW c \in DOMAIN stats', c # b PROVE Bracketed(c)'
      BY <2>0
    <3>1. c \in DOMAIN stats /\ c \in R!Positions
      BY <2>0 DEF IInv, TypeOK
    <3>2. stats'[c] = stats[c] /\ observed'[c] = observed[c] /\ Bracketed(c)
      BY <2>0, <3>1 DEF IInv
    <3> QED BY <3>2 DEF Bracketed, Near
  <2>6. \A c \in R!Positions \ DOMAIN stats': observed'[c] = {}
    BY <2>0 DEF IInv
  <2> QED BY <2>4, <2>5, <2>6 DEF IInv, R!Positions
<1>3. ASSUME NEW r \in Requests, Fail(r)
      PROVE  IInv'
  BY <1>3, InflightStep DEF Fail, IInv, TypeOK
<1>4. ASSUME UNCHANGED vars
      PROVE  IInv'
  BY <1>4, InflightStep DEF vars, IInv, TypeOK
<1> QED
  BY <1>1, <1>2, <1>3, <1>4 DEF Next

LEMMA AlwaysIInv == Spec => []IInv
BY InitIInv, NextIInv, PTL DEF Spec

-----------------------------------------------------------------------------
(* The averages and the requests in flight keep their types: a backend that *)
(* is observed is one of the table.                                         *)
THEOREM TypeCorrect == Spec => []TypeOK
<1>1. IInv => TypeOK
  BY DEF IInv
<1> QED BY <1>1, AlwaysIInv, PTL

(* The errors of EwmaLatency::observe's arithmetic do not add up: each      *)
(* average stays between the fastest and the slowest answer of its backend  *)
(* but for 1 / alpha times the error of one update, for every alpha in      *)
(* (0, 1], any number of updates and whatever the order in which            *)
(* overlapping requests end.                                                *)
THEOREM ErrorsDoNotAddUp == Spec => []NoDrift
<1>1. IInv => NoDrift
  <2> SUFFICES ASSUME IInv, NEW b \in DOMAIN stats
               PROVE  /\ observed[b] # {}
                      /\ AlphaNum * Min(observed[b])
                           <= AlphaNum * stats[b] + AlphaDen * Rounding
                      /\ AlphaNum * stats[b]
                           <= AlphaNum * Max(observed[b]) + AlphaDen * Rounding
    BY DEF NoDrift
  <2>1. PICK lo \in observed[b], hi \in observed[b]:
          /\ \A s \in observed[b]: lo <= s /\ s <= hi
          /\ Near(lo, stats[b]) /\ Near(stats[b], hi)
    BY DEF IInv, Bracketed
  <2>2. stats[b] \in Nat /\ \A s \in observed[b]: s \in Nat
    BY SamplesAreNat DEF IInv, TypeOK
  <2>3. Min(observed[b]) = lo
    <3>1. \A y \in observed[b]: lo <= y
      BY <2>1
    <3>2. Min(observed[b]) \in observed[b] /\ \A y \in observed[b]: Min(observed[b]) <= y
      BY <3>1 DEF Min
    <3> QED BY <2>2, <3>1, <3>2
  <2>4. Max(observed[b]) = hi
    <3>1. \A y \in observed[b]: hi >= y
      BY <2>1, <2>2
    <3>2. /\ Max(observed[b]) \in observed[b]
          /\ \A y \in observed[b]: Max(observed[b]) >= y
      BY <3>1 DEF Max
    <3> QED BY <2>2, <3>1, <3>2
  <2> QED BY <2>1, <2>3, <2>4 DEF Near
<1> QED BY <1>1, AlwaysIInv, PTL

-----------------------------------------------------------------------------
(* The candidates of a request.                                             *)
Candidates(q) ==
  R!gather(R!classify(q.private), [model |-> q.model, required_tags |-> {}])

(* A request is sent to the candidate with the lowest score, the first in   *)
(* the table of those that share it.                                        *)
SentToFastest ==
  \A r \in Requests, q \in Queries:
    Route(r, q) =>
      /\ inflight'[r] \in Candidates(q)
      /\ \A c \in Candidates(q):
           \/ score(inflight'[r]) < score(c)
           \/ score(inflight'[r]) = score(c) /\ inflight'[r] <= c

(* The router counts as this module does.                                   *)
LEMMA SameCardinality == \A S: R!Cardinality(S) = Cardinality(S)
BY DEF R!Cardinality, Cardinality

LEMMA ScoreIsNat ==
  ASSUME TypeOK, NEW b
  PROVE  score(b) \in Nat
BY DEF TypeOK, score

(* The index that choose() computes leads back to the candidate it is of.   *)
LEMMA SelectsFastest ==
  ASSUME TypeOK, NEW C, C \subseteq R!Positions, C # {}
  PROVE  \E b \in C:
           /\ R!select(C) = {b}
           /\ \A c \in C: score(b) < score(c) \/ (score(b) = score(c) /\ b <= c)
<1> DEFINE lowest == Min({score(b): b \in C})
           best == {b \in C: score(b) = lowest}
           chosen == Min(best)
           rank(b) == Cardinality({d \in C: d < b})
<1>1. IsFiniteSet(C) /\ C \subseteq Int
  <2>1. IsFiniteSet(R!Positions) /\ R!Positions \subseteq Int
    BY EwmaAssumption, FS_Interval DEF R!Positions
  <2> QED BY <2>1, FS_Subset
<1>2. lowest \in {score(b): b \in C} /\ \A c \in C: lowest <= score(c)
  <2> DEFINE scores == {score(b): b \in C}
  <2>1. IsFiniteSet(scores)
    <3> DEFINE f == [b \in C |-> score(b)]
    <3>1. f \in Surjection(C, scores)
      BY DEF Surjection
    <3> HIDE DEF f, scores
    <3> QED BY <1>1, <3>1, FS_Surjection
  <2>2. scores \subseteq Int /\ scores # {}
    BY ScoreIsNat
  <2>3. \A c \in C: score(c) \in scores
    OBVIOUS
  <2> HIDE DEF scores
  <2>4. Min(scores) \in scores /\ \A x \in scores: Min(scores) <= x
    BY <2>1, <2>2, MinProperty
  <2> QED BY <2>3, <2>4 DEF scores
<1> HIDE DEF lowest
<1>3. chosen \in best /\ \A b \in best: chosen <= b
  <2>1. IsFiniteSet(best) /\ best \subseteq Int /\ best # {}
    BY <1>1, <1>2, FS_Subset
  <2> HIDE DEF best
  <2> QED BY <2>1, MinProperty
<1>4. chosen \in C /\ score(chosen) = lowest
  BY <1>3
<1>5. choose(C) = {rank(chosen)}
  BY DEF choose, lowest
<1> HIDE DEF chosen
<1>6. R!item(C, rank(chosen)) = {chosen}
  <2>1. \A c \in C: rank(c) = rank(chosen) => c = chosen
    BY ZenonT(30), <1>1, <1>4, RankInjective
  <2>2. R!item(C, rank(chosen)) = {c \in C: rank(c) = rank(chosen)}
    BY SameCardinality DEF R!item
  <2> HIDE DEF rank
  <2> QED BY <1>4, <2>1, <2>2
<1>7. R!select(C) = {chosen}
  <2>1. R!select(C) =
          UNION {IF R!item(C, idx) = {} THEN {NoBackend} ELSE R!item(C, idx):
                   idx \in choose(C)}
    BY DEF R!select
  <2> HIDE DEF rank
  <2>2. {IF R!item(C, idx) = {} THEN {NoBackend} ELSE R!item(C, idx):
            idx \in choose(C)} = {{chosen}}
    BY <1>5, <1>6
  <2> QED BY <2>1, <2>2
<1>8. ASSUME NEW c \in C
      PROVE  score(chosen) < score(c) \/ (score(chosen) = score(c) /\ chosen <= c)
  <2>1. lowest <= score(c) /\ lowest \in Nat /\ score(c) \in Nat
    BY <1>2, <1>4, ScoreIsNat
  <2>2. score(c) = lowest => chosen <= c
    BY <1>3
  <2> QED BY <1>4, <2>1, <2>2
<1> QED
  BY <1>4, <1>7, <1>8

(* EwmaLatency routes every request to the fastest of its candidates by the *)
(* averages of that moment: the index it returns, counted in its own list,  *)
(* is applied by Candidates::select to the same list.                       *)
THEOREM RoutesToFastest == Spec => [][SentToFastest]_vars
<1>1. IInv /\ [Next]_vars => [SentToFastest]_vars
  <2> SUFFICES ASSUME TypeOK, NEW r \in Requests, NEW q \in Queries, Route(r, q)
               PROVE  /\ inflight'[r] \in Candidates(q)
                      /\ \A c \in Candidates(q):
                           \/ score(inflight'[r]) < score(c)
                           \/ score(inflight'[r]) = score(c) /\ inflight'[r] <= c
    BY DEF SentToFastest, IInv
  <2>1. inflight'[r] \in R!select(Candidates(q)) \ {NoBackend}
    BY DEF Route, R!route, Candidates, TypeOK
  <2>2. Candidates(q) \subseteq R!Positions
    BY DEF Candidates, R!gather
  <2>3. Candidates(q) # {}
    BY <2>1, SelectFromList
  <2> QED BY <2>1, <2>2, <2>3, SelectsFastest
<1> QED
  BY <1>1, AlwaysIInv, PTL DEF Spec
=============================================================================
