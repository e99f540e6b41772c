------------------------- MODULE BudgetLedgerProofs -------------------------
(***************************************************************************)
(* Safety of the budget ledger for every number of concurrent requests,    *)
(* every set of dimensions and limits, and any number of flushes, crashes  *)
(* and restarts.                                                           *)
(***************************************************************************)
EXTENDS BudgetLedger, DataTheorems

(* Requests that have passed the check of dimension d and may still add to  *)
(* it: what stands between a counter and its bound.                         *)
Exposed(d) ==
  {w \in Workers: \/ pc[w] = "checking" /\ d \notin todo[w]
                  \/ pc[w] = "forwarded"
                  \/ pc[w] = "recording" /\ d \in todo[w]}

OverrunInv ==
  \A d \in Dims: Limits[d] # Unlimited =>
    counters[d] + MaxUsage * Cardinality(Exposed(d)) <= Overshoot(d)

WorkerInv ==
  /\ \A w \in Workers: pc[w] = "recording" => usage[w] \in [Dims -> 0..MaxUsage]
  /\ ~up => \A w \in Workers: pc[w] = "idle"

Within(n, d) == Limits[d] # Unlimited => n <= Overshoot(d)

(* A running flush has begun with nothing collected; what it has collected  *)
(* is a value the counter had since then.                                   *)
FlushInv ==
  /\ ~up => flusher = "idle"
  /\ flusher = "idle" => \A d \in Dims: image[d] = NoFile
  /\ flusher # "idle" =>
       \A d \in Dims: seen[period_start][d] <= counters[d]
  /\ \A d \in Dims: image[d] # NoFile =>
       Within(image[d], d) /\ seen[period_start][d] <= image[d]
  /\ flusher \in {"writing", "written"} => \A d \in Dims: image[d] # NoFile
  /\ flusher = "written" =>
       tmp = [period_start |-> period_start, entries |-> image]

(* The counters hold all that the running process answers for.              *)
KeptInv == up => \A d \in Dims: kept[period_start][d] <= counters[d]

(* The snapshot is that of the last completed flush.                        *)
SnapshotInv ==
  /\ snapshot # Torn
  /\ snapshot = NoFile => durable.spent = NoneSpent
  /\ snapshot # NoFile =>
       /\ snapshot.period_start = durable.period
       /\ \A d \in Dims: /\ Within(snapshot.entries[d], d)
                         /\ durable.spent[durable.period][d] <= snapshot.entries[d]

Inv == TypeOK /\ WorkerInv /\ OverrunInv /\ FlushInv /\ KeptInv /\ SnapshotInv

-----------------------------------------------------------------------------
LEMMA TimesMonotone ==
  ASSUME NEW m \in Nat, NEW a \in Nat, NEW b \in Nat, a <= b
  PROVE  m * a \in Nat /\ m * a <= m * b
<1>1. PICK k \in Nat: b = a + k
  BY b - a \in Nat, b = a + (b - a)
<1>2. m * k \in Nat /\ m * a \in Nat
  OBVIOUS
<1>3. m * b = m * a + m * k
  BY <1>1
<1> QED
  BY <1>2, <1>3

LEMMA TimesPred ==
  ASSUME NEW m \in Nat, NEW a \in Nat
  PROVE  m * (a - 1) = m * a - m
OBVIOUS

(* Exposed requests are counted among the workers.                          *)
LEMMA ExposedFinite ==
  ASSUME NEW d
  PROVE  /\ IsFiniteSet(Exposed(d))
         /\ Cardinality(Exposed(d)) \in Nat
         /\ Cardinality(Workers) \in Nat
         /\ Cardinality(Exposed(d)) <= Cardinality(Workers)
<1>1. Exposed(d) \in SUBSET Workers
  BY DEF Exposed
<1>2. IsFiniteSet(Workers)
  BY BudgetAssumption
<1> QED
  BY <1>1, <1>2, FS_Subset, FS_CardinalityType

LEMMA OvershootNat ==
  ASSUME NEW d \in Dims, Limits[d] # Unlimited
  PROVE  /\ Limits[d] \in Nat
         /\ Overshoot(d) \in Nat
         /\ Overshoot(d) = Limits[d] + MaxUsage * Cardinality(Workers)
         /\ MaxUsage * Cardinality(Workers) \in Nat
<1>1. Limits[d] \in Nat /\ MaxUsage \in Nat
  BY BudgetAssumption
<1>2. Cardinality(Workers) \in Nat
  BY ExposedFinite
<1> QED
  BY <1>1, <1>2 DEF Overshoot

(* Nothing is lost when requests stop being exposed and counters stay.      *)
LEMMA OverrunShrink ==
  ASSUME TypeOK, OverrunInv, counters' = counters,
         \A d \in Dims: Exposed(d)' \subseteq Exposed(d)
  PROVE  OverrunInv'
<1> SUFFICES ASSUME NEW d \in Dims, Limits[d] # Unlimited
             PROVE  counters[d] + MaxUsage * Cardinality(Exposed(d)')
                      <= Overshoot(d)
  BY DEF OverrunInv, Overshoot
<1> DEFINE a == Cardinality(Exposed(d)')
           b == Cardinality(Exposed(d))
<1>1. a \in Nat /\ b \in Nat /\ a <= b
  <2>1. Exposed(d)' \in SUBSET Exposed(d) /\ IsFiniteSet(Exposed(d))
    BY ExposedFinite
  <2> QED
    BY <2>1, FS_Subset, FS_CardinalityType
<1>2. MaxUsage * a \in Nat /\ MaxUsage * b \in Nat /\ MaxUsage * a <= MaxUsage * b
  BY <1>1, TimesMonotone, BudgetAssumption
<1>3. counters[d] \in Nat /\ counters[d] + MaxUsage * b <= Overshoot(d)
  BY DEF TypeOK, OverrunInv
<1>4. Overshoot(d) \in Nat
  BY OvershootNat
<1> HIDE DEF a, b
<1>5. counters[d] + MaxUsage * a <= Overshoot(d)
  BY <1>2, <1>3, <1>4
<1> QED
  BY <1>5 DEF a

(* The bound itself.                                                        *)
LEMMA OverrunImplies ==
  ASSUME TypeOK, OverrunInv, NEW d \in Dims
  PROVE  Within(counters[d], d)
<1> SUFFICES ASSUME Limits[d] # Unlimited
             PROVE  counters[d] <= Overshoot(d)
  BY DEF Within
<1>1. counters[d] \in Nat
      /\ counters[d] + MaxUsage * Cardinality(Exposed(d)) <= Overshoot(d)
  BY DEF TypeOK, OverrunInv
<1>2. Cardinality(Exposed(d)) \in Nat /\ MaxUsage \in Nat
  BY ExposedFinite, BudgetAssumption
<1>3. MaxUsage * Cardinality(Exposed(d)) \in Nat
  BY <1>2
<1> QED
  BY <1>1, <1>3, OvershootNat

(* A counter within its bound, with nobody exposed.                         *)
LEMMA OverrunNobody ==
  ASSUME counters' \in [Dims -> Nat], \A d \in Dims: Within(counters'[d], d),
         \A w \in Workers: pc'[w] = "idle"
  PROVE  OverrunInv'
<1> SUFFICES ASSUME NEW d \in Dims, Limits[d] # Unlimited
             PROVE  counters'[d] + MaxUsage * Cardinality(Exposed(d)')
                      <= Overshoot(d)
  BY DEF OverrunInv, Overshoot
<1>1. Exposed(d)' = {}
  BY DEF Exposed
<1>2. Cardinality(Exposed(d)') = 0
  BY <1>1, FS_EmptySet
<1>3. MaxUsage * 0 = 0 /\ counters'[d] \in Nat
  BY BudgetAssumption
<1> QED
  BY <1>2, <1>3 DEF Within

-----------------------------------------------------------------------------
LEMMA ZeroTypes == /\ Zero \in [Dims -> Nat]
                   /\ NoneSpent \in [Periods -> [Dims -> Nat]]
                   /\ 0 \in Periods
BY BudgetAssumption DEF Zero, NoneSpent, Periods

LEMMA InitInv == Init => Inv
<1> SUFFICES ASSUME Init PROVE Inv
  OBVIOUS
<1>1. TypeOK
  BY ZeroTypes DEF Init, TypeOK, File
<1>2. WorkerInv
  BY DEF Init, WorkerInv
<1>3. OverrunInv
  <2> SUFFICES ASSUME NEW d \in Dims, Limits[d] # Unlimited
               PROVE  counters[d] + MaxUsage * Cardinality(Exposed(d))
                        <= Overshoot(d)
    BY DEF OverrunInv
  <2>1. Exposed(d) = {}
    BY DEF Exposed, Init
  <2>2. Cardinality(Exposed(d)) = 0
    BY <2>1, FS_EmptySet
  <2>3. MaxUsage * 0 = 0 /\ counters[d] = 0
    BY BudgetAssumption DEF Init, Zero
  <2> QED
    BY <2>2, <2>3, OvershootNat
<1>4. FlushInv
  BY DEF Init, FlushInv
<1>5. KeptInv
  BY ZeroTypes DEF Init, KeptInv, NoneSpent, Zero
<1>6. SnapshotInv
  BY FileAssumption DEF Init, SnapshotInv
<1> QED
  BY <1>1, <1>2, <1>3, <1>4, <1>5, <1>6 DEF Inv

-----------------------------------------------------------------------------
(* What a step of a request leaves alone.                                   *)
LEMMA WorkerFrame ==
  ASSUME Inv, UNCHANGED <<up, period_start, counters, flushVars, diskVars, history>>
  PROVE  FlushInv' /\ KeptInv' /\ SnapshotInv'
BY DEF Inv, FlushInv, KeptInv, SnapshotInv, Within, Overshoot, flushVars,
       diskVars, history

(* What a step of flush leaves alone.                                       *)
LEMMA FlushFrame ==
  ASSUME Inv, UNCHANGED <<up, period_start, counters, workerVars, history>>
  PROVE  WorkerInv' /\ OverrunInv' /\ KeptInv'
<1>1. WorkerInv' /\ KeptInv'
  BY DEF Inv, WorkerInv, KeptInv, workerVars, history
<1>2. \A d \in Dims: Exposed(d)' \subseteq Exposed(d)
  BY DEF Exposed, workerVars
<1>3. OverrunInv'
  BY <1>2, OverrunShrink DEF Inv
<1> QED
  BY <1>1, <1>3

LEMMA CheckInv ==
  ASSUME Inv, NEW w \in Workers, NEW proposed \in Proposals, Check(w, proposed)
  PROVE  Inv'
<1>1. TypeOK'
  BY BudgetAssumption DEF Inv, TypeOK, Check, flushVars, diskVars, history
<1>2. WorkerInv'
  BY DEF Inv, WorkerInv, TypeOK, Check
<1>3. \A d \in Dims: Exposed(d)' \subseteq Exposed(d)
  BY DEF Inv, TypeOK, Check, Exposed
<1>4. OverrunInv'
  BY <1>3, OverrunShrink DEF Inv, Check
<1> QED
  BY <1>1, <1>2, <1>4, WorkerFrame DEF Inv, Check

(* The only way to become exposed: the counter was within the limit, so     *)
(* even all the workers together stay within the bound.                     *)
LEMMA CheckDimInv ==
  ASSUME Inv, NEW w \in Workers, NEW d \in Dims, CheckDim(w, d)
  PROVE  Inv'
<1>1. TypeOK'
  BY DEF Inv, TypeOK, CheckDim, flushVars, diskVars, history
<1>2. WorkerInv'
  BY DEF Inv, WorkerInv, TypeOK, CheckDim
<1>3. ASSUME NEW e \in Dims, Limits[e] # Unlimited
      PROVE  counters[e] + MaxUsage * Cardinality(Exposed(e)') <= Overshoot(e)
  <2>1. CASE e # d
    <3>1. Exposed(e)' = Exposed(e)
      BY <2>1 DEF Inv, TypeOK, CheckDim, Exposed
    <3> QED
      BY <3>1, <1>3 DEF Inv, OverrunInv
  <2>2. CASE e = d
    <3>1. counters[e] <= Limits[e] /\ counters[e] \in Nat /\ Limits[e] \in Nat
      <4>1. counters[e] \in Nat /\ usage[w][e] \in Nat
        BY DEF Inv, TypeOK
      <4>2. counters[e] + usage[w][e] <= Limits[e] /\ Limits[e] \in Nat
        BY <2>2, <4>1, <1>3, OvershootNat DEF CheckDim, Exceeds
      <4> QED
        BY <4>1, <4>2
    <3>2. /\ Cardinality(Exposed(e)') \in Nat
          /\ Cardinality(Workers) \in Nat
          /\ Cardinality(Exposed(e)') <= Cardinality(Workers)
      <4>1. Exposed(e)' \in SUBSET Workers /\ IsFiniteSet(Workers)
        BY BudgetAssumption DEF Exposed
      <4> QED
        BY <4>1, FS_Subset, FS_CardinalityType
    <3>3. /\ MaxUsage * Cardinality(Exposed(e)') \in Nat
          /\ MaxUsage * Cardinality(Exposed(e)') <= MaxUsage * Cardinality(Workers)
      BY <3>2, TimesMonotone, BudgetAssumption
    <3> DEFINE x == MaxUsage * Cardinality(Exposed(e)')
               y == MaxUsage * Cardinality(Workers)
    <3>4. x \in Nat /\ y \in Nat /\ x <= y /\ Overshoot(e) = Limits[e] + y
      BY <3>3, <1>3, OvershootNat
    <3> HIDE DEF x, y
    <3>5. counters[e] + x <= Overshoot(e)
      BY <3>1, <3>4
    <3> QED
      BY <3>5 DEF x
  <2> QED
    BY <2>1, <2>2
<1>4. OverrunInv'
  BY <1>3 DEF OverrunInv, Overshoot, CheckDim
<1> QED
  BY <1>1, <1>2, <1>4, WorkerFrame DEF Inv, CheckDim

LEMMA RejectedInv ==
  ASSUME Inv, NEW w \in Workers, NEW d \in Dims, Rejected(w, d)
  PROVE  Inv'
<1>1. TypeOK'
  BY ZeroTypes DEF Inv, TypeOK, Rejected, flushVars, diskVars, history
<1>2. WorkerInv'
  BY DEF Inv, WorkerInv, TypeOK, Rejected
<1>3. \A e \in Dims: Exposed(e)' \subseteq Exposed(e)
  BY DEF Inv, TypeOK, Rejected, Exposed
<1>4. OverrunInv'
  BY <1>3, OverrunShrink DEF Inv, Rejected
<1> QED
  BY <1>1, <1>2, <1>4, WorkerFrame DEF Inv, Rejected

LEMMA ForwardedInv ==
  ASSUME Inv, NEW w \in Workers, Forwarded(w)
  PROVE  Inv'
<1>1. TypeOK'
  BY ZeroTypes DEF Inv, TypeOK, Forwarded, flushVars, diskVars, history
<1>2. WorkerInv'
  BY DEF Inv, WorkerInv, TypeOK, Forwarded
<1>3. \A d \in Dims: Exposed(d)' \subseteq Exposed(d)
  BY DEF Inv, TypeOK, Forwarded, Exposed
<1>4. OverrunInv'
  BY <1>3, OverrunShrink DEF Inv, Forwarded
<1> QED
  BY <1>1, <1>2, <1>4, WorkerFrame DEF Inv, Forwarded

LEMMA RecordInv ==
  ASSUME Inv, NEW w \in Workers, NEW u \in Usages, Record(w, u)
  PROVE  Inv'
<1>1. u \in [Dims -> 0..MaxUsage] /\ u \in [Dims -> Nat]
  BY BudgetAssumption
<1>2. TypeOK'
  BY <1>1 DEF Inv, TypeOK, Record, flushVars, diskVars, history
<1>3. WorkerInv'
  BY <1>1 DEF Inv, WorkerInv, TypeOK, Record
<1>4. \A d \in Dims: Exposed(d)' \subseteq Exposed(d)
  BY DEF Inv, TypeOK, Record, Exposed
<1>5. OverrunInv'
  BY <1>4, OverrunShrink DEF Inv, Record
<1> QED
  BY <1>2, <1>3, <1>5, WorkerFrame DEF Inv, Record

LEMMA RecordedInv ==
  ASSUME Inv, NEW w \in Workers, Recorded(w) \/ NothingToRecord(w)
  PROVE  Inv'
<1>1. TypeOK'
  BY ZenonT(30), ZeroTypes DEF Inv, TypeOK, Recorded, NothingToRecord, flushVars, diskVars,
                   history
<1>2. WorkerInv'
  BY DEF Inv, WorkerInv, TypeOK, Recorded, NothingToRecord
<1>3. \A d \in Dims: Exposed(d)' \subseteq Exposed(d)
  BY DEF Inv, TypeOK, Recorded, NothingToRecord, Exposed
<1>4. OverrunInv'
  BY <1>3, OverrunShrink DEF Inv, Recorded, NothingToRecord
<1> QED
  BY <1>1, <1>2, <1>4, WorkerFrame DEF Inv, Recorded, NothingToRecord

(* One request's usage goes into the counter, and the request is no longer  *)
(* exposed.                                                                 *)
LEMMA RecordDimInv ==
  ASSUME Inv, NEW w \in Workers, NEW d \in Dims, RecordDim(w, d)
  PROVE  Inv'
<1> DEFINE u == usage[w][d]
<1>1. u \in Nat /\ u <= MaxUsage /\ MaxUsage \in Nat
  BY BudgetAssumption DEF Inv, WorkerInv, RecordDim
<1>2. now \in Periods /\ period_start \in Periods
  BY DEF Inv, TypeOK
<1>3. counters' \in [Dims -> Nat] /\ counters \in [Dims -> Nat]
  BY <1>1 DEF Inv, TypeOK, RecordDim
<1>4. spent' \in [Periods -> [Dims -> Nat]] /\ kept' \in [Periods -> [Dims -> Nat]]
  BY <1>1, <1>2 DEF Inv, TypeOK, RecordDim
<1>5. TypeOK'
  BY <1>3, <1>4 DEF Inv, TypeOK, RecordDim, flushVars, diskVars
<1>6. WorkerInv'
  BY DEF Inv, WorkerInv, TypeOK, RecordDim
<1>7. \A e \in Dims: counters[e] <= counters'[e]
  BY <1>1, <1>3 DEF RecordDim
<1>8. ASSUME NEW e \in Dims, Limits[e] # Unlimited
      PROVE  counters'[e] + MaxUsage * Cardinality(Exposed(e)') <= Overshoot(e)
  <2>1. CASE e # d
    <3>1. Exposed(e)' = Exposed(e) /\ counters'[e] = counters[e]
      BY <2>1, <1>3 DEF Inv, TypeOK, RecordDim, Exposed
    <3> QED
      BY <3>1, <1>8 DEF Inv, OverrunInv
  <2>2. CASE e = d
    <3>1. Exposed(d)' = Exposed(d) \ {w} /\ w \in Exposed(d)
      BY DEF Inv, TypeOK, RecordDim, Exposed
    <3>2. /\ Cardinality(Exposed(d)') = Cardinality(Exposed(d)) - 1
          /\ Cardinality(Exposed(d)) \in Nat
      BY <3>1, ExposedFinite, FS_RemoveElement
    <3> DEFINE x == MaxUsage * Cardinality(Exposed(d))
    <3>3. MaxUsage * Cardinality(Exposed(d)') = x - MaxUsage /\ x \in Nat
      BY <3>2, <1>1, TimesPred
    <3>4. counters'[d] = counters[d] + u /\ counters[d] \in Nat
      BY <1>3 DEF RecordDim
    <3>5. counters[d] + x <= Overshoot(d) /\ Overshoot(d) \in Nat
      BY <2>2, <1>8, OvershootNat DEF Inv, OverrunInv
    <3> HIDE DEF u, x
    <3>6. counters'[d] + (x - MaxUsage) <= Overshoot(d)
      BY <1>1, <3>3, <3>4, <3>5
    <3> QED
      BY <2>2, <3>3, <3>6
  <2> QED
    BY <2>1, <2>2
<1>9. OverrunInv'
  BY <1>8 DEF OverrunInv, Overshoot
<1>10. FlushInv'
  <2>1. \A e \in Dims: seen[period_start][e] \in Nat
    BY <1>2 DEF Inv, TypeOK
  <2>2. flusher # "idle" =>
          \A e \in Dims: seen[period_start][e] <= counters'[e]
    BY <1>3, <1>7, <2>1 DEF Inv, FlushInv
  <2> QED
    BY <2>2 DEF Inv, FlushInv, RecordDim, flushVars, diskVars, Within, Overshoot
<1>11. KeptInv'
  <2> SUFFICES ASSUME NEW e \in Dims
               PROVE  kept'[period_start][e] <= counters'[e]
    BY DEF KeptInv, RecordDim
  <2>1. /\ kept[period_start][e] \in Nat /\ counters[e] \in Nat
        /\ kept[period_start][e] <= counters[e]
    BY <1>2 DEF Inv, TypeOK, KeptInv, RecordDim
  <2>2. CASE e = d
    <3>1. counters'[e] = counters[e] + u
      BY <2>2, <1>3 DEF RecordDim
    <3>2. kept'[period_start][e] \in
            {kept[period_start][e], kept[period_start][e] + u}
      BY <2>2, <1>2 DEF Inv, TypeOK, RecordDim
    <3> HIDE DEF u
    <3> QED
      BY <2>1, <3>1, <3>2, <1>1
  <2>3. CASE e # d
    <3>1. counters'[e] = counters[e] /\ kept'[period_start][e] = kept[period_start][e]
      BY <2>3, <1>2, <1>3 DEF Inv, TypeOK, RecordDim
    <3> QED
      BY <2>1, <3>1
  <2> QED
    BY <2>2, <2>3
<1>12. SnapshotInv'
  BY DEF Inv, SnapshotInv, RecordDim, diskVars, Within, Overshoot
<1> QED
  BY <1>5, <1>6, <1>9, <1>10, <1>11, <1>12 DEF Inv

-----------------------------------------------------------------------------
(* Everything the process answers for is in the counters when flush begins. *)
LEMMA FlushBeginInv == Inv /\ FlushBegin => Inv'
<1> SUFFICES ASSUME Inv, FlushBegin PROVE Inv'
  OBVIOUS
<1>1. TypeOK'
  BY DEF Inv, TypeOK, FlushBegin, workerVars, diskVars, history
<1>2. FlushInv'
  <2>1. \A d \in Dims: image[d] = NoFile /\ kept[period_start][d] <= counters[d]
    BY DEF Inv, FlushInv, KeptInv, FlushBegin
  <2> QED
    BY <2>1 DEF FlushInv, FlushBegin
<1>3. SnapshotInv'
  BY DEF Inv, SnapshotInv, FlushBegin, diskVars, Within, Overshoot
<1> QED
  BY <1>1, <1>2, <1>3, FlushFrame DEF Inv, FlushBegin

LEMMA FlushLoadInv ==
  ASSUME Inv, NEW d \in Dims, FlushLoad(d)
  PROVE  Inv'
<1>1. TypeOK'
  BY DEF Inv, TypeOK, FlushLoad, workerVars, diskVars, history
<1>2. FlushInv'
  <2>1. Within(counters[d], d) /\ counters[d] # NoFile
    BY OverrunImplies, FileAssumption DEF Inv, TypeOK
  <2>2. seen[period_start][d] <= counters[d]
    BY DEF Inv, FlushInv, FlushLoad
  <2>3. image' = [image EXCEPT ![d] = counters[d]] /\ image \in [Dims -> Nat \cup {NoFile}]
    BY DEF Inv, TypeOK, FlushLoad
  <2>4. \A e \in Dims: image'[e] # NoFile =>
           Within(image'[e], e) /\ seen[period_start][e] <= image'[e]
    BY <2>1, <2>2, <2>3 DEF Inv, FlushInv
  <2> QED
    BY <2>4 DEF Inv, FlushInv, FlushLoad, Within, Overshoot
<1>3. SnapshotInv'
  BY DEF Inv, SnapshotInv, FlushLoad, diskVars, Within, Overshoot
<1> QED
  BY <1>1, <1>2, <1>3, FlushFrame DEF Inv, FlushLoad

LEMMA FlushOpenInv == Inv /\ FlushOpen => Inv'
<1> SUFFICES ASSUME Inv, FlushOpen PROVE Inv'
  OBVIOUS
<1>1. TypeOK'
  BY DEF Inv, TypeOK, FlushOpen, workerVars, File, history
<1>2. FlushInv'
  BY DEF Inv, FlushInv, FlushOpen, Within, Overshoot
<1>3. SnapshotInv'
  BY DEF Inv, SnapshotInv, FlushOpen, Within, Overshoot
<1> QED
  BY <1>1, <1>2, <1>3, FlushFrame DEF Inv, FlushOpen

LEMMA FlushWrittenInv == Inv /\ FlushWritten => Inv'
<1> SUFFICES ASSUME Inv, FlushWritten PROVE Inv'
  OBVIOUS
<1>1. image \in [Dims -> Nat] /\ period_start \in Periods
  BY DEF Inv, TypeOK, FlushInv, FlushWritten
<1>2. tmp' \in LedgerSnapshot
  BY <1>1 DEF FlushWritten, LedgerSnapshot
<1>3. TypeOK'
  BY <1>2 DEF Inv, TypeOK, FlushWritten, workerVars, File, history
<1>4. FlushInv'
  BY DEF Inv, FlushInv, FlushWritten, Within, Overshoot
<1>5. SnapshotInv'
  BY DEF Inv, SnapshotInv, FlushWritten, Within, Overshoot
<1> QED
  BY <1>3, <1>4, <1>5, FlushFrame DEF Inv, FlushWritten

LEMMA FlushRenameInv == Inv /\ FlushRename => Inv'
<1> SUFFICES ASSUME Inv, FlushRename PROVE Inv'
  OBVIOUS
<1>1. image \in [Dims -> Nat] /\ period_start \in Periods
  BY DEF Inv, TypeOK, FlushInv, FlushRename
<1>2. tmp = [period_start |-> period_start, entries |-> image]
  BY DEF Inv, FlushInv, FlushRename
<1>3. tmp \in LedgerSnapshot
  BY <1>1, <1>2 DEF LedgerSnapshot
<1>4. durable' \in [period: Periods, spent: [Periods -> [Dims -> Nat]]]
  BY <1>1 DEF Inv, TypeOK, FlushRename
<1>5. TypeOK'
  BY <1>3, <1>4, ZeroTypes
     DEF Inv, TypeOK, FlushRename, FlushEnd, workerVars, File, history
<1>6. FlushInv'
  BY DEF Inv, FlushInv, FlushRename, FlushEnd
<1>7. SnapshotInv'
  <2>1. \A d \in Dims: Within(image[d], d) /\ seen[period_start][d] <= image[d]
    BY DEF Inv, FlushInv, FlushRename
  <2>2. snapshot' # Torn /\ snapshot' # NoFile
    BY <1>3, FileAssumption DEF FlushRename
  <2>3. /\ snapshot'.period_start = period_start /\ snapshot'.entries = image
        /\ durable'.period = period_start /\ durable'.spent = seen
    BY <1>2 DEF FlushRename
  <2> QED
    BY <2>1, <2>2, <2>3 DEF SnapshotInv, Within, Overshoot
<1> QED
  BY <1>5, <1>6, <1>7, FlushFrame DEF Inv, FlushRename

LEMMA FlushFailedInv == Inv /\ FlushFailed => Inv'
<1> SUFFICES ASSUME Inv, FlushFailed PROVE Inv'
  OBVIOUS
<1>1. TypeOK'
  BY ZeroTypes DEF Inv, TypeOK, FlushFailed, FlushEnd, workerVars, diskVars,
                   history
<1>2. FlushInv'
  BY DEF Inv, FlushInv, FlushFailed, FlushEnd
<1>3. SnapshotInv'
  BY DEF Inv, SnapshotInv, FlushFailed, diskVars, Within, Overshoot
<1> QED
  BY <1>1, <1>2, <1>3, FlushFrame DEF Inv, FlushFailed

-----------------------------------------------------------------------------
LEMMA CrashInv == Inv /\ Crash => Inv'
<1> SUFFICES ASSUME Inv, Crash PROVE Inv'
  OBVIOUS
<1>1. TypeOK'
  BY ZeroTypes DEF Inv, TypeOK, Crash, FlushEnd, diskVars, history
<1>2. WorkerInv'
  BY DEF WorkerInv, Crash
<1>3. OverrunInv'
  <2>1. counters' \in [Dims -> Nat] /\ \A w \in Workers: pc'[w] = "idle"
    BY ZeroTypes DEF Crash
  <2>2. \A d \in Dims: Within(counters'[d], d)
    BY OvershootNat DEF Within, Crash, Zero
  <2> QED
    BY <2>1, <2>2, OverrunNobody
<1>4. FlushInv'
  BY DEF FlushInv, Crash, FlushEnd
<1>5. KeptInv'
  BY DEF KeptInv, Crash
<1>6. SnapshotInv'
  BY DEF Inv, SnapshotInv, Crash, diskVars, Within, Overshoot
<1> QED
  BY <1>1, <1>2, <1>3, <1>4, <1>5, <1>6 DEF Inv

(* What a restart takes over: within the bounds, and all that is durable in *)
(* this period.                                                             *)
LEMMA RestoredFacts ==
  ASSUME Inv
  PROVE  /\ Restored \in [Dims -> Nat]
         /\ \A d \in Dims: Within(Restored[d], d)
         /\ durable.period = now =>
              \A d \in Dims: durable.spent[now][d] <= Restored[d]
<1>1. \A d \in Dims: Within(Zero[d], d)
  BY OvershootNat DEF Within, Zero
<1>2. CASE snapshot = NoFile
  <2>1. Restored = Zero
    BY <1>2 DEF Restored
  <2>2. now \in Periods /\ durable.spent = NoneSpent
    BY <1>2 DEF Inv, TypeOK, SnapshotInv
  <2>3. \A d \in Dims: durable.spent[now][d] = 0 /\ Zero[d] = 0
    BY <2>2 DEF NoneSpent, Zero
  <2> QED
    BY <1>1, <2>1, <2>3, ZeroTypes
<1>3. CASE snapshot # NoFile
  <2>1. snapshot \in LedgerSnapshot /\ snapshot # Torn
    BY <1>3 DEF Inv, TypeOK, File, SnapshotInv
  <2>2. snapshot.entries \in [Dims -> Nat]
    BY <2>1 DEF LedgerSnapshot
  <2>3. /\ snapshot.period_start = durable.period
        /\ \A d \in Dims:
             /\ Within(snapshot.entries[d], d)
             /\ durable.spent[durable.period][d] <= snapshot.entries[d]
    BY <1>3 DEF Inv, SnapshotInv
  <2>4. CASE durable.period = now
    <3>1. Restored = snapshot.entries
      BY <1>3, <2>1, <2>3, <2>4 DEF Restored
    <3> QED
      BY <2>2, <2>3, <2>4, <3>1
  <2>5. CASE durable.period # now
    <3>1. Restored = Zero
      BY <1>3, <2>1, <2>3, <2>5 DEF Restored
    <3> QED
      BY <1>1, <2>5, <3>1, ZeroTypes
  <2> QED
    BY <2>4, <2>5
<1> QED
  BY <1>2, <1>3

LEMMA RestartInv == Inv /\ Restart => Inv'
<1> SUFFICES ASSUME Inv, Restart PROVE Inv'
  OBVIOUS
<1>1. now \in Periods /\ durable.spent \in [Periods -> [Dims -> Nat]]
  BY DEF Inv, TypeOK
<1>2. kept' \in [Periods -> [Dims -> Nat]]
  <2>1. [NoneSpent EXCEPT ![now] = durable.spent[now]] \in [Periods -> [Dims -> Nat]]
    BY <1>1, ZeroTypes
  <2> QED
    BY <2>1, ZeroTypes DEF Restart
<1>3. TypeOK'
  BY <1>1, <1>2, RestoredFacts DEF Inv, TypeOK, Restart, workerVars, flushVars,
                                   diskVars
<1>4. WorkerInv'
  BY DEF Inv, WorkerInv, Restart, workerVars
<1>5. OverrunInv'
  BY RestoredFacts, OverrunNobody DEF Inv, WorkerInv, Restart, workerVars
<1>6. FlushInv'
  BY DEF Inv, FlushInv, Restart, flushVars, diskVars
<1>7. KeptInv'
  <2>1. CASE durable.period = now
    <3>1. \A d \in Dims: kept'[now][d] = durable.spent[now][d]
      BY <2>1, <1>1, ZeroTypes DEF Restart
    <3> QED
      BY <2>1, <3>1, RestoredFacts DEF KeptInv, Restart
  <2>2. CASE durable.period # now
    <3>1. \A d \in Dims: kept'[now][d] = 0
      BY <2>2, <1>1 DEF Restart, NoneSpent, Zero
    <3>2. \A d \in Dims: Restored[d] \in Nat
      BY RestoredFacts
    <3> QED
      BY <3>1, <3>2 DEF KeptInv, Restart
  <2> QED
    BY <2>1, <2>2
<1>8. SnapshotInv'
  BY DEF Inv, SnapshotInv, Restart, diskVars, Within, Overshoot
<1> QED
  BY <1>3, <1>4, <1>5, <1>6, <1>7, <1>8 DEF Inv

LEMMA PeriodTurnsInv == Inv /\ PeriodTurns => Inv'
<1> SUFFICES ASSUME Inv, PeriodTurns PROVE Inv'
  OBVIOUS
<1>0. now' \in Periods
  <2>1. now \in Periods
    BY DEF Inv, TypeOK
  <2> QED
    BY <2>1, BudgetAssumption DEF PeriodTurns, Periods
<1>1. TypeOK'
  BY <1>0 DEF Inv, TypeOK, PeriodTurns, workerVars, flushVars, diskVars, history
<1>2. FlushInv' /\ SnapshotInv'
  BY DEF Inv, FlushInv, SnapshotInv, PeriodTurns, flushVars, diskVars, Within,
         Overshoot
<1> QED
  BY <1>1, <1>2, FlushFrame DEF Inv, PeriodTurns

LEMMA NextInv == Inv /\ [Next]_vars => Inv'
<1> SUFFICES ASSUME Inv, [Next]_vars PROVE Inv'
  OBVIOUS
<1>1. CASE UNCHANGED vars
  <2>1. TypeOK'
    BY <1>1 DEF Inv, TypeOK, vars, workerVars, flushVars, diskVars, history
  <2>2. FlushInv' /\ SnapshotInv'
    BY <1>1 DEF Inv, FlushInv, SnapshotInv, vars, flushVars, diskVars, Within,
                Overshoot
  <2> QED
    BY <1>1, <2>1, <2>2, FlushFrame DEF Inv, vars
<1>2. ASSUME NEW w \in Workers,
             \/ \E proposed \in Proposals: Check(w, proposed)
             \/ \E d \in Dims: CheckDim(w, d) \/ Rejected(w, d) \/ RecordDim(w, d)
             \/ Forwarded(w)
             \/ \E u \in Usages: Record(w, u)
             \/ Recorded(w) \/ NothingToRecord(w)
      PROVE  Inv'
  BY <1>2, CheckInv, CheckDimInv, RejectedInv, RecordDimInv, ForwardedInv,
     RecordInv, RecordedInv
<1>3. CASE \E d \in Dims: FlushLoad(d)
  BY <1>3, FlushLoadInv
<1> QED
  BY <1>1, <1>2, <1>3, FlushBeginInv, FlushOpenInv, FlushWrittenInv,
     FlushRenameInv, FlushFailedInv, CrashInv, RestartInv, PeriodTurnsInv
     DEF Next

-----------------------------------------------------------------------------
(* The invariant of the ledger: bounded exposure, a flush that has seen all *)
(* it must, and a snapshot that is the last flush's.                        *)
THEOREM Invariance == Spec => []Inv
<1>1. Inv /\ [Next]_vars => Inv'
  BY NextInv
<1> QED
  BY <1>1, InitInv, PTL DEF Spec

(* The ledger, its files and its histories stay well typed: in particular   *)
(* only complete snapshots are written (budget.rs, flush).                  *)
THEOREM TypeCorrect == Spec => []TypeOK
<1>1. Inv => TypeOK
  BY DEF Inv
<1> QED
  BY <1>1, Invariance, PTL

(* Because check and record are not atomic, a limit may be exceeded, but by *)
(* no more than one usage per concurrent request, restarts included.        *)
THEOREM Overrun == Spec => []OverrunBounded
<1>1. Inv => OverrunBounded
  BY OverrunImplies DEF Inv, OverrunBounded, Within
<1> QED
  BY <1>1, Invariance, PTL

(* Writing to a .tmp file and renaming it never leaves a torn snapshot,     *)
(* wherever the process dies or the disk fails (budget.rs, flush).          *)
THEOREM NeverTorn == Spec => []SnapshotNeverTorn
<1>1. Inv => SnapshotNeverTorn
  BY DEF Inv, SnapshotInv, SnapshotNeverTorn
<1> QED
  BY <1>1, Invariance, PTL

(* A restart in the period of the process that flushed last finds all that  *)
(* was recorded before that flush began (budget.rs, flush and new).         *)
THEOREM Survives == Spec => SurvivesRestart
<1>1. Inv /\ [Next]_vars =>
        [Restart /\ durable.period = now =>
           \A d \in Dims: counters'[d] >= durable.spent[now][d]]_vars
  <2> SUFFICES ASSUME Inv, Restart, durable.period = now, NEW d \in Dims
               PROVE  counters'[d] >= durable.spent[now][d]
    OBVIOUS
  <2>1. durable.spent[now][d] <= Restored[d] /\ counters' = Restored
    BY RestoredFacts DEF Restart
  <2>2. Restored[d] \in Nat /\ durable.spent[now][d] \in Nat
    BY RestoredFacts DEF Inv, TypeOK
  <2> QED
    BY <2>1, <2>2
<1> QED
  BY <1>1, Invariance, PTL DEF Spec, SurvivesRestart

-----------------------------------------------------------------------------
(* Where tokens come from: the counters, what a flush has collected and the *)
(* snapshot hold no more than was recorded since the period they are of.    *)
BackedInv ==
  /\ up => period_start <= now
  /\ up => \A d \in Dims: counters[d] <= SpentSince(period_start, d)
  /\ \A d \in Dims: image[d] # NoFile => image[d] <= SpentSince(period_start, d)
  /\ snapshot # NoFile =>
       \A d \in Dims: snapshot.entries[d] <= SpentSince(snapshot.period_start, d)

LEMMA PeriodsSince ==
  ASSUME NEW p \in Periods
  PROVE  IsFiniteSet(p..MaxPeriod) /\ p..MaxPeriod \subseteq Periods
BY BudgetAssumption, FS_Interval DEF Periods

LEMMA SpentSinceNat ==
  ASSUME TypeOK
  PROVE  \A p \in Periods: \A d \in Dims: SpentSince(p, d) \in Nat
<1> SUFFICES ASSUME NEW p \in Periods, NEW d \in Dims
             PROVE  SpentSince(p, d) \in Nat
  OBVIOUS
<1>1. PICK f: f = [q \in Periods |-> spent[q][d]]
  OBVIOUS
<1>2. \A q \in p..MaxPeriod: f[q] \in Nat
  BY SMTT(30), <1>1, PeriodsSince DEF TypeOK
<1> QED
  BY <1>1, <1>2, PeriodsSince, SumType DEF SpentSince

(* The histories hold still in every step but one.                          *)
LEMMA SpentSinceSame ==
  ASSUME spent' = spent
  PROVE  \A p, d: SpentSince(p, d)' = SpentSince(p, d)
BY DEF SpentSince

(* A recorded dimension is counted in every sum that reaches up to now, and *)
(* no sum shrinks.                                                          *)
LEMMA SpentSinceGrows ==
  ASSUME Inv, NEW w \in Workers, NEW d \in Dims, RecordDim(w, d)
  PROVE  /\ \A p \in Periods: \A e \in Dims:
              SpentSince(p, e)' \in Nat /\ SpentSince(p, e) <= SpentSince(p, e)'
         /\ \A p \in Periods: p <= now =>
              SpentSince(p, d)' = SpentSince(p, d) + usage[w][d]
<1>0. PICK n, u: n = now /\ u = usage[w][d]
  OBVIOUS
<1>1. /\ n \in Periods /\ u \in Nat /\ spent \in [Periods -> [Dims -> Nat]]
      /\ spent' = [spent EXCEPT ![n][d] = @ + u]
  BY <1>0 DEF Inv, TypeOK, RecordDim
<1>2. /\ \A q \in Periods: \A e \in Dims: q # n \/ e # d => spent'[q][e] = spent[q][e]
      /\ spent'[n][d] = spent[n][d] + u
      /\ \A q \in Periods: \A e \in Dims: spent[q][e] \in Nat /\ spent'[q][e] \in Nat
  BY <1>1
<1>3. ASSUME NEW p \in Periods, NEW e \in Dims, NEW f, NEW g,
             f = [q \in Periods |-> spent[q][e]], g = [q \in Periods |-> spent'[q][e]]
      PROVE  /\ SumFunctionOnSet(f, p..MaxPeriod) \in Nat
             /\ e # d \/ n \notin p..MaxPeriod =>
                  SumFunctionOnSet(g, p..MaxPeriod) = SumFunctionOnSet(f, p..MaxPeriod)
             /\ e = d /\ n \in p..MaxPeriod =>
                  SumFunctionOnSet(g, p..MaxPeriod) = SumFunctionOnSet(f, p..MaxPeriod) + u
  <2>1. PICK S: S = p..MaxPeriod
    OBVIOUS
  <2>2. IsFiniteSet(S) /\ \A q \in S: q \in Periods
    BY <2>1, PeriodsSince
  <2>3. \A q \in S: f[q] = spent[q][e] /\ g[q] = spent'[q][e]
    BY <1>3, <2>2
  <2>4. \A q \in S: f[q] \in Nat /\ g[q] \in Nat
    BY <1>2, <2>2, <2>3
  <2>5. SumFunctionOnSet(f, S) \in Nat
    BY <2>2, <2>4, SumType
  <2>6. CASE e # d \/ n \notin S
    <3>1. \A q \in S: g[q] = f[q]
      BY <1>2, <2>2, <2>3, <2>6
    <3>2. SumFunctionOnSet(g, S) = SumFunctionOnSet(f, S)
      BY <2>2, <3>1, SumSame
    <3> QED BY <2>1, <2>5, <2>6, <3>2
  <2>7. CASE e = d /\ n \in S
    <3>1. \A q \in S \ {n}: g[q] = f[q]
      BY <1>2, <2>2, <2>3
    <3>2. f[n] \in Nat /\ g[n] = f[n] + u
      BY <1>2, <2>3, <2>4, <2>7
    <3>3. SumFunctionOnSet(g, S) = SumFunctionOnSet(f, S) - f[n] + g[n]
      BY <2>2, <2>4, <2>7, <3>1, SumChange
    <3>4. SumFunctionOnSet(g, S) = SumFunctionOnSet(f, S) + u
      BY <1>1, <2>5, <3>2, <3>3
    <3> QED BY <2>1, <2>5, <2>7, <3>4
  <2> QED BY <2>6, <2>7
<1>4. ASSUME NEW p \in Periods, NEW e \in Dims
      PROVE  /\ SpentSince(p, e) \in Nat
             /\ e # d \/ n \notin p..MaxPeriod => SpentSince(p, e)' = SpentSince(p, e)
             /\ e = d /\ n \in p..MaxPeriod =>
                  SpentSince(p, e)' = SpentSince(p, e) + u
  <2>1. PICK f, g: /\ f = [q \in Periods |-> spent[q][e]]
                   /\ g = [q \in Periods |-> spent'[q][e]]
    OBVIOUS
  <2>2. /\ SpentSince(p, e) = SumFunctionOnSet(f, p..MaxPeriod)
        /\ SpentSince(p, e)' = SumFunctionOnSet(g, p..MaxPeriod)
    BY <2>1 DEF SpentSince
  <2> QED BY <1>3, <2>1, <2>2
<1>5. \A p \in Periods: \A e \in Dims:
        SpentSince(p, e)' \in Nat /\ SpentSince(p, e) <= SpentSince(p, e)'
  <2> SUFFICES ASSUME NEW p \in Periods, NEW e \in Dims
               PROVE  SpentSince(p, e)' \in Nat /\ SpentSince(p, e) <= SpentSince(p, e)'
    OBVIOUS
  <2>1. CASE e = d /\ n \in p..MaxPeriod
    BY <1>1, <1>4, <2>1
  <2>2. CASE e # d \/ n \notin p..MaxPeriod
    BY <1>4, <2>2
  <2> QED BY <2>1, <2>2
<1>6. \A p \in Periods: p <= n => n \in p..MaxPeriod
  BY <1>1, BudgetAssumption DEF Periods
<1> QED
  BY <1>0, <1>4, <1>5, <1>6

LEMMA InitBacked == Init => BackedInv
<1> SUFFICES ASSUME Init PROVE BackedInv
  OBVIOUS
<1>1. TypeOK
  BY InitInv DEF Inv
<1>2. 0 \in Periods
  BY BudgetAssumption DEF Periods
<1>3. \A d \in Dims: SpentSince(0, d) \in Nat
  BY <1>1, <1>2, SpentSinceNat
<1> QED
  BY <1>3 DEF Init, BackedInv, Zero

(* Steps that leave the ledger and its files alone.                         *)
LEMMA BackedFrame ==
  ASSUME BackedInv, UNCHANGED <<period_start, counters, spent, snapshot, image, now, up>>
  PROVE  BackedInv'
BY SpentSinceSame DEF BackedInv

LEMMA RecordDimBacked ==
  ASSUME Inv, BackedInv, NEW w \in Workers, NEW d \in Dims, RecordDim(w, d)
  PROVE  BackedInv'
<1>1. /\ UNCHANGED <<now, up, period_start, image, snapshot>> /\ up
      /\ counters' = [counters EXCEPT ![d] = @ + usage[w][d]]
  BY DEF RecordDim, flushVars, diskVars
<1>2. /\ period_start \in Periods /\ counters \in [Dims -> Nat]
      /\ usage[w][d] \in Nat /\ image \in [Dims -> Nat \cup {NoFile}]
      /\ period_start <= now /\ TypeOK
  BY <1>1 DEF Inv, TypeOK, BackedInv
<1>3. PICK p, u: p = period_start /\ u = usage[w][d]
  OBVIOUS
<1>4. /\ \A q \in Periods: \A e \in Dims:
           SpentSince(q, e) \in Nat /\ SpentSince(q, e)' \in Nat
           /\ SpentSince(q, e) <= SpentSince(q, e)'
      /\ SpentSince(p, d)' = SpentSince(p, d) + u
  BY <1>2, <1>3, SpentSinceNat, SpentSinceGrows
<1>5. SpentSince(period_start, d)' = SpentSince(p, d)'
      /\ \A e \in Dims: SpentSince(period_start, e)' = SpentSince(p, e)'
  BY <1>1, <1>3 DEF SpentSince
<1>6. \A e \in Dims: counters'[e] <= SpentSince(p, e)'
  <2> SUFFICES ASSUME NEW e \in Dims PROVE counters'[e] <= SpentSince(p, e)'
    OBVIOUS
  <2>0. counters[e] \in Nat /\ counters[e] <= SpentSince(p, e)
    BY <1>1, <1>2, <1>3 DEF BackedInv
  <2>1. CASE e = d
    BY <1>1, <1>2, <1>3, <1>4, <2>0, <2>1
  <2>2. CASE e # d
    BY <1>1, <1>2, <1>3, <1>4, <2>0, <2>2
  <2> QED BY <2>1, <2>2
<1>7. \A e \in Dims: image[e] # NoFile => image[e] <= SpentSince(p, e)'
  <2> SUFFICES ASSUME NEW e \in Dims, image[e] # NoFile
               PROVE  image[e] <= SpentSince(p, e)'
    OBVIOUS
  <2>1. image[e] \in Nat /\ image[e] <= SpentSince(p, e)
    BY <1>2, <1>3 DEF BackedInv
  <2> QED BY <1>2, <1>3, <1>4, <2>1
<1>8. snapshot # NoFile =>
        \A e \in Dims: snapshot.entries[e] <= SpentSince(snapshot.period_start, e)'
  <2> SUFFICES ASSUME NEW e \in Dims, snapshot # NoFile
               PROVE  snapshot.entries[e] <= SpentSince(snapshot.period_start, e)'
    OBVIOUS
  <2>1. PICK q, v: q = snapshot.period_start /\ v = snapshot.entries[e]
    OBVIOUS
  <2>2. q \in Periods /\ v \in Nat
    BY <2>1 DEF Inv, TypeOK, SnapshotInv, File, LedgerSnapshot
  <2>3. v <= SpentSince(q, e)
    BY <2>1 DEF BackedInv
  <2>4. v <= SpentSince(q, e)'
    BY <1>4, <2>2, <2>3
  <2>5. SpentSince(snapshot.period_start, e)' = SpentSince(q, e)'
    BY <1>1, <2>1 DEF SpentSince
  <2> QED BY <2>1, <2>4, <2>5
<1> QED
  BY <1>1, <1>2, <1>5, <1>6, <1>7, <1>8 DEF BackedInv

(* What a flush loads is the counter's value, and what it writes is what it *)
(* has loaded.                                                              *)
LEMMA FlushBacked ==
  ASSUME Inv, BackedInv,
         \/ \E d \in Dims: FlushLoad(d)
         \/ FlushRename \/ FlushFailed \/ Crash
  PROVE  BackedInv'
<1>1. CASE \E d \in Dims: FlushLoad(d)
  <2>1. PICK d \in Dims: FlushLoad(d)
    BY <1>1
  <2>2. /\ UNCHANGED <<now, up, period_start, counters, spent, snapshot>> /\ up
        /\ image' = [image EXCEPT ![d] = counters[d]]
    BY <2>1 DEF FlushLoad, diskVars, history
  <2>3. \A e \in Dims: image'[e] = counters[e] \/ image'[e] = image[e]
    BY <2>2 DEF Inv, TypeOK
  <2>4. \A e \in Dims: image'[e] # NoFile => image'[e] <= SpentSince(period_start, e)
    BY <2>2, <2>3 DEF BackedInv
  <2> QED BY <2>2, <2>4, SpentSinceSame DEF BackedInv
<1>2. CASE FlushRename
  <2>1. /\ UNCHANGED <<now, up, period_start, counters, spent>> /\ snapshot' = tmp
        /\ \A d \in Dims: image'[d] = NoFile
    BY <1>2 DEF FlushRename, FlushEnd, history
  <2>2. /\ tmp = [period_start |-> period_start, entries |-> image]
        /\ \A d \in Dims: image[d] # NoFile
    BY <1>2 DEF FlushRename, Inv, FlushInv
  <2>3. tmp.period_start = period_start /\ tmp.entries = image
    BY <2>2
  <2>4. \A d \in Dims: snapshot'.entries[d] <= SpentSince(snapshot'.period_start, d)
    BY <2>1, <2>2, <2>3 DEF BackedInv
  <2> QED BY <2>1, <2>4, SpentSinceSame DEF BackedInv
<1>3. CASE FlushFailed
  <2>1. /\ UNCHANGED <<now, up, period_start, counters, spent, snapshot>>
        /\ \A d \in Dims: image'[d] = NoFile
    BY <1>3 DEF FlushFailed, FlushEnd, history, diskVars
  <2> QED BY <2>1, SpentSinceSame DEF BackedInv
<1>4. CASE Crash
  <2>1. /\ UNCHANGED <<spent, snapshot>> /\ ~up'
        /\ \A d \in Dims: image'[d] = NoFile
    BY <1>4 DEF Crash, FlushEnd, history, diskVars
  <2> QED BY <2>1, SpentSinceSame DEF BackedInv
<1> QED
  BY <1>1, <1>2, <1>3, <1>4

LEMMA RestartBacked ==
  ASSUME Inv, BackedInv, Restart
  PROVE  BackedInv'
<1>1. /\ UNCHANGED <<now, spent, snapshot, image>> /\ ~up
      /\ counters' = Restored /\ period_start' = now
  BY DEF Restart, flushVars, diskVars
<1>2. now \in Periods /\ TypeOK
  BY DEF Inv, TypeOK
<1>3. \A d \in Dims: SpentSince(now, d) \in Nat
  BY <1>2, SpentSinceNat
<1>4. \A d \in Dims: Restored[d] <= SpentSince(now, d)
  <2>1. CASE Restored = Zero
    BY <1>3, <2>1 DEF Zero
  <2>2. CASE /\ snapshot # NoFile /\ snapshot.period_start = now
             /\ Restored = snapshot.entries
    BY <2>2 DEF BackedInv
  <2> QED BY <2>1, <2>2 DEF Restored
<1>5. \A d \in Dims: image[d] = NoFile
  BY <1>1 DEF Inv, FlushInv
<1>6. now <= now
  BY <1>2 DEF Periods
<1> QED
  BY <1>1, <1>4, <1>5, <1>6, SpentSinceSame DEF BackedInv

LEMMA PeriodTurnsBacked ==
  ASSUME Inv, BackedInv, PeriodTurns
  PROVE  BackedInv'
<1>1. /\ UNCHANGED <<up, period_start, counters, spent, snapshot, image>>
      /\ now' = now + 1
  BY DEF PeriodTurns, flushVars, diskVars, history
<1>2. now \in Nat /\ period_start \in Nat
  BY DEF Inv, TypeOK, Periods
<1>3. up => period_start <= now + 1
  BY <1>2 DEF BackedInv
<1> QED
  BY <1>1, <1>3, SpentSinceSame DEF BackedInv

LEMMA NextBacked == Inv /\ BackedInv /\ [Next]_vars => BackedInv'
<1> SUFFICES ASSUME Inv, BackedInv, [Next]_vars PROVE BackedInv'
  OBVIOUS
<1>1. CASE UNCHANGED vars
  BY <1>1, BackedFrame DEF vars, flushVars, diskVars, history
<1>2. ASSUME NEW w \in Workers,
             \/ \E proposed \in Proposals: Check(w, proposed)
             \/ \E d \in Dims: CheckDim(w, d) \/ Rejected(w, d) \/ RecordDim(w, d)
             \/ Forwarded(w)
             \/ \E u \in Usages: Record(w, u)
             \/ Recorded(w) \/ NothingToRecord(w)
      PROVE  BackedInv'
  <2>1. CASE \E d \in Dims: RecordDim(w, d)
    BY <2>1, RecordDimBacked
  <2>2. CASE ~\E d \in Dims: RecordDim(w, d)
    <3>1. UNCHANGED <<now, up, period_start, counters, flushVars, diskVars, history>>
      BY <1>2, <2>2 DEF Check, CheckDim, Rejected, Forwarded, Record, Recorded,
                        NothingToRecord
    <3> QED BY <3>1, BackedFrame DEF flushVars, diskVars, history
  <2> QED BY <2>1, <2>2
<1>3. CASE (\E d \in Dims: FlushLoad(d)) \/ FlushRename \/ FlushFailed \/ Crash
  BY <1>3, FlushBacked
<1>4. CASE FlushBegin \/ FlushOpen \/ FlushWritten
  <2>1. UNCHANGED <<now, up, period_start, counters, spent, snapshot, image>>
    BY <1>4 DEF FlushBegin, FlushOpen, FlushWritten, diskVars, history
  <2> QED BY <2>1, BackedFrame
<1> QED
  BY <1>1, <1>2, <1>3, <1>4, RestartBacked, PeriodTurnsBacked DEF Next

(* No token is invented: across any number of flushes, crashes, restarts    *)
(* and hours, the counters never hold more than was recorded since the      *)
(* period in which the process started (budget.rs, flush, new and record).  *)
THEOREM NoPhantom == Spec => []NoPhantomUsage
<1>1. Inv /\ BackedInv /\ [Next]_vars => BackedInv'
  BY NextBacked
<1>2. Spec => []BackedInv
  BY <1>1, InitBacked, Invariance, PTL DEF Spec
<1>3. BackedInv => NoPhantomUsage
  BY DEF BackedInv, NoPhantomUsage
<1> QED
  BY <1>2, <1>3, PTL
=============================================================================
