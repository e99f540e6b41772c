---------------------------- MODULE BudgetLedger ----------------------------
(***************************************************************************)
(* The token budget of one key (budget.rs), used as its documentation      *)
(* says: check before a request is forwarded, record once its usage is     *)
(* known, flush now and then, and a restart that reloads the snapshot.     *)
(*                                                                         *)
(* A worker serves one request at a time; loads and additions of the       *)
(* atomic counters are single steps that everyone may interleave with, in  *)
(* any order of the dimensions (they are Relaxed).  Flushing is the job of *)
(* one thread.  The process may die between any two steps.  Time is        *)
(* counted in accounting periods.                                          *)
(***************************************************************************)
EXTENDS Naturals, FiniteSets, FiniteSetsExt

CONSTANTS Workers,      \* requests of the key that may be served at once
          Dims,         \* "prompt", "completion", "total", or some of them
          Limits,       \* the key's BudgetLimit: dimension -> max or Unlimited
          Unlimited,    \* Option::None of a limit
          Proposals,    \* expected usages: functions from Dims to Nat
          Usages,       \* actual usages: functions from Dims to Nat
          MaxUsage,     \* no usage exceeds this, in any dimension
          NoFile,       \* the file does not exist
          Torn,         \* the file holds part of a snapshot
          MaxRequests,  \* bound: requests checked
          MaxPeriod     \* bound: the last period

ASSUME BudgetAssumption ==
  /\ IsFiniteSet(Workers)
  /\ Limits \in [Dims -> Nat \cup {Unlimited}] /\ Unlimited \notin Nat
  /\ MaxUsage \in Nat
  /\ Proposals \subseteq [Dims -> Nat]
  /\ Usages \subseteq [Dims -> 0..MaxUsage]
  /\ MaxRequests \in Nat /\ MaxPeriod \in Nat

Periods == 0..MaxPeriod
Zero == [d \in Dims |-> 0]
LedgerSnapshot == [period_start: Periods, entries: [Dims -> Nat]]
File == LedgerSnapshot \cup {NoFile, Torn}

ASSUME FileAssumption ==
  /\ NoFile # Torn /\ NoFile \notin Nat
  /\ NoFile \notin LedgerSnapshot /\ Torn \notin LedgerSnapshot

VARIABLES
  now,           \* the current accounting period
  up,            \* the process is running
  period_start,  \* LedgerInner.period_start
  counters,      \* KeyCounters
  pc,            \* where each worker is
  todo,          \* dimensions it has yet to check, or to add
  usage,         \* its expected usage, and later the actual one
  flusher,       \* where flush is
  image,         \* the entries flush has collected
  tmp, snapshot, \* the files
  admitted,      \* requests checked so far (history; bounded)
  spent,         \* tokens recorded in each period (history)
  kept,          \* those of spent that this process answers for (history):
                 \* recorded by it, or durable in its period when it started
  seen,          \* kept when the running flush began (history)
  durable        \* of the last completed flush: its period and seen (history)

history    == <<spent, kept>>
workerVars == <<pc, todo, usage>>
flushVars  == <<flusher, image, seen>>
diskVars   == <<tmp, snapshot, durable>>
vars == <<now, up, period_start, counters, workerVars, flushVars, diskVars,
          admitted, history>>

TypeOK ==
  /\ now \in Periods /\ up \in BOOLEAN /\ period_start \in Periods
  /\ counters \in [Dims -> Nat]
  /\ pc \in [Workers -> {"idle", "checking", "forwarded", "recording"}]
  /\ todo \in [Workers -> SUBSET Dims]
  /\ usage \in [Workers -> [Dims -> Nat]]
  /\ flusher \in {"idle", "collecting", "writing", "written"}
  /\ image \in [Dims -> Nat \cup {NoFile}]
  /\ tmp \in File /\ snapshot \in File
  /\ admitted \in Nat
  /\ {spent, kept, seen} \subseteq [Periods -> [Dims -> Nat]]
  /\ durable \in [period: Periods, spent: [Periods -> [Dims -> Nat]]]

-----------------------------------------------------------------------------
NoneSpent == [p \in Periods |-> Zero]

Init ==
  /\ now = 0 /\ up = TRUE /\ period_start = 0
  /\ counters = Zero
  /\ pc = [w \in Workers |-> "idle"]
  /\ todo = [w \in Workers |-> {}]
  /\ usage = [w \in Workers |-> Zero]
  /\ flusher = "idle" /\ image = [d \in Dims |-> NoFile]
  /\ tmp = NoFile /\ snapshot = NoFile
  /\ admitted = 0
  /\ spent = NoneSpent /\ kept = NoneSpent /\ seen = NoneSpent
  /\ durable = [period |-> 0, spent |-> NoneSpent]

-----------------------------------------------------------------------------
(* check: would_exceed loads one counter after the other and stops at the   *)
(* first limit that the expected usage would exceed.                        *)
Check(w, proposed) ==
  /\ up /\ pc[w] = "idle"
  /\ admitted < MaxRequests
  /\ pc' = [pc EXCEPT ![w] = "checking"]
  /\ todo' = [todo EXCEPT ![w] = Dims]
  /\ usage' = [usage EXCEPT ![w] = proposed]
  /\ admitted' = admitted + 1
  /\ UNCHANGED <<now, up, period_start, counters, flushVars, diskVars, history>>

Exceeds(w, d) ==
  Limits[d] # Unlimited /\ counters[d] + usage[w][d] > Limits[d]

(* Mutant of CheckDim: a reached limit is not noticed.                      *)
CheckDimLate(w, d) ==
  /\ up /\ pc[w] = "checking" /\ d \in todo[w]
  /\ todo' = [todo EXCEPT ![w] = @ \ {d}]
  /\ UNCHANGED <<now, up, period_start, counters, pc, usage, flushVars, diskVars,
                 admitted, history>>

CheckDim(w, d) ==
  /\ up /\ pc[w] = "checking" /\ d \in todo[w]
  /\ ~Exceeds(w, d)
  /\ todo' = [todo EXCEPT ![w] = @ \ {d}]
  /\ UNCHANGED <<now, up, period_start, counters, pc, usage, flushVars, diskVars,
                 admitted, history>>

Rejected(w, d) ==
  /\ up /\ pc[w] = "checking" /\ d \in todo[w]
  /\ Exceeds(w, d)
  /\ pc' = [pc EXCEPT ![w] = "idle"]
  /\ todo' = [todo EXCEPT ![w] = {}]
  /\ usage' = [usage EXCEPT ![w] = Zero]
  /\ UNCHANGED <<now, up, period_start, counters, flushVars, diskVars,
                 admitted, history>>

Forwarded(w) ==
  /\ up /\ pc[w] = "checking" /\ todo[w] = {}
  /\ pc' = [pc EXCEPT ![w] = "forwarded"]
  /\ usage' = [usage EXCEPT ![w] = Zero]
  /\ UNCHANGED <<now, up, period_start, counters, todo, flushVars, diskVars,
                 admitted, history>>

(* record: add_usage adds one dimension after the other.                    *)
Record(w, u) ==
  /\ up /\ pc[w] = "forwarded"
  /\ pc' = [pc EXCEPT ![w] = "recording"]
  /\ todo' = [todo EXCEPT ![w] = Dims]
  /\ usage' = [usage EXCEPT ![w] = u]
  /\ UNCHANGED <<now, up, period_start, counters, flushVars, diskVars, admitted,
                 history>>

RecordDim(w, d) ==
  /\ up /\ pc[w] = "recording" /\ d \in todo[w]
  /\ counters' = [counters EXCEPT ![d] = @ + usage[w][d]]
  /\ spent' = [spent EXCEPT ![now][d] = @ + usage[w][d]]
  /\ kept' = [kept EXCEPT ![now][d] = @ + usage[w][d]]
  /\ todo' = [todo EXCEPT ![w] = @ \ {d}]
  /\ UNCHANGED <<now, up, period_start, pc, usage, flushVars, diskVars, admitted>>

Recorded(w) ==
  /\ up /\ pc[w] = "recording" /\ todo[w] = {}
  /\ pc' = [pc EXCEPT ![w] = "idle"]
  /\ usage' = [usage EXCEPT ![w] = Zero]
  /\ UNCHANGED <<now, up, period_start, counters, todo, flushVars, diskVars,
                 admitted, history>>

(* The request ended without usage: nothing is recorded.                    *)
NothingToRecord(w) ==
  /\ up /\ pc[w] = "forwarded"
  /\ pc' = [pc EXCEPT ![w] = "idle"]
  /\ usage' = [usage EXCEPT ![w] = Zero]
  /\ UNCHANGED <<now, up, period_start, counters, todo, flushVars, diskVars,
                 admitted, history>>

-----------------------------------------------------------------------------
(* flush: the counters are loaded one by one while others add to them, then *)
(* written to the .tmp file, which is renamed over the snapshot.            *)
FlushBegin ==
  /\ up /\ flusher = "idle"
  /\ flusher' = "collecting"
  /\ seen' = kept
  /\ UNCHANGED <<now, up, period_start, counters, workerVars, image, diskVars,
                 admitted, history>>

FlushLoad(d) ==
  /\ up /\ flusher = "collecting" /\ image[d] = NoFile
  /\ image' = [image EXCEPT ![d] = counters[d]]
  /\ UNCHANGED <<now, up, period_start, counters, workerVars, flusher, seen,
                 diskVars, admitted, history>>

(* Mutant of FlushOpen: the snapshot is written in place.                   *)
FlushOpenInPlace ==
  /\ up /\ flusher = "collecting" /\ \A d \in Dims: image[d] # NoFile
  /\ flusher' = "writing"
  /\ snapshot' = Torn /\ tmp' = Torn
  /\ UNCHANGED <<now, up, period_start, counters, workerVars, image, seen,
                 durable, admitted, history>>

(* Mutant of FlushOpen: the collecting is not waited for.                   *)
FlushOpenEarly ==
  /\ up /\ flusher = "collecting"
  /\ flusher' = "writing"
  /\ tmp' = Torn
  /\ UNCHANGED <<now, up, period_start, counters, workerVars, image, seen,
                 snapshot, durable, admitted, history>>

FlushOpen ==
  /\ up /\ flusher = "collecting" /\ \A d \in Dims: image[d] # NoFile
  /\ flusher' = "writing"
  /\ tmp' = Torn
  /\ UNCHANGED <<now, up, period_start, counters, workerVars, image, seen,
                 snapshot, durable, admitted, history>>

FlushWritten ==
  /\ up /\ flusher = "writing"
  /\ flusher' = "written"
  /\ tmp' = [period_start |-> period_start, entries |-> image]
  /\ UNCHANGED <<now, up, period_start, counters, workerVars, image, seen,
                 snapshot, durable, admitted, history>>

FlushEnd ==
  flusher' = "idle" /\ image' = [d \in Dims |-> NoFile] /\ seen' = NoneSpent

FlushRename ==
  /\ up /\ flusher = "written"
  /\ FlushEnd
  /\ snapshot' = tmp /\ tmp' = NoFile
  /\ durable' = [period |-> period_start, spent |-> seen]
  /\ UNCHANGED <<now, up, period_start, counters, workerVars, admitted, history>>

(* Mutant of FlushFailed: the cleanup removes the snapshot.                 *)
FlushFailedCleansUp ==
  /\ up /\ flusher \in {"writing", "written"}
  /\ FlushEnd
  /\ snapshot' = NoFile
  /\ UNCHANGED <<now, up, period_start, counters, workerVars, tmp, durable,
                 admitted, history>>

(* write or rename fails: flush returns the error and leaves the .tmp file. *)
FlushFailed ==
  /\ up /\ flusher \in {"writing", "written"}
  /\ FlushEnd
  /\ UNCHANGED <<now, up, period_start, counters, workerVars, diskVars, admitted,
                 history>>

-----------------------------------------------------------------------------
(* The process dies: what was in memory is gone, the files stay.            *)
Crash ==
  /\ up
  /\ up' = FALSE
  /\ counters' = Zero
  /\ pc' = [w \in Workers |-> "idle"]
  /\ todo' = [w \in Workers |-> {}]
  /\ usage' = [w \in Workers |-> Zero]
  /\ FlushEnd
  /\ UNCHANGED <<now, period_start, diskVars, admitted, history>>

(* Mutant of Restored: a snapshot of any period is taken over.              *)
RestoredAlways ==
  IF snapshot \in {NoFile, Torn} THEN Zero ELSE snapshot.entries

(* BudgetLedger::new: a readable snapshot of the current period is taken    *)
(* over, any other is ignored.                                              *)
Restored ==
  IF snapshot \in {NoFile, Torn} THEN Zero
  ELSE IF snapshot.period_start = now THEN snapshot.entries ELSE Zero

Restart ==
  /\ ~up
  /\ up' = TRUE
  /\ period_start' = now
  /\ counters' = Restored
  /\ kept' = IF durable.period = now
             THEN [NoneSpent EXCEPT ![now] = durable.spent[now]]
             ELSE NoneSpent
  /\ UNCHANGED <<now, workerVars, flushVars, diskVars, admitted, spent>>

(* The hour turns. A running ledger does not notice.                        *)
PeriodTurns ==
  /\ now < MaxPeriod
  /\ now' = now + 1
  /\ UNCHANGED <<up, period_start, counters, workerVars, flushVars, diskVars,
                 admitted, history>>

Next ==
  \/ \E w \in Workers:
       \/ \E proposed \in Proposals: Check(w, proposed)
       \/ \E d \in Dims: CheckDim(w, d) \/ Rejected(w, d) \/ RecordDim(w, d)
       \/ Forwarded(w)
       \/ \E u \in Usages: Record(w, u)
       \/ Recorded(w) \/ NothingToRecord(w)
  \/ FlushBegin \/ (\E d \in Dims: FlushLoad(d)) \/ FlushOpen \/ FlushWritten
  \/ FlushRename \/ FlushFailed
  \/ Crash \/ Restart \/ PeriodTurns

Spec == Init /\ [][Next]_vars

-----------------------------------------------------------------------------
Overshoot(d) == Limits[d] + Cardinality(Workers) * MaxUsage

(* A budget is overrun by at most one usage per worker, in each dimension:  *)
(* every request that passed its check and has not been recorded yet can    *)
(* still add one.                                                           *)
OverrunBounded ==
  \A d \in Dims: Limits[d] # Unlimited => counters[d] <= Overshoot(d)

(* The snapshot file never holds part of a snapshot, wherever the process   *)
(* dies and whether or not the write succeeds.                              *)
SnapshotNeverTorn == snapshot # Torn

(* Tokens recorded in period p and later.                                   *)
SpentSince(p, d) ==
  SumFunctionOnSet([q \in Periods |-> spent[q][d]], p..MaxPeriod)

(* Tokens are not invented: the counters never hold more than was recorded  *)
(* since the period in which the process started, restarts included.        *)
NoPhantomUsage ==
  up => \A d \in Dims: counters[d] <= SpentSince(period_start, d)

(* Whatever was recorded in this period before a flush began is there again *)
(* after a restart in the same period, provided that the process that       *)
(* flushed had started in it.                                               *)
SurvivesRestart ==
  [][Restart /\ durable.period = now =>
       \A d \in Dims: counters'[d] >= durable.spent[now][d]]_vars

(* "On startup the snapshot is re-loaded so budgets survive restarts within *)
(* the same accounting period" (budget.rs:13-15).                           *)
SurvivesRestartInPeriod ==
  [][Restart =>
       \A d \in Dims: counters'[d] >= durable.spent[now][d]]_vars
=============================================================================
