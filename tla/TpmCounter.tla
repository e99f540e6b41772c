----------------------------- MODULE TpmCounter -----------------------------
(***************************************************************************)
(* The tokens-per-minute counter of one key (limits.rs): the table in      *)
(* which it is created on first use, under a read and then a write lock,   *)
(* and the two relaxed atomics that several threads add to and reset.      *)
(* metrics.rs (get_or_create) and budget.rs (counters_for) find their      *)
(* counters in the same way.                                               *)
(***************************************************************************)
EXTENDS Naturals, Sequences, FiniteSetsExt

CONSTANTS Threads,     \* threads that record usage of the key
          Amounts,     \* tokens of one usage
          Window,      \* the 60 seconds of a window, in ticks of the clock
          NoCounter,   \* the table has no entry
          MaxRecords,  \* bound: calls of record_tpm
          MaxNow       \* bound: the last tick

(* The epoch is at least a window before the program starts.                *)
ASSUME TpmAssumption ==
  /\ IsFiniteSet(Threads)
  /\ Amounts \subseteq Nat /\ Window \in Nat \ {0}
  /\ NoCounter \notin Nat /\ MaxRecords \in Nat
  /\ MaxNow \in Nat /\ MaxNow >= Window

VARIABLES
  now,        \* the clock
  entry,      \* the key's entry in tpm_counters: an index into heap
  heap,       \* the TpmCounters ever created
  pc,         \* where each thread is
  at, amount, \* its now_secs() and its tokens
  ref,        \* the counter it was given
  pending,    \* the stores of a reset it has yet to do
  records,    \* calls so far (history; bounded)
  byStart,    \* tokens of finished calls, by the tick they started in (history)
  byEnd       \* the same, by the tick they finished in (history)

callVars == <<at, amount, ref>>
doneVars == <<byStart, byEnd>>
vars == <<now, entry, heap, pc, callVars, pending, records, doneVars>>

Ticks == Window..MaxNow

Fields == {"window_start", "tokens"}

TypeOK ==
  /\ now \in Ticks
  /\ heap \in Seq([Fields -> Nat])
  /\ entry \in (1..Len(heap)) \cup {NoCounter}
  /\ pc \in [Threads -> {"idle", "lookup", "insert", "load", "reset", "add"}]
  /\ at \in [Threads -> Ticks] /\ amount \in [Threads -> Nat]
  /\ ref \in [Threads -> (1..Len(heap)) \cup {NoCounter}]
  /\ pending \in [Threads -> SUBSET Fields]
  /\ records \in 0..MaxRecords
  /\ byStart \in [Ticks -> Nat] /\ byEnd \in [Ticks -> Nat]

Init ==
  /\ now = Window
  /\ entry = NoCounter /\ heap = <<>>
  /\ pc = [t \in Threads |-> "idle"]
  /\ at = [t \in Threads |-> Window] /\ amount = [t \in Threads |-> 0]
  /\ ref = [t \in Threads |-> NoCounter]
  /\ pending = [t \in Threads |-> {}]
  /\ records = 0
  /\ byStart = [n \in Ticks |-> 0] /\ byEnd = [n \in Ticks |-> 0]

GoTo(t, where) == pc' = [pc EXCEPT ![t] = where]

-----------------------------------------------------------------------------
(* record_tpm: the clock is read before the counter is looked up.           *)
record_tpm(t, tokens) ==
  /\ pc[t] = "idle" /\ records < MaxRecords
  /\ records' = records + 1
  /\ at' = [at EXCEPT ![t] = now]
  /\ amount' = [amount EXCEPT ![t] = tokens]
  /\ GoTo(t, "lookup")
  /\ UNCHANGED <<now, entry, heap, ref, pending, doneVars>>

(* tpm_counter: under the read lock ...                                     *)
Lookup(t) ==
  /\ pc[t] = "lookup"
  /\ ref' = [ref EXCEPT ![t] = entry]
  /\ GoTo(t, IF entry = NoCounter THEN "insert" ELSE "load")
  /\ UNCHANGED <<now, entry, heap, at, amount, pending, records, doneVars>>

(* Mutant of Insert: the entry is not looked at again.                      *)
InsertBlind(t) ==
  /\ pc[t] = "insert"
  /\ heap' = Append(heap, [f \in Fields |-> 0])
  /\ entry' = Len(heap')
  /\ ref' = [ref EXCEPT ![t] = entry']
  /\ GoTo(t, "load")
  /\ UNCHANGED <<now, at, amount, pending, records, doneVars>>

(* ... and, if there was none, under the write lock: entry().or_insert_with *)
(* finds the counter that another thread may have inserted in between.      *)
Insert(t) ==
  /\ pc[t] = "insert"
  /\ IF entry = NoCounter
     THEN /\ heap' = Append(heap, [f \in Fields |-> 0])
          /\ entry' = Len(heap')
     ELSE UNCHANGED <<heap, entry>>
  /\ ref' = [ref EXCEPT ![t] = entry']
  /\ GoTo(t, "load")
  /\ UNCHANGED <<now, at, amount, pending, records, doneVars>>

-----------------------------------------------------------------------------
(* TpmCounter::add: window_start is loaded and compared with the thread's   *)
(* own time; saturating_sub makes a window in its future no reset.          *)
Load(t) ==
  /\ pc[t] = "load"
  /\ LET elapsed == at[t] >= heap[ref[t]]["window_start"] + Window
     IN  /\ GoTo(t, IF elapsed THEN "reset" ELSE "add")
         /\ pending' = [pending EXCEPT ![t] = IF elapsed THEN Fields ELSE {}]
  /\ UNCHANGED <<now, entry, heap, callVars, records, doneVars>>

(* The call is over: nothing of it is left but the history.                 *)
Return(t) ==
  /\ GoTo(t, "idle")
  /\ byStart' = [byStart EXCEPT ![at[t]] = @ + amount[t]]
  /\ byEnd' = [byEnd EXCEPT ![now] = @ + amount[t]]
  /\ at' = [at EXCEPT ![t] = Window]
  /\ amount' = [amount EXCEPT ![t] = 0]
  /\ ref' = [ref EXCEPT ![t] = NoCounter]

NotYet == UNCHANGED <<pc, callVars, doneVars>>

(* Mutant of Store: the tokens of the old window are kept.                  *)
StoreKeeping(t, f) ==
  /\ pc[t] = "reset" /\ f \in pending[t]
  /\ heap' = [heap EXCEPT ![ref[t]][f] =
                IF f = "window_start" THEN at[t] ELSE @ + amount[t]]
  /\ pending' = [pending EXCEPT ![t] = @ \ {f}]
  /\ IF pending'[t] = {} THEN Return(t) ELSE NotYet
  /\ UNCHANGED <<now, entry, records>>

(* A reset is two stores, which others may see in either order.             *)
Store(t, f) ==
  /\ pc[t] = "reset" /\ f \in pending[t]
  /\ heap' = [heap EXCEPT ![ref[t]][f] =
                IF f = "window_start" THEN at[t] ELSE amount[t]]
  /\ pending' = [pending EXCEPT ![t] = @ \ {f}]
  /\ IF pending'[t] = {} THEN Return(t) ELSE NotYet
  /\ UNCHANGED <<now, entry, records>>

(* Mutant of Add: fetch_sub instead of fetch_add.                           *)
AddBackwards(t) ==
  /\ pc[t] = "add"
  /\ heap' = [heap EXCEPT ![ref[t]]["tokens"] = @ - amount[t]]
  /\ Return(t)
  /\ UNCHANGED <<now, entry, pending, records>>

(* Within the window: one fetch_add, to whatever the tokens are by then.    *)
Add(t) ==
  /\ pc[t] = "add"
  /\ heap' = [heap EXCEPT ![ref[t]]["tokens"] = @ + amount[t]]
  /\ Return(t)
  /\ UNCHANGED <<now, entry, pending, records>>

(* A second passes.                                                         *)
Tick ==
  /\ now < MaxNow
  /\ now' = now + 1
  /\ UNCHANGED <<entry, heap, pc, callVars, pending, records, doneVars>>

Next ==
  \/ \E t \in Threads:
       \/ \E tokens \in Amounts: record_tpm(t, tokens)
       \/ Lookup(t) \/ Insert(t) \/ Load(t) \/ Add(t)
       \/ \E f \in Fields: Store(t, f)
  \/ Tick

Spec == Init /\ [][Next]_vars

-----------------------------------------------------------------------------
(* Every thread adds to the counter that readers of the table find, however *)
(* many threads meet at the key's first use.                                *)
OneCounter ==
  \A t \in Threads: pc[t] \in {"load", "reset", "add"} => ref[t] = entry

Quiescent == entry # NoCounter /\ \A t \in Threads: pc[t] = "idle"

Since(done) ==
  LET start == heap[entry]["window_start"]
  IN  SumFunctionOnSet(done, {n \in Ticks: n >= start})

(* With no call under way the counter holds no token of an earlier window:  *)
(* nothing that had been recorded before the window started, whatever       *)
(* resets and additions raced with each other.                              *)
NothingStale ==
  Quiescent => heap[entry]["tokens"] <= Since(byEnd)

(* "Add `tokens` to the current window, resetting if the window has         *)
(* elapsed. Returns the new total for this window." (limits.rs:84-85): the  *)
(* counter holds all tokens recorded since the window started.              *)
CountsWindow ==
  Quiescent => heap[entry]["tokens"] >= Since(byStart)
=============================================================================
