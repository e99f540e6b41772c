-------------------------- MODULE TpmCounterProofs --------------------------
(***************************************************************************)
(* TpmCounter keeps its type, has one counter per key, and carries nothing *)
(* of an earlier window over into the current one, for any number of       *)
(* threads, calls and ticks.                                               *)
(***************************************************************************)
EXTENDS TpmCounter, DataTheorems

(* A thread in the middle of a reset has stores left, and no other has.     *)
PendingMatches ==
  \A t \in Threads: pc[t] = "reset" <=> pending[t] # {}

(* The table has an entry when a thread works on a counter.                 *)
EntryExists ==
  \A t \in Threads: pc[t] \in {"load", "reset", "add"} => entry # NoCounter

(* Nothing happens in the future.                                           *)
NoFuture ==
  /\ \A t \in Threads: at[t] <= now
  /\ entry # NoCounter => heap[entry]["window_start"] <= now

(* The threads that have stored their tokens and not yet their window.      *)
Halfway == {t \in Threads: pending[t] = {"window_start"}}

Ended(v) == {n \in Ticks: n >= v}

(* What the counter holds was recorded by calls that ended at v or later,   *)
(* or is that of a reset whose other store is yet to come.                  *)
Fresh(v) ==
  heap[entry]["tokens"] <=
    SumFunctionOnSet(byEnd, Ended(v)) + SumFunctionOnSet(amount, Halfway)

(* The counter is fresh for its window, unless a reset has moved the window *)
(* and is about to store its tokens ...                                     *)
FreshOrMoved ==
  entry # NoCounter =>
    \/ \E t \in Threads: pending[t] = {"tokens"}
    \/ Fresh(heap[entry]["window_start"])

(* ... and it is fresh for the window that a reset is about to store.       *)
FreshForReset ==
  \A t \in Halfway: Fresh(at[t])

Shape == TypeOK /\ OneCounter /\ PendingMatches /\ EntryExists /\ NoFuture

IInv == Shape /\ FreshOrMoved /\ FreshForReset

-----------------------------------------------------------------------------
(* The shape of the state: the lookup, the calls under way and the clock.   *)

(* Nothing has happened yet.                                                *)
LEMMA InitShape == Init => Shape
<1> SUFFICES ASSUME Init PROVE Shape
  OBVIOUS
<1> USE TpmAssumption DEF Init, Ticks, Fields
<1>1. TypeOK
  <2>1. heap \in Seq([Fields -> Nat])
    OBVIOUS
  <2> QED BY <2>1 DEF TypeOK
<1>2. OneCounter /\ PendingMatches /\ EntryExists /\ NoFuture
  BY DEF OneCounter, PendingMatches, EntryExists, NoFuture
<1> QED BY <1>1, <1>2 DEF Shape

(* record_tpm starts a call at the clock's time.                            *)
LEMMA RecordShape ==
  ASSUME Shape, NEW t \in Threads, NEW tokens \in Amounts, record_tpm(t, tokens)
  PROVE  Shape'
<1> USE TpmAssumption DEF Shape, record_tpm, GoTo, doneVars, TypeOK
<1>1. TypeOK'
  OBVIOUS
<1>2. OneCounter' /\ PendingMatches' /\ EntryExists'
  BY DEF OneCounter, PendingMatches, EntryExists
<1>3. NoFuture'
  BY DEF NoFuture, Ticks
<1> QED BY <1>1, <1>2, <1>3

(* tpm_counter under the read lock gives the entry that is there.           *)
LEMMA LookupShape ==
  ASSUME Shape, NEW t \in Threads, Lookup(t)
  PROVE  Shape'
<1> USE TpmAssumption DEF Shape, Lookup, GoTo, doneVars, TypeOK
<1>1. TypeOK'
  OBVIOUS
<1>2. OneCounter' /\ PendingMatches' /\ EntryExists'
  BY DEF OneCounter, PendingMatches, EntryExists
<1>3. NoFuture'
  BY DEF NoFuture
<1> QED BY <1>1, <1>2, <1>3

(* Under the write lock the first thread creates the counter, and those     *)
(* that met it there are given the same one.                                *)
LEMMA InsertShape ==
  ASSUME Shape, NEW t \in Threads, Insert(t)
  PROVE  Shape'
<1> DEFINE fresh == [f \in Fields |-> 0]
<1> USE TpmAssumption DEF Shape, Insert, GoTo, doneVars
<1>1. CASE entry = NoCounter
  <2>1. fresh \in [Fields -> Nat] /\ fresh["window_start"] = 0
    BY DEF Fields
  <2>2. /\ heap' = Append(heap, fresh) /\ entry' = Len(heap')
        /\ heap' \in Seq([Fields -> Nat]) /\ Len(heap') = Len(heap) + 1
        /\ heap'[entry'] = fresh
    <3> HIDE DEF fresh
    <3>1. heap' = Append(heap, fresh) /\ entry' = Len(heap')
      BY <1>1 DEF fresh
    <3> QED BY <2>1, <3>1 DEF TypeOK
  <2> HIDE DEF fresh
  <2>3. TypeOK'
    BY <2>2 DEF TypeOK
  <2>4. entry' \in Nat
    BY <2>2 DEF TypeOK
  <2>5. \A x \in Threads: pc[x] \notin {"load", "reset", "add"}
    BY <1>1 DEF EntryExists
  <2>6. OneCounter' /\ PendingMatches' /\ EntryExists'
    BY <2>4, <2>5 DEF OneCounter, PendingMatches, EntryExists, TypeOK
  <2>7. NoFuture'
    BY SMTT(30), <2>1, <2>2 DEF NoFuture, TypeOK, Ticks
  <2> QED BY <2>3, <2>6, <2>7
<1>2. CASE entry # NoCounter
  <2>1. TypeOK'
    BY <1>2 DEF TypeOK
  <2>2. OneCounter' /\ PendingMatches' /\ EntryExists'
    BY <1>2 DEF OneCounter, PendingMatches, EntryExists, TypeOK
  <2>3. NoFuture'
    BY <1>2 DEF NoFuture, TypeOK
  <2> QED BY <2>1, <2>2, <2>3
<1> QED BY <1>1, <1>2

(* add decides whether the window has elapsed.                              *)
LEMMA LoadShape ==
  ASSUME Shape, NEW t \in Threads, Load(t)
  PROVE  Shape'
<1> USE TpmAssumption DEF Shape, Load, GoTo, doneVars, callVars, TypeOK
<1>1. TypeOK'
  OBVIOUS
<1>2. OneCounter' /\ EntryExists'
  BY DEF OneCounter, EntryExists
<1>3. PendingMatches'
  BY DEF PendingMatches, Fields
<1>4. NoFuture'
  BY DEF NoFuture
<1> QED BY <1>1, <1>2, <1>3, <1>4

(* The end of a call.                                                       *)
LEMMA ReturnShape ==
  ASSUME Shape, NEW t \in Threads, Return(t), pending'[t] = {},
         \A x \in Threads \ {t}: pending'[x] = pending[x],
         pending' \in [Threads -> SUBSET Fields],
         heap' \in Seq([Fields -> Nat]), Len(heap') = Len(heap),
         entry # NoCounter => heap'[entry]["window_start"] <= now,
         UNCHANGED <<now, entry, records>>
  PROVE  Shape'
<1>0. byStart' \in [Ticks -> Nat] /\ byEnd' \in [Ticks -> Nat]
  <2>1. /\ at[t] \in Ticks /\ now \in Ticks /\ amount[t] \in Nat
        /\ byStart \in [Ticks -> Nat] /\ byEnd \in [Ticks -> Nat]
    BY DEF Shape, TypeOK
  <2>2. byStart[at[t]] + amount[t] \in Nat /\ byEnd[now] + amount[t] \in Nat
    BY <2>1
  <2> QED BY <2>1, <2>2 DEF Return
<1> USE TpmAssumption DEF Shape, Return, GoTo
<1>1. TypeOK'
  <2> USE DEF TypeOK
  <2>1. byStart' \in [Ticks -> Nat] /\ byEnd' \in [Ticks -> Nat]
    BY <1>0
  <2>2. at' \in [Threads -> Ticks] /\ amount' \in [Threads -> Nat]
    BY SMTT(30) DEF Ticks
  <2> QED BY <2>1, <2>2
<1>2. OneCounter' /\ EntryExists'
  BY DEF OneCounter, EntryExists, TypeOK
<1>3. PendingMatches'
  BY DEF PendingMatches, TypeOK
<1>4. NoFuture'
  BY DEF NoFuture, TypeOK, Ticks
<1> QED BY <1>1, <1>2, <1>3, <1>4

(* The numbers that a step works with.                                      *)
LEMMA CounterNumbers ==
  ASSUME Shape, entry # NoCounter
  PROVE  /\ heap[entry]["window_start"] \in Nat /\ heap[entry]["tokens"] \in Nat
         /\ heap[entry]["window_start"] <= now
BY DEF Shape, TypeOK, NoFuture, Fields

LEMMA CallNumbers ==
  ASSUME Shape, NEW t \in Threads
  PROVE  at[t] \in Nat /\ at[t] <= now /\ amount[t] \in Nat
BY TpmAssumption DEF Shape, TypeOK, NoFuture, Ticks

(* What the two ways of adding do to the counter.                           *)
LEMMA AddEffect ==
  ASSUME Shape, NEW t \in Threads, Add(t)
  PROVE  /\ entry \in 1..Len(heap) /\ entry # NoCounter
         /\ heap' \in Seq([Fields -> Nat]) /\ Len(heap') = Len(heap)
         /\ heap'[entry]["window_start"] = heap[entry]["window_start"]
         /\ heap'[entry]["tokens"] = heap[entry]["tokens"] + amount[t]
BY SMTT(30) DEF Shape, TypeOK, OneCounter, EntryExists, Add, Fields

LEMMA StoreEffect ==
  ASSUME Shape, NEW t \in Threads, NEW f \in Fields, Store(t, f)
  PROVE  /\ entry \in 1..Len(heap) /\ entry # NoCounter
         /\ heap' \in Seq([Fields -> Nat]) /\ Len(heap') = Len(heap)
         /\ heap'[entry]["window_start"] =
              IF f = "window_start" THEN at[t] ELSE heap[entry]["window_start"]
         /\ heap'[entry]["tokens"] =
              IF f = "tokens" THEN amount[t] ELSE heap[entry]["tokens"]
         /\ pending' \in [Threads -> SUBSET Fields]
         /\ pending'[t] = pending[t] \ {f}
         /\ \A x \in Threads \ {t}: pending'[x] = pending[x]
<1>1. entry \in 1..Len(heap) /\ entry # NoCounter /\ ref[t] = entry
  BY DEF Shape, TypeOK, OneCounter, EntryExists, Store
<1>2. at[t] \in Nat /\ amount[t] \in Nat
  BY TpmAssumption DEF Shape, TypeOK, Ticks
<1>3. heap \in Seq([Fields -> Nat]) /\ pending \in [Threads -> SUBSET Fields]
  BY DEF Shape, TypeOK
<1> QED
  BY <1>1, <1>2, <1>3 DEF Store, Fields

(* A fetch_add within the window.                                           *)
LEMMA AddShape ==
  ASSUME Shape, NEW t \in Threads, Add(t)
  PROVE  Shape'
<1>1. pending' = pending /\ pending[t] = {} /\ UNCHANGED <<now, entry, records>>
  BY DEF Add, Shape, PendingMatches
<1>2. entry # NoCounter => heap'[entry]["window_start"] <= now
  BY AddEffect DEF Shape, NoFuture
<1>3. Return(t) /\ pending' \in [Threads -> SUBSET Fields]
  BY <1>1 DEF Add, Shape, TypeOK
<1> QED
  BY <1>1, <1>2, <1>3, AddEffect, ReturnShape

(* A store of a reset, the last one or not.                                 *)
LEMMA StoreShape ==
  ASSUME Shape, NEW t \in Threads, NEW f \in Fields, Store(t, f)
  PROVE  Shape'
<1>1. UNCHANGED <<now, entry, records>>
  BY DEF Store
<1>2. at[t] <= now /\ (entry # NoCounter => heap[entry]["window_start"] <= now)
  BY DEF Shape, NoFuture
<1>3. entry # NoCounter => heap'[entry]["window_start"] <= now
  BY <1>2, StoreEffect
<1>4. CASE pending'[t] = {}
  <2>1. Return(t)
    BY <1>4 DEF Store
  <2> QED BY <1>1, <1>3, <1>4, <2>1, StoreEffect, ReturnShape
<1>5. CASE pending'[t] # {}
  <2>1. NotYet /\ pc[t] = "reset"
    BY <1>5 DEF Store
  <2> USE <1>1, <2>1, StoreEffect DEF Shape, NotYet, callVars, doneVars
  <2>2. TypeOK'
    BY DEF TypeOK
  <2>3. OneCounter' /\ EntryExists'
    BY DEF OneCounter, EntryExists
  <2>4. PendingMatches'
    BY <1>5 DEF PendingMatches
  <2>5. NoFuture'
    BY <1>3 DEF NoFuture
  <2> QED BY <2>2, <2>3, <2>4, <2>5
<1> QED BY <1>4, <1>5

(* The clock moves on.                                                      *)
LEMMA TickShape ==
  ASSUME Shape, Tick
  PROVE  Shape'
<1> USE TpmAssumption DEF Shape, Tick, callVars, doneVars
<1>1. TypeOK'
  BY DEF TypeOK, Ticks
<1>2. OneCounter' /\ PendingMatches' /\ EntryExists'
  BY DEF OneCounter, PendingMatches, EntryExists
<1>3. NoFuture'
  <2>1. entry # NoCounter => heap[entry]["window_start"] \in Nat
    BY DEF TypeOK, Fields
  <2>2. now \in Nat /\ now' \in Nat /\ now <= now' /\ UNCHANGED <<at, entry, heap>>
    BY DEF TypeOK, Ticks
  <2>3. \A t \in Threads: at[t] \in Nat
    BY DEF TypeOK, Ticks
  <2>4. \A t \in Threads: at'[t] <= now'
    BY <2>2, <2>3 DEF NoFuture
  <2>5. entry' # NoCounter => heap'[entry']["window_start"] <= now'
    BY <2>1, <2>2 DEF NoFuture
  <2> QED BY <2>4, <2>5 DEF NoFuture
<1> QED BY <1>1, <1>2, <1>3

-----------------------------------------------------------------------------
(* What the counter holds.                                                  *)

(* The sets that are summed over are finite.                                *)
LEMMA FiniteSums ==
  /\ \A v: IsFiniteSet(Ended(v))
  /\ IsFiniteSet(Halfway) /\ IsFiniteSet(Halfway')
<1>1. IsFiniteSet(Ticks)
  BY TpmAssumption, FS_Interval DEF Ticks
<1>2. \A v: Ended(v) \subseteq Ticks
  BY DEF Ended
<1>3. Halfway \subseteq Threads /\ Halfway' \subseteq Threads
  BY DEF Halfway
<1> QED
  BY <1>1, <1>2, <1>3, FS_Subset, TpmAssumption

LEMMA SumsAreNat ==
  ASSUME TypeOK
  PROVE  /\ \A v: SumFunctionOnSet(byEnd, Ended(v)) \in Nat
         /\ SumFunctionOnSet(amount, Halfway) \in Nat
<1>1. \A v: \A n \in Ended(v): byEnd[n] \in Nat
  BY DEF Ended, TypeOK
<1>2. \A t \in Halfway: amount[t] \in Nat
  BY DEF Halfway, TypeOK
<1> QED
  BY <1>1, <1>2, FiniteSums, SumType

(* A call that returns now is counted for every window that has started.    *)
LEMMA ReturnCounts ==
  ASSUME TypeOK, TypeOK', NEW t \in Threads, Return(t), NEW v \in Nat, v <= now
  PROVE  SumFunctionOnSet(byEnd', Ended(v)) =
           SumFunctionOnSet(byEnd, Ended(v)) + amount[t]
<1>1. now \in Ended(v)
  BY DEF Ended, TypeOK
<1>2. \A n \in Ended(v): byEnd[n] \in Nat /\ byEnd'[n] \in Nat
  BY DEF Ended, TypeOK
<1>3. \A n \in Ended(v) \ {now}: byEnd'[n] = byEnd[n]
  BY DEF Return, TypeOK, Ended
<1>4. byEnd'[now] = byEnd[now] + amount[t] /\ byEnd[now] \in Nat /\ amount[t] \in Nat
  BY DEF Return, TypeOK
<1>5. IsFiniteSet(Ended(v))
  BY FiniteSums
<1>6. SumFunctionOnSet(byEnd', Ended(v)) =
        SumFunctionOnSet(byEnd, Ended(v)) - byEnd[now] + byEnd'[now]
  BY <1>1, <1>2, <1>3, <1>5, SumChange
<1>7. SumFunctionOnSet(byEnd, Ended(v)) \in Nat
  BY SumsAreNat
<1> QED
  BY <1>4, <1>6, <1>7

(* What is half-way does not change with a thread that is in no reset.      *)
LEMMA HalfwaySame ==
  ASSUME TypeOK, TypeOK', NEW t \in Threads, t \notin Halfway, t \notin Halfway',
         \A x \in Threads \ {t}: pending'[x] = pending[x] /\ amount'[x] = amount[x]
  PROVE  /\ Halfway' = Halfway
         /\ SumFunctionOnSet(amount', Halfway') = SumFunctionOnSet(amount, Halfway)
<1>1. Halfway' = Halfway
  BY DEF Halfway
<1>2. \A x \in Halfway: amount[x] = amount'[x]
  BY DEF Halfway
<1>3. SumFunctionOnSet(amount, Halfway) = SumFunctionOnSet(amount', Halfway)
  BY <1>2, FiniteSums, SumSame
<1> QED
  BY <1>1, <1>3

(* Steps that leave the counter and the finished calls alone.               *)
LEMMA FreshSame ==
  ASSUME TypeOK, TypeOK', UNCHANGED <<entry, heap, byEnd>>,
         SumFunctionOnSet(amount', Halfway') = SumFunctionOnSet(amount, Halfway)
  PROVE  \A v: Fresh(v)' <=> Fresh(v)
BY DEF Fresh, Ended, Ticks

(* The inductive invariant, as far as it is about tokens.                   *)
Tokens == FreshOrMoved /\ FreshForReset

(* A step of a thread that touches neither the counter nor a reset under    *)
(* way: a call begins, a counter is found, the window is looked at.         *)
LEMMA QuietTokens ==
  ASSUME IInv, Shape', NEW t \in Threads,
         UNCHANGED <<entry, heap, byEnd>>,
         pending[t] = {}, pending'[t] \in {{}, Fields},
         \A x \in Threads \ {t}:
           /\ pending'[x] = pending[x] /\ amount'[x] = amount[x] /\ at'[x] = at[x]
  PROVE  Tokens'
<1>1. t \notin Halfway /\ t \notin Halfway'
  BY DEF Halfway, Fields
<1>2. /\ Halfway' = Halfway
      /\ SumFunctionOnSet(amount', Halfway') = SumFunctionOnSet(amount, Halfway)
  BY <1>1, HalfwaySame DEF IInv, Shape
<1>3. \A v: Fresh(v)' <=> Fresh(v)
  BY <1>2, FreshSame DEF IInv, Shape
<1>4. FreshOrMoved'
  <2>1. \A x \in Threads: pending[x] = {"tokens"} => pending'[x] = {"tokens"}
    OBVIOUS
  <2> QED BY <1>2, <2>1 DEF IInv, FreshOrMoved, Fresh
<1>5. FreshForReset'
  <2> SUFFICES ASSUME NEW x \in Halfway PROVE Fresh(at[x])'
    BY <1>2 DEF FreshForReset
  <2>1. Fresh(at[x]) /\ at'[x] = at[x]
    BY <1>1 DEF IInv, FreshForReset, Halfway
  <2> QED BY <1>2, <2>1 DEF Fresh
<1> QED BY <1>4, <1>5 DEF Tokens

(* The counter is created, empty, when nobody is in a reset.                *)
LEMMA InsertTokens ==
  ASSUME IInv, Shape', NEW t \in Threads, Insert(t)
  PROVE  Tokens'
<1>1. /\ pending' = pending /\ amount' = amount /\ at' = at /\ byEnd' = byEnd
      /\ pending[t] = {}
  BY DEF Insert, IInv, Shape, PendingMatches, doneVars
<1>2. CASE entry = NoCounter
  <2>1. \A x \in Threads: pending'[x] = {}
    BY <1>1, <1>2 DEF IInv, Shape, EntryExists, PendingMatches
  <2>2. heap'[entry']["tokens"] = 0
    BY SMTT(30), <1>2 DEF Insert, IInv, Shape, TypeOK, Fields
  <2>3. /\ \A v: SumFunctionOnSet(byEnd, Ended(v)) \in Nat
        /\ SumFunctionOnSet(amount, Halfway) \in Nat
    BY SumsAreNat DEF IInv, Shape
  <2>4. Halfway' = Halfway
    BY <1>1 DEF Halfway
  <2>5. \A v: 0 <= SumFunctionOnSet(byEnd, Ended(v)) + SumFunctionOnSet(amount, Halfway)
    BY <2>3
  <2>6. FreshOrMoved'
    BY <1>1, <2>2, <2>4, <2>5 DEF FreshOrMoved, Fresh
  <2>7. FreshForReset'
    BY <2>1 DEF FreshForReset, Halfway
  <2> QED BY <2>6, <2>7 DEF Tokens
<1>3. CASE entry # NoCounter
  <2>1. UNCHANGED <<entry, heap>>
    BY <1>3 DEF Insert
  <2> QED BY <1>1, <2>1, QuietTokens
<1> QED BY <1>2, <1>3

(* A fetch_add adds to the counter what it adds to the finished calls.      *)
LEMMA AddTokens ==
  ASSUME IInv, Shape', NEW t \in Threads, Add(t)
  PROVE  Tokens'
<1> DEFINE Done(v) == SumFunctionOnSet(byEnd, Ended(v))
<1>1. Return(t) /\ pending' = pending /\ pending[t] = {} /\ entry' = entry
  BY DEF Add, IInv, Shape, PendingMatches
<1>2. \A x \in Threads \ {t}: amount'[x] = amount[x] /\ at'[x] = at[x]
  BY <1>1 DEF Return, IInv, Shape, TypeOK
<1>3. t \notin Halfway /\ t \notin Halfway'
  BY <1>1 DEF Halfway
<1>4. /\ Halfway' = Halfway
      /\ SumFunctionOnSet(amount', Halfway') = SumFunctionOnSet(amount, Halfway)
  BY <1>1, <1>2, <1>3, HalfwaySame DEF IInv, Shape
<1>5. ASSUME NEW v \in Nat, v <= now, Fresh(v)
      PROVE  heap'[entry']["tokens"] <=
               SumFunctionOnSet(byEnd', Ended(v)) + SumFunctionOnSet(amount', Halfway')
  <2>1. SumFunctionOnSet(byEnd', Ended(v)) = Done(v) + amount[t]
    BY <1>1, <1>5, ReturnCounts DEF IInv, Shape
  <2>2. Done(v) \in Nat /\ SumFunctionOnSet(amount, Halfway) \in Nat
    BY SumsAreNat DEF IInv, Shape
  <2>3. heap'[entry']["tokens"] = heap[entry]["tokens"] + amount[t]
    BY <1>1, AddEffect DEF IInv
  <2>4. heap[entry]["tokens"] \in Nat /\ amount[t] \in Nat
    BY AddEffect, CounterNumbers, CallNumbers DEF IInv
  <2>5. heap[entry]["tokens"] <= Done(v) + SumFunctionOnSet(amount, Halfway)
    BY <1>5 DEF Fresh
  <2> HIDE DEF Done
  <2> QED BY <1>4, <2>1, <2>2, <2>3, <2>4, <2>5
<1>6. FreshOrMoved'
  <2> DEFINE w == heap[entry]["window_start"]
  <2>1. w \in Nat /\ w <= now /\ heap'[entry']["window_start"] = w /\ entry # NoCounter
    BY <1>1, AddEffect, CounterNumbers DEF IInv
  <2>2. (\E x \in Threads: pending[x] = {"tokens"}) \/ Fresh(w)
    BY <2>1 DEF IInv, FreshOrMoved
  <2> HIDE DEF w
  <2> QED BY <1>1, <1>5, <2>1, <2>2 DEF FreshOrMoved, Fresh
<1>7. FreshForReset'
  <2> SUFFICES ASSUME NEW x \in Halfway PROVE Fresh(at[x])'
    BY <1>4 DEF FreshForReset
  <2>1. x \in Threads /\ x # t
    BY <1>3 DEF Halfway
  <2>2. at'[x] = at[x] /\ at[x] \in Nat /\ at[x] <= now /\ Fresh(at[x])
    BY <1>2, <2>1, CallNumbers DEF IInv, FreshForReset
  <2> QED BY <1>5, <2>2 DEF Fresh
<1> QED BY <1>6, <1>7 DEF Tokens

(* The first of the two stores moves the window: whatever the counter holds *)
(* until the tokens are stored is excused.                                  *)
LEMMA WindowFirstTokens ==
  ASSUME IInv, Shape', NEW t \in Threads, Store(t, "window_start"),
         pending'[t] # {}
  PROVE  Tokens'
<1>1. NotYet /\ entry' = entry
  BY DEF Store
<1>2. /\ pending'[t] = pending[t] \ {"window_start"}
      /\ \A x \in Threads \ {t}: pending'[x] = pending[x]
      /\ heap'[entry]["tokens"] = heap[entry]["tokens"]
  BY StoreEffect DEF IInv, Fields
<1>3. pending'[t] = {"tokens"} /\ pending[t] = {"window_start", "tokens"}
  <2>1. pending[t] \in SUBSET {"window_start", "tokens"} /\ "window_start" \in pending[t]
    BY DEF IInv, Shape, TypeOK, Store, Fields
  <2> QED BY <1>2, <2>1
<1>4. t \notin Halfway /\ t \notin Halfway'
  BY <1>3 DEF Halfway
<1>5. /\ Halfway' = Halfway
      /\ SumFunctionOnSet(amount', Halfway') = SumFunctionOnSet(amount, Halfway)
  BY <1>1, <1>2, <1>4, HalfwaySame DEF IInv, Shape, NotYet, callVars
<1>6. FreshOrMoved'
  BY <1>3 DEF FreshOrMoved
<1>7. FreshForReset'
  <2> SUFFICES ASSUME NEW x \in Halfway PROVE Fresh(at[x])'
    BY <1>5 DEF FreshForReset
  <2>1. Fresh(at[x]) /\ at' = at /\ byEnd' = byEnd
    BY <1>1 DEF IInv, FreshForReset, NotYet, callVars, doneVars
  <2> QED BY <1>1, <1>2, <1>5, <2>1 DEF Fresh
<1> QED BY <1>6, <1>7 DEF Tokens

(* The tokens are stored first: they are all there is, and are half-way.    *)
LEMMA TokensFirstTokens ==
  ASSUME IInv, Shape', NEW t \in Threads, Store(t, "tokens"), pending'[t] # {}
  PROVE  Tokens'
<1>1. NotYet /\ entry' = entry
  BY DEF Store
<1>2. /\ pending'[t] = pending[t] \ {"tokens"}
      /\ heap'[entry]["tokens"] = amount[t]
  BY StoreEffect DEF IInv, Fields
<1>3. t \in Halfway'
  <2>1. pending[t] \in SUBSET {"window_start", "tokens"} /\ "tokens" \in pending[t]
    BY DEF IInv, Shape, TypeOK, Store, Fields
  <2>2. pending'[t] = {"window_start"}
    BY <1>2, <2>1
  <2> QED BY <2>2 DEF Halfway
<1>4. amount' = amount /\ byEnd' = byEnd
  BY <1>1 DEF NotYet, callVars, doneVars
<1>5. /\ \A v: SumFunctionOnSet(byEnd, Ended(v)) \in Nat
      /\ \A x \in Halfway': amount[x] \in Nat
  BY SumsAreNat DEF IInv, Shape, TypeOK, Halfway
<1>6. /\ amount[t] <= SumFunctionOnSet(amount, Halfway')
      /\ SumFunctionOnSet(amount, Halfway') \in Nat
  BY <1>3, <1>5, FiniteSums, SumElement, SumType
<1>7. \A v: heap'[entry']["tokens"] <=
              SumFunctionOnSet(byEnd', Ended(v)) + SumFunctionOnSet(amount', Halfway')
  <2>1. amount[t] \in Nat
    BY CallNumbers DEF IInv
  <2>2. \A v: amount[t] <=
                SumFunctionOnSet(byEnd, Ended(v)) + SumFunctionOnSet(amount, Halfway')
    BY <1>5, <1>6, <2>1
  <2> QED BY <1>1, <1>2, <1>4, <2>2
<1> QED
  BY <1>7 DEF Tokens, FreshOrMoved, FreshForReset, Fresh

(* The tokens are stored last, and are all there is; the call has ended.    *)
LEMMA TokensLastTokens ==
  ASSUME IInv, Shape', NEW t \in Threads, Store(t, "tokens"), pending'[t] = {}
  PROVE  Tokens'
<1>1. Return(t) /\ entry' = entry /\ now' = now
  BY DEF Store
<1>2. heap'[entry]["tokens"] = amount[t] /\ amount[t] \in Nat /\ entry # NoCounter
  BY StoreEffect, CallNumbers DEF IInv, Fields
<1>3. ASSUME NEW v \in Nat, v <= now
      PROVE  heap'[entry']["tokens"] <=
               SumFunctionOnSet(byEnd', Ended(v)) + SumFunctionOnSet(amount', Halfway')
  <2>1. SumFunctionOnSet(byEnd', Ended(v)) =
          SumFunctionOnSet(byEnd, Ended(v)) + amount[t]
    BY <1>1, <1>3, ReturnCounts DEF IInv, Shape
  <2>2. SumFunctionOnSet(byEnd, Ended(v)) \in Nat
    BY SumsAreNat DEF IInv, Shape
  <2>3. SumFunctionOnSet(amount', Halfway') \in Nat
    <3>1. \A x \in Halfway': amount'[x] \in Nat
      BY DEF Shape, TypeOK, Halfway
    <3> QED BY <3>1, FiniteSums, SumType
  <2> QED BY <1>1, <1>2, <2>1, <2>2, <2>3
<1>4. /\ heap'[entry']["window_start"] \in Nat /\ heap'[entry']["window_start"] <= now
      /\ \A x \in Threads: at'[x] \in Nat /\ at'[x] <= now
  <2>1. (entry # NoCounter /\ Shape)' => heap'[entry']["window_start"] \in Nat
    BY DEF Shape, TypeOK, Fields
  <2>2. \A x \in Threads: at'[x] \in Nat
    BY TpmAssumption DEF Shape, TypeOK, Ticks
  <2> QED BY <1>1, <1>2, <2>1, <2>2 DEF Shape, NoFuture
<1>5. FreshOrMoved'
  BY <1>3, <1>4 DEF FreshOrMoved, Fresh
<1>6. FreshForReset'
  <2> SUFFICES ASSUME NEW x \in Halfway' PROVE Fresh(at[x])'
    BY DEF FreshForReset
  <2>1. x \in Threads
    BY DEF Halfway
  <2> QED BY <1>3, <1>4, <2>1 DEF Fresh
<1> QED BY <1>5, <1>6 DEF Tokens

(* The window is stored last: what was half-way is now finished.            *)
LEMMA WindowLastTokens ==
  ASSUME IInv, Shape', NEW t \in Threads, Store(t, "window_start"),
         pending'[t] = {}
  PROVE  Tokens'
<1> DEFINE Done(v) == SumFunctionOnSet(byEnd, Ended(v))
           Done2(v) == SumFunctionOnSet(byEnd', Ended(v))
           Half == SumFunctionOnSet(amount, Halfway)
           Half2 == SumFunctionOnSet(amount', Halfway')
<1>1. Return(t) /\ entry' = entry
  BY DEF Store
<1>2. /\ pending'[t] = pending[t] \ {"window_start"}
      /\ \A x \in Threads \ {t}: pending'[x] = pending[x]
      /\ heap'[entry]["tokens"] = heap[entry]["tokens"]
      /\ heap'[entry]["window_start"] = at[t]
      /\ entry # NoCounter
  BY StoreEffect DEF IInv, Fields
<1>3. t \in Halfway
  <2>1. pending[t] \in SUBSET {"window_start", "tokens"} /\ "window_start" \in pending[t]
    BY DEF IInv, Shape, TypeOK, Store, Fields
  <2>2. pending[t] = {"window_start"}
    BY <1>2, <2>1
  <2> QED BY <2>2 DEF Halfway
<1>4. Halfway' = Halfway \ {t}
  BY <1>2 DEF Halfway
<1>5. \A x \in Threads \ {t}: amount'[x] = amount[x] /\ at'[x] = at[x]
  BY <1>1 DEF Return, IInv, Shape, TypeOK
<1>6. Half = amount[t] + Half2
  <2>1. \A x \in Halfway: amount[x] \in Nat
    BY DEF IInv, Shape, TypeOK, Halfway
  <2>2. Half = amount[t] + SumFunctionOnSet(amount, Halfway')
    BY <1>3, <1>4, <2>1, FiniteSums, SumRemove
  <2>3. \A x \in Halfway': amount[x] = amount'[x]
    BY <1>4, <1>5 DEF Halfway
  <2>4. SumFunctionOnSet(amount, Halfway') = Half2
    BY <2>3, FiniteSums, SumSame
  <2> QED BY <2>2, <2>4
<1>7. Half2 \in Nat /\ \A v: Done(v) \in Nat
  <2>1. \A x \in Halfway': amount'[x] \in Nat
    BY DEF Shape, TypeOK, Halfway
  <2> QED BY <2>1, FiniteSums, SumType, SumsAreNat DEF IInv, Shape
<1>8. ASSUME NEW v \in Nat, v <= now, Fresh(v)
      PROVE  heap'[entry']["tokens"] <= Done2(v) + Half2
  <2>1. Done2(v) = Done(v) + amount[t]
    BY <1>1, <1>8, ReturnCounts DEF IInv, Shape
  <2>2. heap[entry]["tokens"] <= Done(v) + Half
    BY <1>8 DEF Fresh
  <2>3. heap[entry]["tokens"] \in Nat /\ amount[t] \in Nat
    BY <1>2, CounterNumbers, CallNumbers DEF IInv
  <2> HIDE DEF Done, Done2, Half, Half2
  <2> QED BY <1>1, <1>2, <1>6, <1>7, <2>1, <2>2, <2>3
<1>9. \A x \in Halfway: at[x] \in Nat /\ at[x] <= now /\ Fresh(at[x])
  BY CallNumbers DEF IInv, FreshForReset, Halfway
<1>10. FreshOrMoved'
  <2>1. heap'[entry']["tokens"] <= Done2(at[t]) + Half2
    BY <1>3, <1>8, <1>9
  <2>2. heap'[entry']["window_start"] = at[t]
    BY <1>1, <1>2
  <2> QED BY <2>1, <2>2 DEF FreshOrMoved, Fresh
<1>11. FreshForReset'
  <2> SUFFICES ASSUME NEW x \in Halfway' PROVE Fresh(at[x])'
    BY DEF FreshForReset
  <2>1. x \in Halfway /\ at'[x] = at[x]
    BY <1>4, <1>5 DEF Halfway
  <2>2. heap'[entry']["tokens"] <= Done2(at[x]) + Half2
    BY <1>8, <1>9, <2>1
  <2> QED BY <2>1, <2>2 DEF Fresh
<1> QED BY <1>10, <1>11 DEF Tokens

-----------------------------------------------------------------------------
LEMMA InitIInv == Init => IInv
<1> SUFFICES ASSUME Init PROVE IInv
  OBVIOUS
<1>1. Shape
  BY InitShape
<1>2. entry = NoCounter /\ \A t \in Threads: pending[t] = {}
  BY DEF Init
<1> QED
  BY <1>1, <1>2 DEF IInv, FreshOrMoved, FreshForReset, Halfway

LEMMA NextIInv == IInv /\ [Next]_vars => IInv'
<1> SUFFICES ASSUME IInv, [Next]_vars PROVE IInv'
  OBVIOUS
<1> USE DEF IInv, Tokens
<1>1. ASSUME NEW t \in Threads, NEW tokens \in Amounts, record_tpm(t, tokens)
      PROVE  IInv'
  <2>1. Shape'
    BY <1>1, RecordShape
  <2>2. /\ UNCHANGED <<entry, heap, byEnd>> /\ pending' = pending /\ pending[t] = {}
        /\ \A x \in Threads \ {t}: amount'[x] = amount[x] /\ at'[x] = at[x]
    BY <1>1 DEF record_tpm, doneVars, Shape, PendingMatches, TypeOK
  <2> QED BY <2>1, <2>2, QuietTokens
<1>2. ASSUME NEW t \in Threads, Lookup(t)
      PROVE  IInv'
  <2>1. Shape'
    BY <1>2, LookupShape
  <2>2. /\ UNCHANGED <<entry, heap, byEnd, pending, amount, at>> /\ pending[t] = {}
    BY <1>2 DEF Lookup, doneVars, Shape, PendingMatches, TypeOK
  <2> QED BY <2>1, <2>2, QuietTokens
<1>3. ASSUME NEW t \in Threads, Insert(t)
      PROVE  IInv'
  BY <1>3, InsertShape, InsertTokens
<1>4. ASSUME NEW t \in Threads, Load(t)
      PROVE  IInv'
  <2>1. Shape'
    BY <1>4, LoadShape
  <2>2. /\ UNCHANGED <<entry, heap, byEnd, amount, at>> /\ pending[t] = {}
        /\ pending'[t] \in {{}, Fields}
        /\ \A x \in Threads \ {t}: pending'[x] = pending[x]
    BY <1>4 DEF Load, doneVars, callVars, Shape, PendingMatches, TypeOK
  <2> QED BY <2>1, <2>2, QuietTokens
<1>5. ASSUME NEW t \in Threads, Add(t)
      PROVE  IInv'
  BY <1>5, AddShape, AddTokens
<1>6. ASSUME NEW t \in Threads, NEW f \in Fields, Store(t, f)
      PROVE  IInv'
  <2>1. Shape'
    BY <1>6, StoreShape
  <2>2. f \in {"window_start", "tokens"}
    BY DEF Fields
  <2> QED
    BY <1>6, <2>1, <2>2, WindowFirstTokens, WindowLastTokens,
       TokensFirstTokens, TokensLastTokens
<1>7. ASSUME Tick
      PROVE  IInv'
  <2>1. Shape'
    BY <1>7, TickShape
  <2>2. UNCHANGED <<entry, heap, byEnd, amount, at, pending>>
    BY <1>7 DEF Tick, callVars, doneVars
  <2>3. Halfway' = Halfway
    BY <2>2 DEF Halfway
  <2> QED BY <2>1, <2>2, <2>3 DEF FreshOrMoved, FreshForReset, Fresh
<1>8. ASSUME UNCHANGED vars
      PROVE  IInv'
  <2>1. UNCHANGED <<now, entry, heap, pc, at, amount, ref, pending, records,
                    byStart, byEnd>>
    BY <1>8 DEF vars, callVars, doneVars
  <2>2. Halfway' = Halfway
    BY <2>1 DEF Halfway
  <2>3. Shape'
    BY <2>1 DEF Shape, TypeOK, OneCounter, PendingMatches, EntryExists, NoFuture
  <2> QED BY <2>1, <2>2, <2>3 DEF FreshOrMoved, FreshForReset, Fresh
<1> QED
  BY <1>1, <1>2, <1>3, <1>4, <1>5, <1>6, <1>7, <1>8 DEF Next

LEMMA AlwaysIInv == Spec => []IInv
BY InitIInv, NextIInv, PTL DEF Spec

(* TpmCounter keeps its type.                                               *)
THEOREM TypeCorrect == Spec => []TypeOK
<1>1. IInv => TypeOK
  BY DEF IInv, Shape
<1> QED BY <1>1, AlwaysIInv, PTL

(* All threads add to the counter that is in the table, however many of     *)
(* them miss it in tpm_counter's first lookup.                              *)
THEOREM CounterShared == Spec => []OneCounter
<1>1. IInv => OneCounter
  BY DEF IInv, Shape
<1> QED BY <1>1, AlwaysIInv, PTL

(* However additions race with resets, and resets with each other and with  *)
(* the clock: with no call under way, the counter holds no more than what   *)
(* was recorded since its window started.                                   *)
THEOREM NeverStale == Spec => []NothingStale
<1>1. IInv => NothingStale
  <2> SUFFICES ASSUME IInv, Quiescent PROVE heap[entry]["tokens"] <= Since(byEnd)
    BY DEF NothingStale
  <2>1. \A t \in Threads: pending[t] = {}
    BY DEF IInv, Shape, PendingMatches, Quiescent
  <2>2. Halfway = {}
    BY <2>1 DEF Halfway
  <2>3. Fresh(heap[entry]["window_start"])
    BY <2>1 DEF IInv, FreshOrMoved, Quiescent
  <2>4. SumFunctionOnSet(amount, Halfway) = 0
    BY <2>2, SumEmpty
  <2>5. SumFunctionOnSet(byEnd, Ended(heap[entry]["window_start"])) \in Nat
    BY SumsAreNat DEF IInv, Shape
  <2>6. heap[entry]["tokens"] <=
          SumFunctionOnSet(byEnd, Ended(heap[entry]["window_start"]))
    <3>1. heap[entry]["tokens"] \in Nat
      BY CounterNumbers DEF IInv, Quiescent
    <3> QED BY <2>3, <2>4, <2>5, <3>1 DEF Fresh
  <2> QED BY <2>6 DEF Since, Ended
<1> QED BY <1>1, AlwaysIInv, PTL
=============================================================================
