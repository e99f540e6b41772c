--------------------------- MODULE MetricsProofs ---------------------------
(***************************************************************************)
(* The registry loses no addition, whoever meets at a counter's first use, *)
(* and a scrape shows values that the counters had while it ran, for any   *)
(* number of threads, recordings and scrapes.                              *)
(***************************************************************************)
EXTENDS Metrics, DataTheorems

(* The table, as precisely as the proofs need it.                           *)
TableOK ==
  /\ cells \in Seq(Nat)
  /\ DOMAIN inner = Families
  /\ \A f \in Families: \A l \in DOMAIN inner[f]: inner[f][l] \in 1..Len(cells)

(* No two labels share a counter.                                           *)
OwnCell ==
  \A f, g \in Families: \A l \in DOMAIN inner[f], m \in DOMAIN inner[g]:
    inner[f][l] = inner[g][m] => f = g /\ l = m

(* A thread that is about to add has the counter that is in the table.      *)
ThreadsOK ==
  /\ pc \in [Threads -> {"idle", "lookup", "insert", "add"}]
  /\ todo \in [Threads -> Seq(Additions)] /\ DOMAIN ref = Threads
  /\ \A t \in Threads: pc[t] # "idle" => todo[t] # <<>>
  /\ \A t \in Threads: pc[t] = "add" =>
       Label(t) \in DOMAIN inner[Family(t)] /\ ref[t] = inner[Family(t)][Label(t)]

(* What was recorded under a label, by one set of label values or several.  *)
Under(f, l) ==
  {series \in DOMAIN recorded: series[1] = f /\ label(f, series[2]) = l}

(* Every counter holds what was recorded under its label.                   *)
LabelExact ==
  \A f \in Families: \A l \in DOMAIN inner[f]:
    cells[inner[f][l]] = SumFunctionOnSet(recorded, Under(f, l))

SeriesOf(a) == <<a.family, a.values>>

RecordedOK ==
  /\ IsFiniteSet(DOMAIN recorded)
  /\ \A series \in DOMAIN recorded:
       /\ recorded[series] \in Nat
       /\ \E a \in Additions: series = SeriesOf(a)
       /\ label(series[1], series[2]) \in DOMAIN inner[series[1]]

(* How far a scrape has come: what it has passed is complete, what it is at *)
(* is complete with what is left.                                           *)
Passed(f) ==
  \/ scan.family = 0
  \/ \E i \in DOMAIN RenderOrder: i < scan.family /\ RenderOrder[i] = f

ScanOK ==
  /\ scan \in [family: 0..Len(RenderOrder), held: BOOLEAN, left: {scan.left}]
  /\ scan.held => scan.family # 0
  /\ ~scan.held => scan.left = {}
  /\ scan.held => scan.left \subseteq DOMAIN inner[RenderOrder[scan.family]]
  /\ \A f \in Families: Passed(f) => DOMAIN floor[f] \subseteq DOMAIN out[f]
  /\ scan.held => LET f == RenderOrder[scan.family]
                  IN  DOMAIN floor[f] \subseteq DOMAIN out[f] \cup scan.left

(* Counters only grow: what was read of them bounds them from below.        *)
ReadOK ==
  /\ DOMAIN out = Families /\ DOMAIN floor = Families
  /\ \A f \in Families:
       /\ DOMAIN floor[f] \subseteq DOMAIN inner[f]
       /\ DOMAIN out[f] \subseteq DOMAIN inner[f]
       /\ \A l \in DOMAIN floor[f]:
            floor[f][l] \in Nat /\ floor[f][l] <= cells[inner[f][l]]
       /\ \A l \in DOMAIN out[f]:
            out[f][l] \in Nat /\ out[f][l] <= cells[inner[f][l]]
       /\ \A l \in DOMAIN out[f] \cap DOMAIN floor[f]: floor[f][l] <= out[f][l]

BoundsOK == calls \in 0..MaxCalls /\ scrapes \in 0..MaxScrapes

IInv ==
  /\ TableOK /\ OwnCell /\ ThreadsOK /\ RecordedOK /\ LabelExact
  /\ ScanOK /\ ReadOK /\ BoundsOK

-----------------------------------------------------------------------------
(* The addition that a thread is at.                                        *)
LEMMA AtAddition ==
  ASSUME ThreadsOK, NEW t \in Threads, pc[t] # "idle"
  PROVE  /\ Head(todo[t]) \in Additions /\ Family(t) \in Families
         /\ Tail(todo[t]) \in Seq(Additions) /\ Head(todo[t]).n \in Nat
<1>1. todo[t] \in Seq(Additions) /\ todo[t] # <<>>
  BY DEF ThreadsOK
<1>2. Head(todo[t]) \in Additions /\ Tail(todo[t]) \in Seq(Additions)
  BY <1>1
<1> QED
  BY <1>2, MetricsAssumption DEF Family

LEMMA InitIInv == Init => IInv
<1> SUFFICES ASSUME Init PROVE IInv
  OBVIOUS
<1>1. TableOK /\ OwnCell /\ LabelExact
  BY DEF Init, TableOK, OwnCell, LabelExact
<1>2. ThreadsOK
  BY DEF Init, ThreadsOK
<1>3. RecordedOK
  <2>1. DOMAIN recorded = {}
    BY DEF Init
  <2> QED BY <2>1, FS_EmptySet DEF RecordedOK
<1>4. ScanOK
  BY DEF Init, ScanOK, NotScanning, RenderOrder
<1>5. ReadOK /\ BoundsOK
  BY MetricsAssumption DEF Init, ReadOK, BoundsOK
<1> QED BY <1>1, <1>2, <1>3, <1>4, <1>5 DEF IInv

-----------------------------------------------------------------------------
(* A thread's next step, with the table as it is.                           *)
LEMMA TableSame ==
  ASSUME IInv, UNCHANGED <<inner, cells, recorded>>
  PROVE  TableOK' /\ OwnCell' /\ RecordedOK' /\ LabelExact'
<1>1. TableOK' /\ OwnCell'
  BY DEF IInv, TableOK, OwnCell
<1>2. RecordedOK'
  BY DEF IInv, RecordedOK
<1>3. LabelExact'
  BY DEF IInv, LabelExact, Under
<1> QED BY <1>1, <1>2, <1>3

LEMMA ScrapeSame ==
  ASSUME IInv, UNCHANGED <<inner, cells, scrapeVars>>
  PROVE  ScanOK' /\ ReadOK'
<1>1. UNCHANGED <<scan, out, floor, scrapes>>
  BY DEF scrapeVars
<1>2. ScanOK'
  BY <1>1 DEF IInv, ScanOK, Passed
<1>3. ReadOK'
  BY <1>1 DEF IInv, ReadOK
<1> QED BY <1>2, <1>3

LEMMA RecordStep ==
  ASSUME IInv, NEW t \in Threads, NEW call \in Calls, Record(t, call)
  PROVE  IInv'
<1>1. UNCHANGED <<inner, cells, ref, scrapeVars, recorded>>
  BY DEF Record
<1>2. TableOK' /\ OwnCell' /\ RecordedOK' /\ LabelExact' /\ ScanOK' /\ ReadOK'
  BY <1>1, TableSame, ScrapeSame
<1>3. ThreadsOK'
  <2>1. call \in Seq(Additions) /\ call # <<>>
    BY MetricsAssumption
  <2>2. /\ pc' = [pc EXCEPT ![t] = "lookup"] /\ todo' = [todo EXCEPT ![t] = call]
        /\ pc[t] = "idle"
    BY DEF Record, GoTo
  <2> QED BY <1>1, <2>1, <2>2 DEF IInv, ThreadsOK, Label, Family
<1>4. BoundsOK'
  BY MetricsAssumption DEF Record, IInv, BoundsOK, scrapeVars
<1> QED BY <1>2, <1>3, <1>4 DEF IInv

LEMMA LookupStep ==
  ASSUME IInv, NEW t \in Threads, Lookup(t)
  PROVE  IInv'
<1>1. UNCHANGED <<inner, cells, todo, calls, scrapeVars, recorded>>
  BY DEF Lookup
<1>2. TableOK' /\ OwnCell' /\ RecordedOK' /\ LabelExact' /\ ScanOK' /\ ReadOK'
  BY <1>1, TableSame, ScrapeSame
<1>3. ThreadsOK'
  <2>1. /\ pc[t] = "lookup"
        /\ \/ /\ Label(t) \in DOMAIN inner[Family(t)]
              /\ ref' = [ref EXCEPT ![t] = inner[Family(t)][Label(t)]]
              /\ pc' = [pc EXCEPT ![t] = "add"]
           \/ ref' = ref /\ pc' = [pc EXCEPT ![t] = "insert"]
    BY DEF Lookup, GoTo
  <2>2. \A x \in Threads: Family(x)' = Family(x) /\ Label(x)' = Label(x)
    BY <1>1 DEF Family, Label
  <2>3. ASSUME NEW x \in Threads, pc'[x] = "add"
        PROVE  Label(x) \in DOMAIN inner[Family(x)] /\ ref'[x] = inner[Family(x)][Label(x)]
    <3>1. CASE x = t
      BY <2>1, <2>3, <3>1 DEF IInv, ThreadsOK
    <3>2. CASE x # t
      <4>1. pc[x] = "add" /\ ref'[x] = ref[x]
        BY <2>1, <2>3, <3>2 DEF IInv, ThreadsOK
      <4> QED BY <4>1 DEF IInv, ThreadsOK
    <3> QED BY <3>1, <3>2
  <2>4. /\ pc' \in [Threads -> {"idle", "lookup", "insert", "add"}]
        /\ todo' \in [Threads -> Seq(Additions)] /\ DOMAIN ref' = Threads
        /\ \A x \in Threads: pc'[x] # "idle" => todo'[x] # <<>>
    BY <1>1, <2>1 DEF IInv, ThreadsOK
  <2> QED BY <1>1, <2>2, <2>3, <2>4 DEF ThreadsOK
<1>4. BoundsOK'
  BY <1>1 DEF IInv, BoundsOK, scrapeVars
<1> QED BY <1>2, <1>3, <1>4 DEF IInv

-----------------------------------------------------------------------------
(* What a new counter leaves alone.                                         *)
LEMMA InsertEffect ==
  ASSUME IInv, NEW t \in Threads, Insert(t), NEW F, NEW L,
         F = Family(t), L = Label(t), L \notin DOMAIN inner[F]
  PROVE  /\ F \in Families
         /\ cells' \in Seq(Nat) /\ Len(cells') = Len(cells) + 1
         /\ Len(cells) \in Nat
         /\ \A i \in 1..Len(cells): cells'[i] = cells[i]
         /\ cells'[Len(cells) + 1] = 0
         /\ DOMAIN inner' = Families
         /\ \A f \in Families \ {F}: inner'[f] = inner[f]
         /\ DOMAIN inner'[F] = DOMAIN inner[F] \cup {L}
         /\ \A l \in DOMAIN inner[F]: inner'[F][l] = inner[F][l]
         /\ inner'[F][L] = Len(cells) + 1
<1>1. pc[t] = "insert"
  BY DEF Insert
<1>2. F \in Families
  BY <1>1, AtAddition DEF IInv
<1>3. cells \in Seq(Nat) /\ DOMAIN inner = Families
  BY DEF IInv, TableOK
<1>4. /\ cells' = Append(cells, 0)
      /\ inner' = [inner EXCEPT ![F] = With(inner[F], L, Len(cells'))]
  BY DEF Insert
<1>5. /\ cells' \in Seq(Nat) /\ Len(cells') = Len(cells) + 1 /\ Len(cells) \in Nat
      /\ \A i \in 1..Len(cells): cells'[i] = cells[i]
      /\ cells'[Len(cells) + 1] = 0
  BY <1>3, <1>4
<1>6. /\ DOMAIN inner' = Families
      /\ \A f \in Families \ {F}: inner'[f] = inner[f]
      /\ inner'[F] = With(inner[F], L, Len(cells'))
  BY <1>2, <1>3, <1>4
<1>7. /\ DOMAIN inner'[F] = DOMAIN inner[F] \cup {L}
      /\ \A l \in DOMAIN inner[F]: inner'[F][l] = inner[F][l]
      /\ inner'[F][L] = Len(cells')
  <2>1. PICK g, k: g = inner[F] /\ k = Len(cells')
    OBVIOUS
  <2>2. inner'[F] = With(g, L, k) /\ L \notin DOMAIN g
    BY <1>6, <2>1
  <2>3. /\ DOMAIN inner'[F] = DOMAIN g \cup {L}
        /\ \A l \in DOMAIN g: inner'[F][l] = g[l]
        /\ inner'[F][L] = k
    <3>1. /\ DOMAIN With(g, L, k) = DOMAIN g \cup {L} /\ With(g, L, k)[L] = k
          /\ \A l \in DOMAIN g \ {L}: With(g, L, k)[l] = g[l]
      BY DEF With
    <3> QED BY <2>2, <3>1
  <2> QED BY <2>1, <2>3
<1> QED
  BY <1>2, <1>5, <1>6, <1>7

(* Every counter that was there is there, with its value.                   *)
LEMMA InsertKeeps ==
  ASSUME IInv, NEW t \in Threads, Insert(t)
  PROVE  /\ DOMAIN inner' = Families
         /\ \A f \in Families: \A l \in DOMAIN inner[f]:
              /\ l \in DOMAIN inner'[f] /\ inner'[f][l] = inner[f][l]
              /\ cells'[inner'[f][l]] = cells[inner[f][l]]
<1> DEFINE F == Family(t)
           L == Label(t)
<1>1. CASE L \in DOMAIN inner[F]
  <2>1. UNCHANGED <<inner, cells>>
    BY <1>1 DEF Insert
  <2> QED BY <2>1 DEF IInv, TableOK
<1>2. CASE L \notin DOMAIN inner[F]
  <2>1. \A f \in Families: \A l \in DOMAIN inner[f]: inner[f][l] \in 1..Len(cells)
    BY DEF IInv, TableOK
  <2> HIDE DEF F, L
  <2>2. \A f \in Families: \A l \in DOMAIN inner[f]:
          l \in DOMAIN inner'[f] /\ inner'[f][l] = inner[f][l]
    BY <1>2, InsertEffect DEF F, L
  <2>3. \A i \in 1..Len(cells): cells'[i] = cells[i]
    BY <1>2, InsertEffect DEF F, L
  <2>4. DOMAIN inner' = Families
    BY <1>2, InsertEffect DEF F, L
  <2> QED BY <2>1, <2>2, <2>3, <2>4
<1> QED BY <1>1, <1>2

(* The threads: the one that inserted has the counter of the table, as have *)
(* those that found theirs before.                                          *)
LEMMA InsertThreads ==
  ASSUME IInv, NEW t \in Threads, Insert(t)
  PROVE  ThreadsOK'
<1> DEFINE F == Family(t)
           L == Label(t)
<1>1. /\ pc[t] = "insert" /\ pc' = [pc EXCEPT ![t] = "add"] /\ todo' = todo
      /\ ref' = [ref EXCEPT ![t] = inner'[F][L]]
  BY DEF Insert, GoTo
<1>2. F \in Families
  BY <1>1, AtAddition DEF IInv
<1>3. L \in DOMAIN inner'[F]
  <2>1. CASE L \in DOMAIN inner[F]
    BY <1>2, <2>1, InsertKeeps
  <2>2. CASE L \notin DOMAIN inner[F]
    BY <2>2, InsertEffect
  <2> QED BY <2>1, <2>2
<1>4. \A x \in Threads: Family(x)' = Family(x) /\ Label(x)' = Label(x)
  BY <1>1 DEF Family, Label
<1>5. ASSUME NEW x \in Threads, pc'[x] = "add"
      PROVE  /\ Label(x) \in DOMAIN inner'[Family(x)]
             /\ ref'[x] = inner'[Family(x)][Label(x)]
  <2>1. CASE x = t
    BY <1>1, <1>3, <2>1 DEF IInv, ThreadsOK
  <2>2. CASE x # t
    <3>1. pc[x] = "add" /\ ref'[x] = ref[x]
      BY <1>1, <1>5, <2>2 DEF IInv, ThreadsOK
    <3>2. Family(x) \in Families
      BY <3>1, AtAddition DEF IInv
    <3> QED BY <3>1, <3>2, InsertKeeps DEF IInv, ThreadsOK
  <2> QED BY <2>1, <2>2
<1>6. /\ pc' \in [Threads -> {"idle", "lookup", "insert", "add"}]
      /\ todo' \in [Threads -> Seq(Additions)] /\ DOMAIN ref' = Threads
      /\ \A x \in Threads: pc'[x] # "idle" => todo'[x] # <<>>
  BY <1>1 DEF IInv, ThreadsOK
<1> QED BY <1>4, <1>5, <1>6 DEF ThreadsOK

(* The table: the new counter is nobody else's and holds nothing, and       *)
(* nothing was recorded under its label.                                    *)
LEMMA InsertTable ==
  ASSUME IInv, NEW t \in Threads, Insert(t)
  PROVE  TableOK' /\ OwnCell' /\ RecordedOK' /\ LabelExact'
<1> DEFINE F == Family(t)
           L == Label(t)
<1>0. recorded' = recorded
  BY DEF Insert
<1>1. CASE L \in DOMAIN inner[F]
  <2>1. UNCHANGED <<inner, cells>>
    BY <1>1 DEF Insert
  <2> QED BY <1>0, <2>1, TableSame
<1>2. CASE L \notin DOMAIN inner[F]
  <2>1. PICK f0, l0: f0 = F /\ l0 = L
    OBVIOUS
  <2> DEFINE k == Len(cells) + 1
  <2>2. /\ f0 \in Families /\ l0 \notin DOMAIN inner[f0]
        /\ cells' \in Seq(Nat) /\ Len(cells') = k /\ Len(cells) \in Nat
        /\ \A i \in 1..Len(cells): cells'[i] = cells[i]
        /\ cells'[k] = 0
        /\ DOMAIN inner' = Families
        /\ \A f \in Families \ {f0}: inner'[f] = inner[f]
        /\ DOMAIN inner'[f0] = DOMAIN inner[f0] \cup {l0}
        /\ \A l \in DOMAIN inner[f0]: inner'[f0][l] = inner[f0][l]
        /\ inner'[f0][l0] = k
    BY <1>2, <2>1, InsertEffect
  <2>3. \A f \in Families: \A l \in DOMAIN inner[f]:
          inner[f][l] \in 1..Len(cells) /\ inner[f][l] # k
    BY <2>2 DEF IInv, TableOK
  <2>4. \A f \in Families: \A l \in DOMAIN inner'[f]:
          \/ f = f0 /\ l = l0
          \/ l \in DOMAIN inner[f] /\ inner'[f][l] = inner[f][l]
    BY <2>2
  <2>5. TableOK'
    BY <2>2, <2>3, <2>4 DEF TableOK
  <2>6. OwnCell'
    <3> SUFFICES ASSUME NEW f \in Families, NEW g \in Families,
                        NEW l \in DOMAIN inner'[f], NEW m \in DOMAIN inner'[g],
                        inner'[f][l] = inner'[g][m]
                 PROVE  f = g /\ l = m
      BY DEF OwnCell
    <3> HIDE DEF k
    <3>0. inner'[f0][l0] = k
      BY <2>2
    <3>1. CASE f = f0 /\ l = l0
      <4>1. inner'[g][m] = k
        BY <3>0, <3>1
      <4> QED BY <2>3, <2>4, <3>1, <4>1
    <3>2. CASE g = f0 /\ m = l0
      <4>1. inner'[f][l] = k
        BY <3>0, <3>2
      <4> QED BY <2>3, <2>4, <3>2, <4>1
    <3>3. CASE l \in DOMAIN inner[f] /\ m \in DOMAIN inner[g]
      BY <2>2, <2>4, <3>1, <3>2, <3>3 DEF IInv, OwnCell
    <3> QED BY <2>4, <3>1, <3>2, <3>3
  <2>7. RecordedOK'
    <3>1. \A series \in DOMAIN recorded:
            /\ series[1] \in Families
            /\ label(series[1], series[2]) \in DOMAIN inner[series[1]]
      BY MetricsAssumption DEF IInv, RecordedOK, SeriesOf
    <3>2. \A series \in DOMAIN recorded:
            label(series[1], series[2]) \in DOMAIN inner'[series[1]]
      BY <3>1, InsertKeeps
    <3> QED BY <1>0, <3>2 DEF IInv, RecordedOK
  <2>8. \A f, l: Under(f, l)' = Under(f, l)
    BY <1>0 DEF Under
  <2>9. LabelExact'
    <3> SUFFICES ASSUME NEW f \in Families, NEW l \in DOMAIN inner'[f]
                 PROVE  cells'[inner'[f][l]] = SumFunctionOnSet(recorded, Under(f, l))
      BY <1>0, <2>8 DEF LabelExact
    <3>1. CASE l \in DOMAIN inner[f]
      BY <3>1, InsertKeeps DEF IInv, LabelExact
    <3>2. CASE f = f0 /\ l = l0
      <4>1. Under(f, l) = {}
        BY <2>2, <3>2 DEF Under, IInv, RecordedOK
      <4> QED BY <2>2, <3>2, <4>1, SumEmpty
    <3> QED BY <2>4, <3>1, <3>2
  <2> QED BY <2>5, <2>6, <2>7, <2>9
<1> QED BY <1>1, <1>2

(* The scrape under way has read what is still there.                       *)
LEMMA InsertScrape ==
  ASSUME IInv, NEW t \in Threads, Insert(t)
  PROVE  ScanOK' /\ ReadOK'
<1>1. UNCHANGED <<scan, out, floor, scrapes>>
  BY DEF Insert, scrapeVars
<1>2. \A f \in Families: DOMAIN inner[f] \subseteq DOMAIN inner'[f]
  BY InsertKeeps
<1>3. ScanOK'
  <2>1. scan.held => RenderOrder[scan.family] \in Families
    BY DEF IInv, ScanOK, RenderOrder, Families, LabelNames
  <2> QED BY <1>1, <1>2, <2>1 DEF IInv, ScanOK, Passed
<1>4. ReadOK'
  BY <1>1, InsertKeeps DEF IInv, ReadOK
<1> QED BY <1>3, <1>4

LEMMA InsertStep ==
  ASSUME IInv, NEW t \in Threads, Insert(t)
  PROVE  IInv'
<1>1. BoundsOK'
  BY DEF Insert, IInv, BoundsOK, scrapeVars
<1> QED
  BY <1>1, InsertThreads, InsertTable, InsertScrape DEF IInv

-----------------------------------------------------------------------------
(* An addition raises the counter of its label, and no other.               *)
LEMMA AddCells ==
  ASSUME IInv, NEW t \in Threads, FetchAdd(t), NEW F, NEW L, NEW n,
         F = Family(t), L = Label(t), n = Head(todo[t]).n
  PROVE  /\ F \in Families /\ L \in DOMAIN inner[F] /\ n \in Nat
         /\ inner' = inner
         /\ cells' \in Seq(Nat) /\ Len(cells') = Len(cells)
         /\ cells'[inner[F][L]] = cells[inner[F][L]] + n
         /\ \A f \in Families: \A l \in DOMAIN inner[f]:
              f # F \/ l # L => cells'[inner[f][l]] = cells[inner[f][l]]
<1>1. pc[t] = "add" /\ inner' = inner
  BY DEF FetchAdd
<1>2. F \in Families /\ n \in Nat
  BY <1>1, AtAddition DEF IInv
<1>3. L \in DOMAIN inner[F] /\ ref[t] = inner[F][L]
  BY <1>1 DEF IInv, ThreadsOK
<1>4. PICK r: r = ref[t]
  OBVIOUS
<1>5. /\ cells \in Seq(Nat) /\ r \in 1..Len(cells)
      /\ \A f \in Families: \A l \in DOMAIN inner[f]: inner[f][l] \in 1..Len(cells)
  BY <1>2, <1>3, <1>4 DEF IInv, TableOK
<1>6. cells' = [cells EXCEPT ![r] = cells[r] + n]
  BY <1>4 DEF FetchAdd
<1>7. /\ cells' \in Seq(Nat) /\ Len(cells') = Len(cells)
      /\ cells'[r] = cells[r] + n
      /\ \A i \in 1..Len(cells): i # r => cells'[i] = cells[i]
  BY <1>2, <1>5, <1>6
<1>8. \A f \in Families: \A l \in DOMAIN inner[f]:
        f # F \/ l # L => inner[f][l] # r
  BY <1>2, <1>3, <1>4 DEF IInv, OwnCell
<1> QED
  BY <1>1, <1>2, <1>3, <1>4, <1>5, <1>7, <1>8

(* ... and is recorded for its label values.                                *)
LEMMA AddRecorded ==
  ASSUME IInv, NEW t \in Threads, FetchAdd(t), NEW F, NEW L, NEW n, NEW s,
         F = Family(t), L = Label(t), n = Head(todo[t]).n,
         s = SeriesOf(Head(todo[t]))
  PROVE  /\ s[1] = F /\ label(F, s[2]) = L /\ \E a \in Additions: s = SeriesOf(a)
         /\ DOMAIN recorded' = DOMAIN recorded \cup {s}
         /\ s \in DOMAIN recorded => recorded'[s] = recorded[s] + n
         /\ s \notin DOMAIN recorded => recorded'[s] = n
         /\ \A x \in DOMAIN recorded: x # s => recorded'[x] = recorded[x]
<1>1. pc[t] = "add"
  BY DEF FetchAdd
<1>2. Head(todo[t]) \in Additions /\ n \in Nat
  BY <1>1, AtAddition DEF IInv
<1>3. s[1] = F /\ label(F, s[2]) = L
  BY DEF SeriesOf, Family, Label
<1>4. PICK v: v = Recorded(s) + n
  OBVIOUS
<1>5. recorded' = With(recorded, s, v)
  BY <1>4 DEF FetchAdd, SeriesOf
<1>6. /\ DOMAIN recorded' = DOMAIN recorded \cup {s} /\ recorded'[s] = v
      /\ \A x \in DOMAIN recorded: x # s => recorded'[x] = recorded[x]
  BY <1>5 DEF With
<1>7. /\ s \in DOMAIN recorded => v = recorded[s] + n
      /\ s \notin DOMAIN recorded => v = n
  BY <1>2, <1>4 DEF Recorded
<1> QED BY <1>2, <1>3, <1>6, <1>7

LEMMA AddThreads ==
  ASSUME IInv, NEW t \in Threads, FetchAdd(t)
  PROVE  ThreadsOK'
<1>1. PICK where: where = IF Tail(todo[t]) = <<>> THEN "idle" ELSE "lookup"
  OBVIOUS
<1>2. pc[t] = "add" /\ inner' = inner
  BY DEF FetchAdd
<1>3. /\ todo \in [Threads -> Seq(Additions)] /\ Tail(todo[t]) \in Seq(Additions)
      /\ pc \in [Threads -> {"idle", "lookup", "insert", "add"}]
      /\ DOMAIN ref = Threads
  BY <1>2, AtAddition DEF IInv, ThreadsOK
<1>4. todo' = [todo EXCEPT ![t] = Tail(todo[t])] /\ ref' = [ref EXCEPT ![t] = 0]
  BY DEF FetchAdd
<1>5. todo'[t] = Tail(todo[t])
  BY <1>3, <1>4
<1>6. pc' = [pc EXCEPT ![t] = where]
  BY <1>1, <1>5 DEF FetchAdd, GoTo
<1>7. \A x \in Threads: x # t =>
        Family(x)' = Family(x) /\ Label(x)' = Label(x) /\ todo'[x] = todo[x]
  BY <1>3, <1>4 DEF Family, Label
<1>8. ASSUME NEW x \in Threads, pc'[x] = "add"
      PROVE  /\ Label(x)' \in DOMAIN inner'[Family(x)']
             /\ ref'[x] = inner'[Family(x)'][Label(x)']
  <2>1. x # t /\ pc[x] = "add" /\ ref'[x] = ref[x]
    BY <1>1, <1>3, <1>4, <1>6, <1>8
  <2> QED BY <1>2, <1>7, <2>1 DEF IInv, ThreadsOK
<1>9. \A x \in Threads: pc'[x] # "idle" => todo'[x] # <<>>
  BY <1>1, <1>3, <1>5, <1>6, <1>7 DEF IInv, ThreadsOK
<1>10. /\ pc' \in [Threads -> {"idle", "lookup", "insert", "add"}]
       /\ todo' \in [Threads -> Seq(Additions)] /\ DOMAIN ref' = Threads
  BY <1>1, <1>3, <1>4, <1>6
<1> QED BY <1>8, <1>9, <1>10 DEF ThreadsOK

LEMMA AddTable ==
  ASSUME IInv, NEW t \in Threads, FetchAdd(t)
  PROVE  TableOK' /\ OwnCell' /\ RecordedOK' /\ LabelExact'
<1>1. PICK F, L, n, s: /\ F = Family(t) /\ L = Label(t) /\ n = Head(todo[t]).n
                       /\ s = SeriesOf(Head(todo[t]))
  OBVIOUS
<1>2. /\ F \in Families /\ L \in DOMAIN inner[F] /\ n \in Nat
      /\ inner' = inner /\ cells' \in Seq(Nat) /\ Len(cells') = Len(cells)
      /\ cells'[inner[F][L]] = cells[inner[F][L]] + n
      /\ \A f \in Families: \A l \in DOMAIN inner[f]:
           f # F \/ l # L => cells'[inner[f][l]] = cells[inner[f][l]]
  BY <1>1, AddCells
<1>3. /\ s[1] = F /\ label(F, s[2]) = L /\ \E a \in Additions: s = SeriesOf(a)
      /\ DOMAIN recorded' = DOMAIN recorded \cup {s}
      /\ s \in DOMAIN recorded => recorded'[s] = recorded[s] + n
      /\ s \notin DOMAIN recorded => recorded'[s] = n
      /\ \A x \in DOMAIN recorded: x # s => recorded'[x] = recorded[x]
  BY <1>1, AddRecorded
<1>4. IsFiniteSet(DOMAIN recorded) /\ \A x \in DOMAIN recorded: recorded[x] \in Nat
  BY DEF IInv, RecordedOK
<1>5. TableOK' /\ OwnCell'
  BY <1>2 DEF IInv, TableOK, OwnCell
<1>6. RecordedOK'
  <2>1. IsFiniteSet(DOMAIN recorded')
    BY <1>3, <1>4, FS_AddElement
  <2>2. \A x \in DOMAIN recorded': recorded'[x] \in Nat
    BY <1>2, <1>3, <1>4
  <2>3. \A x \in DOMAIN recorded': \E a \in Additions: x = SeriesOf(a)
    BY <1>3 DEF IInv, RecordedOK
  <2>4. \A x \in DOMAIN recorded': label(x[1], x[2]) \in DOMAIN inner'[x[1]]
    BY <1>2, <1>3 DEF IInv, RecordedOK
  <2> QED BY <2>1, <2>2, <2>3, <2>4 DEF RecordedOK
<1>7. ASSUME NEW f \in Families, NEW l \in DOMAIN inner[f]
      PROVE  cells'[inner[f][l]] = SumFunctionOnSet(recorded', Under(f, l)')
  <2>1. cells[inner[f][l]] = SumFunctionOnSet(recorded, Under(f, l))
    BY DEF IInv, LabelExact
  <2>2. /\ IsFiniteSet(Under(f, l)) /\ Under(f, l) \subseteq DOMAIN recorded
        /\ \A x \in Under(f, l): recorded[x] \in Nat
    <3>1. Under(f, l) \subseteq DOMAIN recorded
      BY DEF Under
    <3> QED BY <1>4, <3>1, FS_Subset
  <2>3. CASE f # F \/ l # L
    <3>1. Under(f, l)' = Under(f, l) /\ s \notin Under(f, l)
      BY <1>3, <2>3 DEF Under
    <3>2. \A x \in Under(f, l): recorded[x] = recorded'[x]
      BY <1>3, <2>2, <3>1
    <3>3. SumFunctionOnSet(recorded, Under(f, l))
            = SumFunctionOnSet(recorded', Under(f, l))
      BY <2>2, <3>2, SumSame
    <3> QED BY <1>2, <2>1, <2>3, <3>1, <3>3
  <2>4. CASE f = F /\ l = L
    <3>0. Under(f, l)' = Under(f, l) \cup {s}
      BY <1>3, <2>4 DEF Under
    <3>1. SumFunctionOnSet(recorded, Under(f, l)) \in Nat
      BY <2>2, SumType
    <3>2. CASE s \in DOMAIN recorded
      <4>1. s \in Under(f, l) /\ Under(f, l)' = Under(f, l)
        BY <1>3, <2>4, <3>0, <3>2 DEF Under
      <4>2. /\ \A x \in Under(f, l): recorded[x] \in Nat /\ recorded'[x] \in Nat
            /\ \A x \in Under(f, l) \ {s}: recorded'[x] = recorded[x]
        BY <1>2, <1>3, <1>4, <2>2
      <4>3. SumFunctionOnSet(recorded', Under(f, l))
              = SumFunctionOnSet(recorded, Under(f, l)) - recorded[s] + recorded'[s]
        BY <2>2, <4>1, <4>2, SumChange
      <4>4. recorded[s] \in Nat /\ recorded'[s] = recorded[s] + n
        BY <1>3, <1>4, <3>2
      <4>5. SumFunctionOnSet(recorded', Under(f, l))
              = SumFunctionOnSet(recorded, Under(f, l)) + n
        BY <1>2, <3>1, <4>3, <4>4
      <4>6. cells'[inner[f][l]] = cells[inner[f][l]] + n
        BY <1>2, <2>4
      <4> QED BY <2>1, <4>1, <4>5, <4>6
    <3>3. CASE s \notin DOMAIN recorded
      <4>1. s \notin Under(f, l)
        BY <3>3 DEF Under
      <4>2. /\ \A x \in Under(f, l): recorded'[x] \in Nat /\ recorded[x] = recorded'[x]
            /\ recorded'[s] = n
        BY <1>3, <2>2, <3>3, <4>1
      <4>3. SumFunctionOnSet(recorded', Under(f, l) \cup {s})
              = SumFunctionOnSet(recorded', Under(f, l)) + recorded'[s]
        <5>1. PICK g, U: g = recorded' /\ U = Under(f, l)
          OBVIOUS
        <5>2. /\ IsFiniteSet(U) /\ s \notin U /\ g[s] \in Nat
              /\ \A x \in U: g[x] \in Nat
          BY <1>2, <2>2, <4>1, <4>2, <5>1
        <5>3. SumFunctionOnSet(g, U \cup {s}) = SumFunctionOnSet(g, U) + g[s]
          BY <5>2, SumAdd
        <5> QED BY <5>1, <5>3
      <4>4. SumFunctionOnSet(recorded, Under(f, l))
              = SumFunctionOnSet(recorded', Under(f, l))
        BY <2>2, <4>2, SumSame
      <4>5. cells'[inner[f][l]] = cells[inner[f][l]] + n
        BY <1>2, <2>4
      <4> QED BY <2>1, <3>0, <4>2, <4>3, <4>4, <4>5
    <3> QED BY <3>2, <3>3
  <2> QED BY <2>3, <2>4
<1>8. LabelExact'
  BY <1>2, <1>7 DEF LabelExact
<1> QED BY <1>5, <1>6, <1>8

(* What a scrape has read of a counter still bounds it from below.          *)
LEMMA AddScrape ==
  ASSUME IInv, NEW t \in Threads, FetchAdd(t)
  PROVE  ScanOK' /\ ReadOK'
<1>1. UNCHANGED <<scan, out, floor, scrapes>> /\ inner' = inner
  BY DEF FetchAdd, scrapeVars
<1>2. \A f \in Families: \A l \in DOMAIN inner[f]:
        /\ cells[inner[f][l]] \in Nat /\ cells'[inner[f][l]] \in Nat
        /\ cells[inner[f][l]] <= cells'[inner[f][l]]
  <2>1. PICK F, L, n: F = Family(t) /\ L = Label(t) /\ n = Head(todo[t]).n
    OBVIOUS
  <2>2. /\ F \in Families /\ L \in DOMAIN inner[F] /\ n \in Nat
        /\ cells'[inner[F][L]] = cells[inner[F][L]] + n
        /\ \A f \in Families: \A l \in DOMAIN inner[f]:
             f # F \/ l # L => cells'[inner[f][l]] = cells[inner[f][l]]
    BY <2>1, AddCells
  <2>3. \A f \in Families: \A l \in DOMAIN inner[f]: cells[inner[f][l]] \in Nat
    BY DEF IInv, TableOK
  <2> QED BY <2>2, <2>3
<1>3. ScanOK'
  BY <1>1 DEF IInv, ScanOK, Passed
<1>4. ReadOK'
  <2>1. ASSUME NEW f \in Families
        PROVE  /\ \A l \in DOMAIN floor[f]: floor[f][l] <= cells'[inner[f][l]]
               /\ \A l \in DOMAIN out[f]: out[f][l] <= cells'[inner[f][l]]
    <3>1. /\ DOMAIN floor[f] \subseteq DOMAIN inner[f]
          /\ DOMAIN out[f] \subseteq DOMAIN inner[f]
          /\ \A l \in DOMAIN floor[f]:
               floor[f][l] \in Nat /\ floor[f][l] <= cells[inner[f][l]]
          /\ \A l \in DOMAIN out[f]:
               out[f][l] \in Nat /\ out[f][l] <= cells[inner[f][l]]
      BY DEF IInv, ReadOK
    <3>2. \A l \in DOMAIN inner[f]:
            /\ cells[inner[f][l]] \in Nat /\ cells'[inner[f][l]] \in Nat
            /\ cells[inner[f][l]] <= cells'[inner[f][l]]
      BY <1>2
    <3> QED BY <3>1, <3>2
  <2> QED BY <1>1, <2>1 DEF IInv, ReadOK
<1> QED BY <1>3, <1>4

LEMMA FetchAddStep ==
  ASSUME IInv, NEW t \in Threads, FetchAdd(t)
  PROVE  IInv'
<1>1. BoundsOK'
  BY DEF FetchAdd, IInv, BoundsOK, scrapeVars
<1> QED
  BY <1>1, AddThreads, AddTable, AddScrape DEF IInv

-----------------------------------------------------------------------------
(* The families that render() goes through.                                 *)
LEMMA RenderedFamilies ==
  /\ Len(RenderOrder) = 5 /\ DOMAIN RenderOrder = 1..5
  /\ \A i \in 1..5: RenderOrder[i] \in Families
  /\ \A f \in Families: \E i \in 1..5: RenderOrder[i] = f
BY DEF RenderOrder, Families, LabelNames

(* A step of render() moves nothing but the scrape.                         *)
LEMMA ScrapeStep ==
  ASSUME IInv, UNCHANGED <<inner, cells, recordVars, recorded>>,
         ScanOK', ReadOK', scrapes' \in 0..MaxScrapes
  PROVE  IInv'
<1>1. UNCHANGED <<todo, pc, ref, calls>>
  BY DEF recordVars
<1>2. TableOK' /\ OwnCell' /\ RecordedOK' /\ LabelExact'
  BY TableSame
<1>3. ThreadsOK'
  BY <1>1 DEF IInv, ThreadsOK, Label, Family
<1>4. BoundsOK'
  BY <1>1 DEF IInv, BoundsOK
<1> QED BY <1>2, <1>3, <1>4 DEF IInv

LEMMA RenderBeginStep ==
  ASSUME IInv, RenderBegin
  PROVE  IInv'
<1>1. /\ UNCHANGED <<inner, cells, recordVars, recorded>>
      /\ out' = [f \in Families |-> <<>>]
      /\ floor' = [f \in Families |-> [l \in DOMAIN inner[f] |-> cells[inner[f][l]]]]
      /\ scan' = [scan EXCEPT !.family = 1] /\ scan.family = 0
  BY DEF RenderBegin
<1>2. scrapes' \in 0..MaxScrapes
  BY MetricsAssumption DEF RenderBegin, IInv, BoundsOK
<1>3. \A f \in Families: \A l \in DOMAIN inner[f]: cells[inner[f][l]] \in Nat
  BY DEF IInv, TableOK
<1>4. ReadOK'
  <2>1. \A f \in Families: DOMAIN out'[f] = {}
    BY <1>1
  <2>2. \A f \in Families: /\ DOMAIN floor'[f] = DOMAIN inner[f]
                           /\ \A l \in DOMAIN inner[f]: floor'[f][l] = cells[inner[f][l]]
    BY <1>1
  <2>3. DOMAIN out' = Families /\ DOMAIN floor' = Families
    BY <1>1
  <2> QED BY <1>1, <1>3, <2>1, <2>2, <2>3 DEF ReadOK
<1>5. ScanOK'
  <2>1. scan \in [family: 0..5, held: BOOLEAN, left: {scan.left}] /\ ~scan.held
    BY <1>1, RenderedFamilies DEF IInv, ScanOK
  <2>2. scan.left = {}
    BY <2>1 DEF IInv, ScanOK
  <2>3. scan' \in [family: 0..5, held: BOOLEAN, left: {{}}] /\ ~scan'.held
        /\ scan'.left = {} /\ scan'.family = 1
    BY <1>1, <2>1, <2>2
  <2>4. \A f \in Families: ~Passed(f)'
    BY <2>3, RenderedFamilies DEF Passed
  <2> QED BY <2>3, <2>4, RenderedFamilies DEF ScanOK
<1> QED BY <1>1, <1>2, <1>4, <1>5, ScrapeStep

LEMMA SnapshotBeginStep ==
  ASSUME IInv, SnapshotBegin
  PROVE  IInv'
<1>1. PICK i, f: i = scan.family /\ f = RenderOrder[i]
  OBVIOUS
<1>2. /\ UNCHANGED <<inner, cells, recordVars, out, scrapes, floor, recorded>>
      /\ scan' = [scan EXCEPT !.held = TRUE, !.left = DOMAIN inner[f]]
      /\ i # 0 /\ ~scan.held
  BY <1>1 DEF SnapshotBegin
<1>3. scan \in [family: 0..5, held: BOOLEAN, left: {scan.left}] /\ i \in 1..5
  BY <1>1, <1>2, RenderedFamilies DEF IInv, ScanOK
<1>4. /\ scan' \in [family: 0..5, held: BOOLEAN, left: {scan'.left}]
      /\ scan'.held /\ scan'.family = i /\ scan'.left = DOMAIN inner[f]
  BY <1>1, <1>2, <1>3
<1>5. f \in Families
  BY <1>1, <1>3, RenderedFamilies
<1>6. ReadOK'
  BY <1>2 DEF IInv, ReadOK
<1>7. ScanOK'
  <2>1. \A g \in Families: Passed(g)' <=> Passed(g)
    BY <1>1, <1>4 DEF Passed
  <2>2. \A g \in Families: Passed(g)' => DOMAIN floor'[g] \subseteq DOMAIN out'[g]
    BY <1>2, <2>1 DEF IInv, ScanOK
  <2>3. DOMAIN floor[f] \subseteq DOMAIN inner[f]
    BY <1>5 DEF IInv, ReadOK
  <2> QED BY <1>1, <1>2, <1>3, <1>4, <2>2, <2>3, RenderedFamilies DEF ScanOK
<1> QED BY <1>2, <1>6, <1>7, ScrapeStep DEF IInv, BoundsOK

LEMMA SnapshotLoadStep ==
  ASSUME IInv, NEW l \in scan.left, SnapshotLoad(l)
  PROVE  IInv'
<1>1. PICK i, f, v: i = scan.family /\ f = RenderOrder[i] /\ v = cells[inner[f][l]]
  OBVIOUS
<1>2. /\ UNCHANGED <<inner, cells, recordVars, scrapes, floor, recorded>>
      /\ scan' = [scan EXCEPT !.left = scan.left \ {l}]
      /\ out' = [out EXCEPT ![f] = With(out[f], l, v)]
      /\ scan.held
  BY <1>1 DEF SnapshotLoad
<1>3. scan \in [family: 0..5, held: BOOLEAN, left: {scan.left}] /\ i \in 1..5
  BY <1>1, <1>2, RenderedFamilies DEF IInv, ScanOK
<1>4. /\ scan' \in [family: 0..5, held: BOOLEAN, left: {scan'.left}]
      /\ scan'.held /\ scan'.family = i /\ scan'.left = scan.left \ {l}
  BY <1>1, <1>2, <1>3
<1>5. f \in Families
  BY <1>1, <1>3, RenderedFamilies
<1>6. l \in DOMAIN inner[f] /\ scan.left \subseteq DOMAIN inner[f]
  BY <1>1, <1>2 DEF IInv, ScanOK
<1>7. v \in Nat
  BY <1>1, <1>5, <1>6 DEF IInv, TableOK
<1>8. /\ DOMAIN out' = Families
      /\ \A g \in Families: g # f => out'[g] = out[g]
      /\ DOMAIN out'[f] = DOMAIN out[f] \cup {l}
      /\ out'[f][l] = v
      /\ \A m \in DOMAIN out[f]: m # l => out'[f][m] = out[f][m]
  <2>1. DOMAIN out = Families
    BY DEF IInv, ReadOK
  <2>2. out'[f] = With(out[f], l, v)
    BY <1>2, <1>5, <2>1
  <2>3. /\ DOMAIN out' = Families
        /\ \A g \in Families: g # f => out'[g] = out[g]
    BY <1>2, <2>1
  <2> QED BY <2>2, <2>3 DEF With
<1>9. ReadOK'
  <2>1. ASSUME NEW g \in Families
        PROVE  /\ DOMAIN out'[g] \subseteq DOMAIN inner[g]
               /\ \A m \in DOMAIN out'[g]:
                    out'[g][m] \in Nat /\ out'[g][m] <= cells[inner[g][m]]
               /\ \A m \in DOMAIN out'[g] \cap DOMAIN floor[g]: floor[g][m] <= out'[g][m]
    <3>0. /\ DOMAIN out[g] \subseteq DOMAIN inner[g]
          /\ \A m \in DOMAIN out[g]:
               out[g][m] \in Nat /\ out[g][m] <= cells[inner[g][m]]
          /\ \A m \in DOMAIN out[g] \cap DOMAIN floor[g]: floor[g][m] <= out[g][m]
          /\ \A m \in DOMAIN floor[g]:
               floor[g][m] \in Nat /\ floor[g][m] <= cells[inner[g][m]]
      BY DEF IInv, ReadOK
    <3>1. CASE g # f
      <4>1. out'[g] = out[g]
        BY <1>8, <3>1
      <4> QED BY <3>0, <4>1
    <3>2. CASE g = f
      <4>1. ASSUME NEW m \in DOMAIN out'[g]
            PROVE  /\ m \in DOMAIN inner[g]
                   /\ out'[g][m] \in Nat /\ out'[g][m] <= cells[inner[g][m]]
                   /\ m \in DOMAIN floor[g] => floor[g][m] <= out'[g][m]
        <5>1. CASE m = l
          BY <1>1, <1>6, <1>7, <1>8, <3>0, <3>2, <5>1
        <5>2. CASE m # l
          <6>1. m \in DOMAIN out[g] /\ out'[g][m] = out[g][m]
            BY <1>8, <3>2, <5>2
          <6> QED BY <3>0, <6>1
        <5> QED BY <5>1, <5>2
      <4> QED BY <4>1
    <3> QED BY <3>1, <3>2
  <2> QED BY <1>2, <1>8, <2>1 DEF IInv, ReadOK
<1>10. ScanOK'
  <2>1. \A g \in Families: Passed(g)' <=> Passed(g)
    BY <1>1, <1>4 DEF Passed
  <2>2. \A g \in Families: DOMAIN out[g] \subseteq DOMAIN out'[g]
    BY <1>8
  <2>3. \A g \in Families: Passed(g)' => DOMAIN floor'[g] \subseteq DOMAIN out'[g]
    BY <1>2, <2>1, <2>2 DEF IInv, ScanOK
  <2>4. DOMAIN floor[f] \subseteq DOMAIN out'[f] \cup scan'.left
    <3>1. DOMAIN floor[f] \subseteq DOMAIN out[f] \cup scan.left
      BY <1>1, <1>2 DEF IInv, ScanOK
    <3> QED BY <1>4, <1>8, <3>1
  <2> QED BY <1>1, <1>2, <1>3, <1>4, <1>6, <2>3, <2>4, RenderedFamilies DEF ScanOK
<1> QED BY <1>2, <1>9, <1>10, ScrapeStep DEF IInv, BoundsOK

(* The family that is left is complete: nothing of it was left to load.     *)
LEMMA SnapshotEndStep ==
  ASSUME IInv, SnapshotEnd
  PROVE  IInv'
<1>1. PICK i, f: i = scan.family /\ f = RenderOrder[i]
  OBVIOUS
<1>2. /\ UNCHANGED <<inner, cells, recordVars, out, scrapes, floor, recorded>>
      /\ scan' = IF i = 5 THEN NotScanning
                 ELSE [family |-> i + 1, held |-> FALSE, left |-> {}]
      /\ scan.held /\ scan.left = {}
  BY <1>1, RenderedFamilies DEF SnapshotEnd
<1>3. i \in 1..5
  BY <1>1, <1>2, RenderedFamilies DEF IInv, ScanOK
<1>4. /\ scan' \in [family: 0..5, held: BOOLEAN, left: {{}}]
      /\ ~scan'.held /\ scan'.left = {}
      /\ scan'.family = IF i = 5 THEN 0 ELSE i + 1
  BY <1>2, <1>3 DEF NotScanning
<1>5. DOMAIN floor[f] \subseteq DOMAIN out[f]
  BY <1>1, <1>2 DEF IInv, ScanOK
<1>6. \A g \in Families: Passed(g) => DOMAIN floor[g] \subseteq DOMAIN out[g]
  BY DEF IInv, ScanOK
<1>7. \A g \in Families: Passed(g)' => g = f \/ Passed(g)
  <2> SUFFICES ASSUME NEW g \in Families, Passed(g)', g # f
               PROVE  Passed(g)
    OBVIOUS
  <2>1. PICK j \in 1..5: RenderOrder[j] = g /\ j < i
    <3>1. CASE scan'.family = 0
      <4>1. i = 5
        BY <1>3, <1>4, <3>1
      <4>2. PICK j \in 1..5: RenderOrder[j] = g
        BY RenderedFamilies
      <4>3. j # i
        BY <1>1, <4>2
      <4> QED BY <4>1, <4>2, <4>3
    <3>2. CASE scan'.family # 0
      <4>1. PICK j \in 1..5: j < scan'.family /\ RenderOrder[j] = g
        BY <3>2, RenderedFamilies DEF Passed
      <4>2. j # i
        BY <1>1, <4>1
      <4>3. scan'.family = i + 1
        BY <1>4, <3>2
      <4> QED BY <1>3, <4>1, <4>2, <4>3
    <3> QED BY <3>1, <3>2
  <2> QED BY <1>1, <2>1, RenderedFamilies DEF Passed
<1>8. ScanOK'
  BY <1>2, <1>4, <1>5, <1>6, <1>7, RenderedFamilies DEF ScanOK
<1>9. ReadOK'
  BY <1>2 DEF IInv, ReadOK
<1> QED BY <1>2, <1>8, <1>9, ScrapeStep DEF IInv, BoundsOK

LEMMA StutterStep ==
  ASSUME IInv, UNCHANGED vars
  PROVE  IInv'
<1>1. /\ UNCHANGED <<inner, cells, recordVars, scrapeVars, recorded>>
      /\ UNCHANGED scrapes
  BY DEF vars, scrapeVars
<1> QED BY <1>1, ScrapeSame, ScrapeStep DEF IInv, BoundsOK

LEMMA NextIInv == IInv /\ [Next]_vars => IInv'
<1> SUFFICES ASSUME IInv, [Next]_vars PROVE IInv'
  OBVIOUS
<1>1. CASE \E t \in Threads: \/ \E call \in Calls: Record(t, call)
                             \/ Lookup(t) \/ Insert(t) \/ FetchAdd(t)
  BY <1>1, RecordStep, LookupStep, InsertStep, FetchAddStep
<1>2. CASE RenderBegin \/ SnapshotBegin \/ SnapshotEnd
  BY <1>2, RenderBeginStep, SnapshotBeginStep, SnapshotEndStep
<1>3. CASE \E l \in scan.left: SnapshotLoad(l)
  BY <1>3, SnapshotLoadStep
<1>4. CASE UNCHANGED vars
  BY <1>4, StutterStep
<1> QED BY <1>1, <1>2, <1>3, <1>4 DEF Next

LEMMA AlwaysIInv == Spec => []IInv
BY InitIInv, NextIInv, PTL DEF Spec

-----------------------------------------------------------------------------
(* Types, for any threads and calls: every label of a family has a counter  *)
(* that exists, and a thread that adds has been given one.                  *)
THEOREM TypeCorrect == Spec => []TypeOK
<1>1. IInv => TypeOK
  <2> SUFFICES ASSUME IInv PROVE TypeOK
    OBVIOUS
  <2>1. /\ cells \in Seq(Nat) /\ DOMAIN inner = Families
        /\ \A f \in Families: \A l \in DOMAIN inner[f]: inner[f][l] \in 1..Len(cells)
    BY DEF IInv, TableOK
  <2>2. /\ pc \in [Threads -> {"idle", "lookup", "insert", "add"}]
        /\ \A t \in Threads: pc[t] # "idle" => todo[t] # <<>>
    BY DEF IInv, ThreadsOK
  <2>3. \A t \in Threads: pc[t] = "add" => ref[t] \in 1..Len(cells)
    <3> SUFFICES ASSUME NEW t \in Threads, pc[t] = "add"
                 PROVE  ref[t] \in 1..Len(cells)
      OBVIOUS
    <3>1. Label(t) \in DOMAIN inner[Family(t)] /\ ref[t] = inner[Family(t)][Label(t)]
      BY DEF IInv, ThreadsOK
    <3>2. Family(t) \in Families
      BY AtAddition DEF IInv
    <3> QED BY <2>1, <3>1, <3>2
  <2>4. scan.family \in 0..Len(RenderOrder) /\ scan.held \in BOOLEAN
    BY DEF IInv, ScanOK
  <2>5. /\ DOMAIN out = Families
        /\ \A f \in Families: \A l \in DOMAIN out[f]: out[f][l] \in Nat
    BY DEF IInv, ReadOK
  <2>6. calls \in 0..MaxCalls /\ scrapes \in 0..MaxScrapes
    BY DEF IInv, BoundsOK
  <2> QED BY <2>1, <2>2, <2>3, <2>4, <2>5, <2>6 DEF TypeOK
<1> QED BY <1>1, AlwaysIInv, PTL

(* render(), whatever is recorded and created while it runs: a complete     *)
(* scrape has every counter that existed when it began, at a value between  *)
(* what it was then and what it is now.                                     *)
THEOREM ScrapesWithinInterval == Spec => []ScrapeInInterval
<1>1. IInv => ScrapeInInterval
  <2>1. IInv /\ scan.family = 0 =>
          \A f \in Families: DOMAIN floor[f] \subseteq DOMAIN out[f]
    BY DEF IInv, ScanOK, Passed
  <2> QED BY <2>1 DEF IInv, ReadOK, ScrapeInInterval
<1> QED BY <1>1, AlwaysIInv, PTL

(* get_or_create and fetch_add lose nothing and double nothing: a counter   *)
(* holds the sum of all that was recorded under its label, in every         *)
(* interleaving of any number of threads that meet at its first use.        *)
THEOREM CountersExact == Spec => []LabelExact
<1>1. IInv => LabelExact
  BY DEF IInv
<1> QED BY <1>1, AlwaysIInv, PTL

-----------------------------------------------------------------------------
(* escape() and label() lose nothing: an escaped text followed by a quote   *)
(* says where it ends and what it was, whatever the symbols S are.          *)

(* One round of replace, on one symbol.                                     *)
By(x, symbol, by) == IF x = symbol THEN by ELSE <<x>>

Parts(text, symbol, by) == [i \in DOMAIN text |-> By(text[i], symbol, by)]

LEMMA ReplaceParts ==
  ASSUME NEW text, NEW symbol, NEW by
  PROVE  replace(text, symbol, by) = FlattenSeq(Parts(text, symbol, by))
BY DEF replace, Parts, By

LEMMA PartsType ==
  ASSUME NEW S, NEW text \in Seq(S), NEW symbol, NEW by \in Seq(S)
  PROVE  /\ Parts(text, symbol, by) \in Seq(Seq(S))
         /\ Len(Parts(text, symbol, by)) = Len(text)
         /\ \A i \in 1..Len(text): Parts(text, symbol, by)[i] = By(text[i], symbol, by)
<1>1. PICK n \in Nat: n = Len(text) /\ DOMAIN text = 1..n
  BY LenProperties
<1>2. \A i \in 1..n: By(text[i], symbol, by) \in Seq(S)
  BY <1>1 DEF By
<1>3. PICK p: p = Parts(text, symbol, by)
  OBVIOUS
<1>4. p \in [1..n -> Seq(S)] /\ \A i \in 1..n: p[i] = By(text[i], symbol, by)
  BY <1>1, <1>2, <1>3 DEF Parts
<1>5. p \in Seq(Seq(S)) /\ Len(p) = n
  BY <1>4, FunctionIsSeq
<1> QED BY <1>1, <1>3, <1>4, <1>5

LEMMA PartsConcat ==
  ASSUME NEW S, NEW t \in Seq(S), NEW u \in Seq(S), NEW symbol, NEW by \in Seq(S)
  PROVE  Parts(t \o u, symbol, by) = Parts(t, symbol, by) \o Parts(u, symbol, by)
<1>2. PICK c: c = t \o u
  OBVIOUS
<1>1. PICK p, a, b: /\ p = Parts(c, symbol, by)
                    /\ a = Parts(t, symbol, by) /\ b = Parts(u, symbol, by)
  OBVIOUS
<1>3. /\ c \in Seq(S) /\ Len(c) = Len(t) + Len(u)
      /\ \A i \in 1..Len(t): c[i] = t[i] /\ i \in 1..Len(c)
      /\ \A i \in 1..Len(u): c[Len(t) + i] = u[i] /\ Len(t) + i \in 1..Len(c)
  BY <1>2
<1>4. /\ a \in Seq(Seq(S)) /\ Len(a) = Len(t)
      /\ \A i \in 1..Len(t): a[i] = By(t[i], symbol, by)
  BY <1>1, PartsType
<1>5. /\ b \in Seq(Seq(S)) /\ Len(b) = Len(u)
      /\ \A i \in 1..Len(u): b[i] = By(u[i], symbol, by)
  BY <1>1, PartsType
<1>6. /\ p \in Seq(Seq(S)) /\ Len(p) = Len(c)
      /\ \A i \in 1..Len(c): p[i] = By(c[i], symbol, by)
  <2>1. c \in Seq(S)
    BY <1>3
  <2> QED BY <1>1, <2>1, PartsType
<1>7. \A i \in 1..Len(a): p[i] = a[i]
  BY <1>3, <1>4, <1>6
<1>8. \A i \in 1..Len(b): p[Len(a) + i] = b[i]
  BY <1>3, <1>4, <1>5, <1>6
<1>9. Len(p) = Len(a) + Len(b)
  BY <1>3, <1>4, <1>5, <1>6
<1>10. p = a \o b
  BY <1>4, <1>5, <1>6, <1>7, <1>8, <1>9, ConcatIs
<1> QED BY <1>1, <1>2, <1>10

LEMMA ReplaceType ==
  ASSUME NEW S, NEW text \in Seq(S), NEW symbol, NEW by \in Seq(S)
  PROVE  replace(text, symbol, by) \in Seq(S)
BY PartsType, ReplaceParts, FlattenType

LEMMA ReplaceConcat ==
  ASSUME NEW S, NEW t \in Seq(S), NEW u \in Seq(S), NEW symbol, NEW by \in Seq(S)
  PROVE  replace(t \o u, symbol, by) = replace(t, symbol, by) \o replace(u, symbol, by)
<1>0. Parts(t \o u, symbol, by) = Parts(t, symbol, by) \o Parts(u, symbol, by)
  BY PartsConcat, SMTT(60)
<1>1. PICK a, b: a = Parts(t, symbol, by) /\ b = Parts(u, symbol, by)
  OBVIOUS
<1>2. a \in Seq(Seq(S)) /\ b \in Seq(Seq(S))
  BY <1>1, PartsType
<1>3. FlattenSeq(a \o b) = FlattenSeq(a) \o FlattenSeq(b)
  BY <1>2, FlattenConcat
<1>4. Parts(t \o u, symbol, by) = a \o b
  BY <1>0, <1>1
<1> QED BY <1>1, <1>3, <1>4, ReplaceParts

LEMMA ReplaceOne ==
  ASSUME NEW S, NEW x \in S, NEW symbol, NEW by \in Seq(S)
  PROVE  replace(<<x>>, symbol, by) = By(x, symbol, by)
<1>1. By(x, symbol, by) \in Seq(S)
  BY DEF By
<1>2. Parts(<<x>>, symbol, by) = <<By(x, symbol, by)>>
  BY DEF Parts
<1> QED BY <1>1, <1>2, FlattenOne, ReplaceParts

LEMMA ReplaceEmpty ==
  ASSUME NEW symbol, NEW by
  PROVE  replace(<<>>, symbol, by) = <<>>
<1>1. Parts(<<>>, symbol, by) = <<>>
  BY DEF Parts
<1> QED BY <1>1, ReplaceParts, FlattenEmpty
(* Concatenation and one-symbol texts under names of their own, which the   *)
(* provers leave folded, and what escape puts in.                           *)
Cat(t, u) == t \o u
One(x) == <<x>>

EscapedBackslash == <<Backslash, Backslash>>
EscapedQuote     == <<Backslash, Quote>>
EscapedNewline   == <<Backslash, "n">>

(* An alphabet that has the symbols that escape puts in.                    *)
Alphabet(S) == Backslash \in S /\ Quote \in S /\ Newline \in S /\ "n" \in S

LEMMA CatType ==
  ASSUME NEW S, NEW t \in Seq(S), NEW u \in Seq(S)
  PROVE  Cat(t, u) \in Seq(S)
BY DEF Cat

LEMMA OneType ==
  ASSUME NEW S, NEW x \in S
  PROVE  One(x) \in Seq(S)
BY DEF One

LEMMA EscapesType ==
  ASSUME NEW S, Alphabet(S)
  PROVE  /\ EscapedBackslash \in Seq(S) /\ EscapedQuote \in Seq(S)
         /\ EscapedNewline \in Seq(S)
BY DEF Alphabet, EscapedBackslash, EscapedQuote, EscapedNewline

LEMMA EscapesCat ==
  /\ EscapedBackslash = Cat(One(Backslash), One(Backslash))
  /\ EscapedQuote = Cat(One(Backslash), One(Quote))
  /\ EscapedNewline = Cat(One(Backslash), One("n"))
<1>1. \A x, y: <<x, y>> = <<x>> \o <<y>>
  <2> SUFFICES ASSUME NEW x, NEW y PROVE <<x, y>> = <<x>> \o <<y>>
    OBVIOUS
  <2>1. PICK a, b, p: a = <<x>> /\ b = <<y>> /\ p = <<x, y>>
    OBVIOUS
  <2>2. a \in Seq({x, y}) /\ b \in Seq({x, y}) /\ p \in Seq({x, y})
    BY <2>1
  <2>3. Len(a) = 1 /\ Len(b) = 1 /\ Len(p) = 2 /\ p[1] = a[1] /\ p[2] = b[1]
    BY <2>1
  <2>4. /\ Len(p) = Len(a) + Len(b)
        /\ \A i \in 1..Len(a): p[i] = a[i]
        /\ \A i \in 1..Len(b): p[Len(a) + i] = b[i]
    BY <2>3
  <2>5. p = a \o b
    BY <2>2, <2>4, ConcatIs
  <2> QED BY <2>1, <2>5
<1> QED BY <1>1 DEF EscapedBackslash, EscapedQuote, EscapedNewline, Cat, One

LEMMA EscapeIs ==
  ASSUME NEW t
  PROVE  escape(t) = replace(replace(replace(t, Backslash, EscapedBackslash),
                                     Quote, EscapedQuote), Newline, EscapedNewline)
BY DEF escape, EscapedBackslash, EscapedQuote, EscapedNewline

LEMMA ReplaceCat ==
  ASSUME NEW S, NEW t \in Seq(S), NEW u \in Seq(S), NEW symbol, NEW by \in Seq(S)
  PROVE  replace(Cat(t, u), symbol, by) = Cat(replace(t, symbol, by), replace(u, symbol, by))
BY ReplaceConcat, SMTT(60) DEF Cat

LEMMA ReplaceSingle ==
  ASSUME NEW S, NEW x \in S, NEW symbol, NEW by \in Seq(S)
  PROVE  replace(One(x), symbol, by) = IF x = symbol THEN by ELSE One(x)
BY ReplaceOne DEF One, By

LEMMA ReplaceNone ==
  ASSUME NEW S, NEW x \in S, NEW y \in S, NEW symbol, NEW by \in Seq(S),
         x # symbol, y # symbol
  PROVE  replace(Cat(One(x), One(y)), symbol, by) = Cat(One(x), One(y))
<1>1. One(x) \in Seq(S) /\ One(y) \in Seq(S)
  BY OneType
<1>2. replace(Cat(One(x), One(y)), symbol, by)
        = Cat(replace(One(x), symbol, by), replace(One(y), symbol, by))
  BY <1>1, ReplaceCat
<1>3. replace(One(x), symbol, by) = One(x) /\ replace(One(y), symbol, by) = One(y)
  BY ReplaceSingle
<1> QED BY <1>2, <1>3

LEMMA EscapeType ==
  ASSUME NEW S, Alphabet(S), NEW t \in Seq(S)
  PROVE  escape(t) \in Seq(S)
<1>1. PICK r, q: /\ r = replace(t, Backslash, EscapedBackslash)
                 /\ q = replace(r, Quote, EscapedQuote)
  OBVIOUS
<1>2. r \in Seq(S)
  BY <1>1, EscapesType, ReplaceType
<1>3. q \in Seq(S)
  BY <1>1, <1>2, EscapesType, ReplaceType
<1>4. replace(q, Newline, EscapedNewline) \in Seq(S)
  BY <1>3, EscapesType, ReplaceType
<1> QED BY <1>1, <1>4, EscapeIs

LEMMA EscapeCat ==
  ASSUME NEW S, Alphabet(S), NEW t \in Seq(S), NEW u \in Seq(S)
  PROVE  escape(Cat(t, u)) = Cat(escape(t), escape(u))
<1>1. PICK a, b: /\ a = replace(t, Backslash, EscapedBackslash)
                 /\ b = replace(u, Backslash, EscapedBackslash)
  OBVIOUS
<1>2. a \in Seq(S) /\ b \in Seq(S)
  BY <1>1, EscapesType, ReplaceType
<1>3. replace(Cat(t, u), Backslash, EscapedBackslash) = Cat(a, b)
  BY <1>1, EscapesType, ReplaceCat
<1>4. PICK c, d: c = replace(a, Quote, EscapedQuote) /\ d = replace(b, Quote, EscapedQuote)
  OBVIOUS
<1>5. c \in Seq(S) /\ d \in Seq(S)
  BY <1>2, <1>4, EscapesType, ReplaceType
<1>6. replace(Cat(a, b), Quote, EscapedQuote) = Cat(c, d)
  BY <1>2, <1>4, EscapesType, ReplaceCat
<1>7. replace(Cat(c, d), Newline, EscapedNewline)
        = Cat(replace(c, Newline, EscapedNewline), replace(d, Newline, EscapedNewline))
  BY <1>5, EscapesType, ReplaceCat
<1> QED BY <1>1, <1>3, <1>4, <1>6, <1>7, EscapeIs

LEMMA EscapeEmpty == escape(<<>>) = <<>>
BY ReplaceEmpty DEF escape

(* What escape makes of one symbol.                                         *)
Code(x) == IF x = Backslash THEN EscapedBackslash
           ELSE IF x = Quote THEN EscapedQuote
           ELSE IF x = Newline THEN EscapedNewline
           ELSE One(x)

LEMMA SymbolsDiffer ==
  /\ Backslash # Quote /\ Backslash # Newline /\ Quote # Newline
  /\ "n" # Newline /\ "n" # Quote /\ "n" # Backslash
BY DEF Backslash, Quote, Newline

LEMMA EscapeOne ==
  ASSUME NEW S, Alphabet(S), NEW x \in S
  PROVE  escape(One(x)) = Code(x)
<1>1. PICK a, b: /\ a = replace(One(x), Backslash, EscapedBackslash)
                 /\ b = replace(a, Quote, EscapedQuote)
  OBVIOUS
<1>2. escape(One(x)) = replace(b, Newline, EscapedNewline)
  BY <1>1, EscapeIs
<1>3. Backslash \in S /\ Quote \in S /\ Newline \in S /\ "n" \in S
  BY DEF Alphabet
<1>4. CASE x = Backslash
  <2>1. a = EscapedBackslash
    BY <1>1, <1>4, EscapesType, ReplaceSingle
  <2>2. b = EscapedBackslash
    BY <1>1, <1>3, <2>1, EscapesType, EscapesCat, ReplaceNone, SymbolsDiffer
  <2>3. replace(b, Newline, EscapedNewline) = EscapedBackslash
    BY <1>3, <2>2, EscapesType, EscapesCat, ReplaceNone, SymbolsDiffer
  <2> QED BY <1>2, <1>4, <2>3 DEF Code
<1>5. CASE x = Quote
  <2>1. a = One(Quote)
    BY <1>1, <1>5, EscapesType, ReplaceSingle, SymbolsDiffer
  <2>2. b = EscapedQuote
    BY <1>1, <1>3, <2>1, EscapesType, ReplaceSingle
  <2>3. replace(b, Newline, EscapedNewline) = EscapedQuote
    BY <1>3, <2>2, EscapesType, EscapesCat, ReplaceNone, SymbolsDiffer
  <2> QED BY <1>2, <1>5, <2>3, SymbolsDiffer DEF Code
<1>6. CASE x = Newline
  <2>1. a = One(Newline)
    BY <1>1, <1>6, EscapesType, ReplaceSingle, SymbolsDiffer
  <2>2. b = One(Newline)
    BY <1>1, <1>3, <2>1, EscapesType, ReplaceSingle, SymbolsDiffer
  <2>3. replace(b, Newline, EscapedNewline) = EscapedNewline
    BY <1>3, <2>2, EscapesType, ReplaceSingle
  <2> QED BY <1>2, <1>6, <2>3, SymbolsDiffer DEF Code
<1>7. CASE x # Backslash /\ x # Quote /\ x # Newline
  <2>1. a = One(x)
    BY <1>1, <1>7, EscapesType, ReplaceSingle
  <2>2. b = One(x)
    BY <1>1, <1>7, <2>1, EscapesType, ReplaceSingle
  <2>3. replace(b, Newline, EscapedNewline) = One(x)
    BY <1>7, <2>2, EscapesType, ReplaceSingle
  <2> QED BY <1>2, <1>7, <2>3 DEF Code
<1> QED BY <1>4, <1>5, <1>6, <1>7

(* A code's first symbol is a backslash if two follow from each other, and  *)
(* then the second says which.                                              *)
LEMMA CodeBegins ==
  ASSUME NEW S, Alphabet(S), NEW x \in S, NEW a \in Seq(S), NEW r, r = Cat(Code(x), a)
  PROVE  IF x \in {Backslash, Quote, Newline}
         THEN r[1] = Backslash /\ r[2] = (IF x = Newline THEN "n" ELSE x)
         ELSE r[1] = x
<1>1. CASE x \in {Backslash, Quote, Newline}
  <2>1. PICK w \in S: w = (IF x = Newline THEN "n" ELSE x)
    BY DEF Alphabet
  <2>2. Code(x) = <<Backslash, w>>
    BY <1>1, <2>1, SymbolsDiffer
       DEF Code, EscapedBackslash, EscapedQuote, EscapedNewline
  <2>3. r = <<Backslash, w>> \o a
    BY <2>2 DEF Cat
  <2>4. Backslash \in S
    BY DEF Alphabet
  <2>5. r[1] = Backslash /\ r[2] = w
    BY <2>3, <2>4
  <2> QED BY <1>1, <2>1, <2>5
<1>2. CASE x \notin {Backslash, Quote, Newline}
  <2>1. r = <<x>> \o a
    BY <1>2 DEF Code, Cat, One
  <2>2. r[1] = x
    BY <2>1
  <2> QED BY <1>2, <2>2
<1> QED BY <1>1, <1>2

LEMMA CodeType ==
  ASSUME NEW S, Alphabet(S), NEW x \in S
  PROVE  Code(x) \in Seq(S)
BY EscapesType, OneType DEF Code

LEMMA CatCancel ==
  ASSUME NEW S, NEW t \in Seq(S), NEW a \in Seq(S), NEW b \in Seq(S), Cat(t, a) = Cat(t, b)
  PROVE  a = b
BY ConcatSimplifications DEF Cat

LEMMA CatAssoc ==
  ASSUME NEW S, NEW a \in Seq(S), NEW b \in Seq(S), NEW c \in Seq(S)
  PROVE  Cat(Cat(a, b), c) = Cat(a, Cat(b, c))
BY ConcatAssoc DEF Cat

LEMMA CatEmpty ==
  ASSUME NEW S, NEW a \in Seq(S)
  PROVE  Cat(<<>>, a) = a
BY ConcatEmptySeq DEF Cat

(* A text is empty or a symbol and a shorter text.                          *)
LEMMA CatCases ==
  ASSUME NEW S, NEW t \in Seq(S), t # <<>>
  PROVE  \E x \in S: \E u \in Seq(S): t = Cat(One(x), u) /\ Len(t) = Len(u) + 1
<1>1. PICK x, u: x = t[1] /\ u = Tail(t)
  OBVIOUS
<1>2. x \in S /\ u \in Seq(S) /\ Len(t) = Len(u) + 1 /\ Len(u) \in Nat
  BY <1>1
<1>3. PICK o: o = <<x>>
  OBVIOUS
<1>4. o \in Seq(S) /\ Len(o) = 1 /\ o[1] = x
  BY <1>2, <1>3
<1>5. \A i \in 1..Len(u): t[1 + i] = u[i]
  BY <1>1
<1>6. /\ Len(t) = Len(o) + Len(u)
      /\ \A i \in 1..Len(o): t[i] = o[i]
      /\ \A i \in 1..Len(u): t[Len(o) + i] = u[i]
  BY <1>1, <1>2, <1>4, <1>5
<1>7. t = o \o u
  BY <1>2, <1>4, <1>6, ConcatIs
<1> QED BY <1>2, <1>3, <1>7 DEF Cat, One

(* No code is the beginning of another.                                     *)
LEMMA CodeDecodes ==
  ASSUME NEW S, Alphabet(S), NEW x \in S, NEW y \in S, NEW a \in Seq(S), NEW b \in Seq(S),
         Cat(Code(x), a) = Cat(Code(y), b)
  PROVE  x = y /\ a = b
<1>1. PICK r: r = Cat(Code(x), a)
  OBVIOUS
<1>2. IF x \in {Backslash, Quote, Newline}
      THEN r[1] = Backslash /\ r[2] = (IF x = Newline THEN "n" ELSE x)
      ELSE r[1] = x
  BY <1>1, CodeBegins
<1>3. IF y \in {Backslash, Quote, Newline}
      THEN r[1] = Backslash /\ r[2] = (IF y = Newline THEN "n" ELSE y)
      ELSE r[1] = y
  BY <1>1, CodeBegins
<1>4. x = y
  BY <1>2, <1>3, SymbolsDiffer
<1>5. Code(x) \in Seq(S)
  BY CodeType
<1>6. a = b
  BY <1>4, <1>5, CatCancel
<1> QED BY <1>4, <1>6

(* The quote that ends a text is not taken for the beginning of a code.     *)
LEMMA QuoteEnds ==
  ASSUME NEW S, Alphabet(S), NEW x \in S, NEW a \in Seq(S), NEW b \in Seq(S)
  PROVE  Cat(Code(x), a) # Cat(One(Quote), b)
<1>1. SUFFICES ASSUME Cat(Code(x), a) = Cat(One(Quote), b) PROVE FALSE
  OBVIOUS
<1>2. PICK r: r = Cat(Code(x), a)
  OBVIOUS
<1>3. r[1] # Quote
  BY <1>2, CodeBegins, SymbolsDiffer
<1>4. r = <<Quote>> \o b /\ Quote \in S
  BY <1>1, <1>2 DEF Cat, One, Alphabet
<1>5. r[1] = Quote
  BY <1>4
<1> QED BY <1>3, <1>5

(* Escaped texts that go on with a quote are equal only if the texts are.   *)
Ended(t, r) == Cat(escape(t), Cat(One(Quote), r))

LEMMA EndedType ==
  ASSUME NEW S, Alphabet(S), NEW t \in Seq(S), NEW r \in Seq(S)
  PROVE  Ended(t, r) \in Seq(S)
<1>1. One(Quote) \in Seq(S)
  BY OneType DEF Alphabet
<1>2. Cat(One(Quote), r) \in Seq(S)
  BY <1>1, CatType
<1> QED BY <1>2, EscapeType, CatType DEF Ended

LEMMA EndedEmpty ==
  ASSUME NEW S, Alphabet(S), NEW r \in Seq(S)
  PROVE  Ended(<<>>, r) = Cat(One(Quote), r)
<1>1. One(Quote) \in Seq(S)
  BY OneType DEF Alphabet
<1>2. Cat(One(Quote), r) \in Seq(S)
  BY <1>1, CatType
<1> QED BY <1>2, EscapeEmpty, CatEmpty DEF Ended

LEMMA EndedCat ==
  ASSUME NEW S, Alphabet(S), NEW x \in S, NEW t \in Seq(S), NEW r \in Seq(S)
  PROVE  Ended(Cat(One(x), t), r) = Cat(Code(x), Ended(t, r))
<1>1. One(Quote) \in Seq(S) /\ One(x) \in Seq(S)
  BY OneType DEF Alphabet
<1>2. PICK q: q = Cat(One(Quote), r)
  OBVIOUS
<1>3. q \in Seq(S)
  BY <1>1, <1>2, CatType
<1>4. escape(Cat(One(x), t)) = Cat(Code(x), escape(t))
  BY <1>1, EscapeCat, EscapeOne
<1>5. Cat(Cat(Code(x), escape(t)), q) = Cat(Code(x), Cat(escape(t), q))
  BY <1>3, CodeType, EscapeType, CatAssoc
<1> QED BY <1>2, <1>4, <1>5 DEF Ended

LEMMA EscapeDecodes ==
  ASSUME NEW S, Alphabet(S), NEW t \in Seq(S), NEW u \in Seq(S),
         NEW r \in Seq(S), NEW q \in Seq(S), Ended(t, r) = Ended(u, q)
  PROVE  t = u /\ r = q
<1> DEFINE T == {n \in Nat: \A v, w \in Seq(S):
                   Len(v) = n /\ Ended(v, r) = Ended(w, q) => v = w /\ r = q}
<1>1. ASSUME NEW n \in Nat, \A m \in Nat: m < n => m \in T PROVE n \in T
  <2> SUFFICES ASSUME NEW v \in Seq(S), NEW w \in Seq(S),
                      Len(v) = n, Ended(v, r) = Ended(w, q)
               PROVE  v = w /\ r = q
    OBVIOUS
  <2>1. One(Quote) \in Seq(S)
    BY OneType DEF Alphabet
  <2>2. CASE v = <<>> /\ w = <<>>
    <3>1. Cat(One(Quote), r) = Cat(One(Quote), q)
      BY <2>2, EndedEmpty
    <3> QED BY <2>1, <2>2, <3>1, CatCancel
  <2>3. CASE v = <<>> /\ w # <<>>
    <3>1. PICK y \in S: \E z \in Seq(S): w = Cat(One(y), z)
      BY <2>3, CatCases
    <3>2. PICK z \in Seq(S): w = Cat(One(y), z)
      BY <3>1
    <3>3. Cat(One(Quote), r) = Cat(Code(y), Ended(z, q))
      BY <2>3, <3>2, EndedEmpty, EndedCat
    <3> QED BY <3>3, EndedType, QuoteEnds
  <2>4. CASE v # <<>>
    <3>1. PICK x \in S: \E z \in Seq(S): v = Cat(One(x), z) /\ Len(v) = Len(z) + 1
      BY <2>4, CatCases
    <3>2. PICK z \in Seq(S): v = Cat(One(x), z) /\ Len(v) = Len(z) + 1
      BY <3>1
    <3>3. Ended(v, r) = Cat(Code(x), Ended(z, r))
      BY <3>2, EndedCat
    <3>4. CASE w = <<>>
      <4>1. Cat(One(Quote), q) = Cat(Code(x), Ended(z, r))
        BY <3>3, <3>4, EndedEmpty
      <4> QED BY <4>1, EndedType, QuoteEnds
    <3>5. CASE w # <<>>
      <4>1. PICK y \in S: \E b \in Seq(S): w = Cat(One(y), b)
        BY <3>5, CatCases
      <4>2. PICK b \in Seq(S): w = Cat(One(y), b)
        BY <4>1
      <4>3. Ended(w, q) = Cat(Code(y), Ended(b, q))
        BY <4>2, EndedCat
      <4>4. Ended(z, r) \in Seq(S) /\ Ended(b, q) \in Seq(S)
        BY EndedType
      <4>5. x = y /\ Ended(z, r) = Ended(b, q)
        <5>1. Cat(Code(x), Ended(z, r)) = Cat(Code(y), Ended(b, q))
          BY <3>3, <4>3
        <5> QED BY <4>4, <5>1, CodeDecodes
      <4>6. Len(z) \in Nat /\ Len(z) < n
        BY <3>2
      <4>7. z = b /\ r = q
        BY <1>1, <4>5, <4>6
      <4> QED BY <3>2, <4>2, <4>5, <4>7
    <3> QED BY <3>4, <3>5
  <2> QED BY <2>2, <2>3, <2>4
<1>2. Nat \subseteq T
  <2> HIDE DEF T
  <2> QED BY <1>1, Induction
<1>3. Len(t) \in T
  BY <1>2
<1> QED BY <1>3

(* The text of one label, and of all the labels in turn.                    *)
Named(name) == <<name, Quote>>

Piece(name, text) == Cat(Cat(Named(name), escape(text)), One(Quote))

Pieces(names, values) == [i \in DOMAIN values |-> Piece(names[i], values[i])]

LEMMA LabelPieces ==
  ASSUME NEW f, NEW values
  PROVE  label(f, values) = FlattenSeq(Pieces(LabelNames[f], values))
BY DEF label, Pieces, Piece, Named, Cat, One

LEMMA NamedType ==
  ASSUME NEW S, Alphabet(S), NEW name \in S
  PROVE  Named(name) \in Seq(S)
BY DEF Named, Alphabet

LEMMA PieceType ==
  ASSUME NEW S, Alphabet(S), NEW name \in S, NEW t \in Seq(S)
  PROVE  Piece(name, t) \in Seq(S)
<1>1. Named(name) \in Seq(S) /\ escape(t) \in Seq(S) /\ One(Quote) \in Seq(S)
  BY NamedType, EscapeType, OneType DEF Alphabet
<1>2. Cat(Named(name), escape(t)) \in Seq(S)
  BY <1>1, CatType
<1> QED BY <1>1, <1>2, CatType DEF Piece

LEMMA PieceEnded ==
  ASSUME NEW S, Alphabet(S), NEW name \in S, NEW t \in Seq(S), NEW r \in Seq(S)
  PROVE  Cat(Piece(name, t), r) = Cat(Named(name), Ended(t, r))
<1>1. PICK a, e, q: a = Named(name) /\ e = escape(t) /\ q = One(Quote)
  OBVIOUS
<1>2. a \in Seq(S) /\ e \in Seq(S) /\ q \in Seq(S)
  BY <1>1, NamedType, EscapeType, OneType DEF Alphabet
<1>3. Cat(a, e) \in Seq(S) /\ Cat(q, r) \in Seq(S)
  BY <1>2, CatType
<1>4. Cat(Cat(Cat(a, e), q), r) = Cat(Cat(a, e), Cat(q, r))
  BY <1>2, <1>3, CatAssoc
<1>5. Cat(Cat(a, e), Cat(q, r)) = Cat(a, Cat(e, Cat(q, r)))
  BY <1>2, <1>3, CatAssoc
<1> QED BY <1>1, <1>4, <1>5 DEF Piece, Ended

LEMMA PiecesType ==
  ASSUME NEW S, Alphabet(S), NEW names \in Seq(S), NEW values \in Seq(Seq(S)),
         Len(names) = Len(values)
  PROVE  /\ Pieces(names, values) \in Seq(Seq(S))
         /\ Len(Pieces(names, values)) = Len(values)
         /\ \A i \in 1..Len(values): Pieces(names, values)[i] = Piece(names[i], values[i])
<1>1. PICK n \in Nat: n = Len(values) /\ DOMAIN values = 1..n
  BY LenProperties
<1>2. \A i \in 1..n: names[i] \in S /\ values[i] \in Seq(S)
  BY <1>1
<1>3. \A i \in 1..n: Piece(names[i], values[i]) \in Seq(S)
  BY <1>2, PieceType
<1>4. PICK p: p = Pieces(names, values)
  OBVIOUS
<1>5. p \in [1..n -> Seq(S)] /\ \A i \in 1..n: p[i] = Piece(names[i], values[i])
  BY <1>1, <1>3, <1>4 DEF Pieces
<1>6. p \in Seq(Seq(S)) /\ Len(p) = n
  BY <1>5, FunctionIsSeq
<1> QED BY <1>1, <1>4, <1>5, <1>6

LEMMA CatPositions ==
  ASSUME NEW E, NEW x \in E, NEW t \in Seq(E)
  PROVE  /\ Cat(One(x), t) \in Seq(E)
         /\ Len(Cat(One(x), t)) = Len(t) + 1 /\ Cat(One(x), t)[1] = x
         /\ \A i \in 1..Len(t): Cat(One(x), t)[1 + i] = t[i]
BY DEF Cat, One

LEMMA PiecesCat ==
  ASSUME NEW S, Alphabet(S), NEW k \in S, NEW names \in Seq(S),
         NEW x \in Seq(S), NEW values \in Seq(Seq(S)), Len(names) = Len(values)
  PROVE  Pieces(Cat(One(k), names), Cat(One(x), values))
           = Cat(One(Piece(k, x)), Pieces(names, values))
<1>01. PICK a: a = Cat(One(k), names)
  OBVIOUS
<1>02. PICK b: b = Cat(One(x), values)
  OBVIOUS
<1>1. PICK p, q, o: /\ p = Pieces(a, b) /\ q = Pieces(names, values)
                    /\ o = One(Piece(k, x))
  OBVIOUS
<1>2. /\ a \in Seq(S) /\ Len(a) = Len(names) + 1 /\ a[1] = k
      /\ \A i \in 1..Len(names): a[1 + i] = names[i]
  <2>1. /\ Cat(One(k), names) \in Seq(S)
        /\ Len(Cat(One(k), names)) = Len(names) + 1 /\ Cat(One(k), names)[1] = k
        /\ \A i \in 1..Len(names): Cat(One(k), names)[1 + i] = names[i]
    <3>1. k \in S /\ names \in Seq(S)
      OBVIOUS
    <3> QED BY ONLY <3>1, CatPositions
  <2> QED BY <1>01, <2>1
<1>3. /\ b \in Seq(Seq(S)) /\ Len(b) = Len(values) + 1 /\ b[1] = x
      /\ \A i \in 1..Len(values): b[1 + i] = values[i]
  <2>1. /\ Cat(One(x), values) \in Seq(Seq(S))
        /\ Len(Cat(One(x), values)) = Len(values) + 1 /\ Cat(One(x), values)[1] = x
        /\ \A i \in 1..Len(values): Cat(One(x), values)[1 + i] = values[i]
    BY CatPositions
  <2> QED BY <1>02, <2>1
<1>4. Len(values) \in Nat /\ Len(a) = Len(b)
  BY <1>2, <1>3
<1>5. /\ p \in Seq(Seq(S)) /\ Len(p) = Len(b)
      /\ \A i \in 1..Len(b): p[i] = Piece(a[i], b[i])
  BY <1>1, <1>2, <1>3, <1>4, PiecesType
<1>6. /\ q \in Seq(Seq(S)) /\ Len(q) = Len(values)
      /\ \A i \in 1..Len(values): q[i] = Piece(names[i], values[i])
  BY <1>1, PiecesType
<1>7. o \in Seq(Seq(S)) /\ Len(o) = 1 /\ o[1] = Piece(k, x)
  BY <1>1, PieceType DEF One
<1>8. \A i \in 1..Len(o): p[i] = o[i]
  BY <1>2, <1>3, <1>4, <1>5, <1>7
<1>9. \A i \in 1..Len(q): p[Len(o) + i] = q[i]
  <2> SUFFICES ASSUME NEW i \in 1..Len(q) PROVE p[Len(o) + i] = q[i]
    OBVIOUS
  <2>1. i \in 1..Len(values) /\ i \in 1..Len(names) /\ 1 + i \in 1..Len(b)
    BY <1>3, <1>4, <1>6
  <2>2. p[1 + i] = Piece(a[1 + i], b[1 + i])
    BY <1>5, <2>1
  <2>3. a[1 + i] = names[i] /\ b[1 + i] = values[i]
    BY <1>2, <1>3, <2>1
  <2> QED BY <1>6, <1>7, <2>1, <2>2, <2>3
<1>10. Len(p) = Len(o) + Len(q)
  BY <1>3, <1>4, <1>5, <1>6, <1>7
<1>11. p = o \o q
  BY <1>5, <1>6, <1>7, <1>8, <1>9, <1>10, ConcatIs
<1> QED BY <1>01, <1>02, <1>1, <1>11 DEF Cat

LEMMA FlattenCats ==
  ASSUME NEW S, NEW s \in Seq(Seq(S)), NEW t \in Seq(Seq(S))
  PROVE  FlattenSeq(Cat(s, t)) = Cat(FlattenSeq(s), FlattenSeq(t))
BY FlattenConcat, SMTT(60) DEF Cat

LEMMA FlattenCat ==
  ASSUME NEW S, NEW x \in Seq(S), NEW t \in Seq(Seq(S))
  PROVE  FlattenSeq(Cat(One(x), t)) = Cat(x, FlattenSeq(t))
<1>1. PICK o: o = One(x)
  OBVIOUS
<1>2. o \in Seq(Seq(S)) /\ FlattenSeq(o) = x
  BY <1>1, FlattenOne, OneType DEF One
<1> QED BY <1>1, <1>2, FlattenCats

(* The first label can be told from the rest.                               *)
SameText(S, k, u, x, y, c, d) ==
  /\ Alphabet(S) /\ k \in S /\ u \in Seq(S) /\ x \in Seq(S) /\ y \in Seq(S)
  /\ c \in Seq(Seq(S)) /\ d \in Seq(Seq(S)) /\ Len(u) = Len(c) /\ Len(u) = Len(d)
  /\ FlattenSeq(Pieces(Cat(One(k), u), Cat(One(x), c)))
       = FlattenSeq(Pieces(Cat(One(k), u), Cat(One(y), d)))

LEMMA PiecesStep ==
  ASSUME NEW S, NEW k, NEW u, NEW x, NEW y, NEW c, NEW d, SameText(S, k, u, x, y, c, d)
  PROVE  x = y /\ FlattenSeq(Pieces(u, c)) = FlattenSeq(Pieces(u, d))
<1>0. /\ Alphabet(S) /\ k \in S /\ u \in Seq(S) /\ x \in Seq(S) /\ y \in Seq(S)
      /\ c \in Seq(Seq(S)) /\ d \in Seq(Seq(S)) /\ Len(u) = Len(c) /\ Len(u) = Len(d)
      /\ FlattenSeq(Pieces(Cat(One(k), u), Cat(One(x), c)))
           = FlattenSeq(Pieces(Cat(One(k), u), Cat(One(y), d)))
  BY DEF SameText
<1>1. PICK p, q: p = Pieces(u, c) /\ q = Pieces(u, d)
  OBVIOUS
<1>2. p \in Seq(Seq(S)) /\ q \in Seq(Seq(S))
  BY <1>0, <1>1, PiecesType
<1>3. FlattenSeq(p) \in Seq(S) /\ FlattenSeq(q) \in Seq(S)
  BY <1>0, <1>2, FlattenType
<1>4. /\ Pieces(Cat(One(k), u), Cat(One(x), c)) = Cat(One(Piece(k, x)), p)
      /\ Pieces(Cat(One(k), u), Cat(One(y), d)) = Cat(One(Piece(k, y)), q)
  <2>1. Pieces(Cat(One(k), u), Cat(One(x), c)) = Cat(One(Piece(k, x)), Pieces(u, c))
    <3>1. /\ Alphabet(S) /\ k \in S /\ u \in Seq(S) /\ x \in Seq(S) /\ c \in Seq(Seq(S))
          /\ Len(u) = Len(c)
      BY <1>0
    <3> QED BY <3>1, PiecesCat
  <2>2. Pieces(Cat(One(k), u), Cat(One(y), d)) = Cat(One(Piece(k, y)), Pieces(u, d))
    <3>1. /\ Alphabet(S) /\ k \in S /\ u \in Seq(S) /\ y \in Seq(S) /\ d \in Seq(Seq(S))
          /\ Len(u) = Len(d)
      BY <1>0
    <3> QED BY <3>1, PiecesCat
  <2> QED BY <1>1, <2>1, <2>2
<1>5. Piece(k, x) \in Seq(S) /\ Piece(k, y) \in Seq(S)
  BY <1>0, PieceType
<1>6. /\ FlattenSeq(Cat(One(Piece(k, x)), p)) = Cat(Piece(k, x), FlattenSeq(p))
      /\ FlattenSeq(Cat(One(Piece(k, y)), q)) = Cat(Piece(k, y), FlattenSeq(q))
  BY <1>0, <1>2, <1>5, FlattenCat
<1>7. /\ Cat(Piece(k, x), FlattenSeq(p)) = Cat(Named(k), Ended(x, FlattenSeq(p)))
      /\ Cat(Piece(k, y), FlattenSeq(q)) = Cat(Named(k), Ended(y, FlattenSeq(q)))
  BY <1>0, <1>3, PieceEnded
<1>8. Cat(Named(k), Ended(x, FlattenSeq(p))) = Cat(Named(k), Ended(y, FlattenSeq(q)))
  BY <1>0, <1>4, <1>6, <1>7
<1>9. /\ Named(k) \in Seq(S)
      /\ Ended(x, FlattenSeq(p)) \in Seq(S) /\ Ended(y, FlattenSeq(q)) \in Seq(S)
  BY <1>0, <1>3, NamedType, EndedType
<1>10. Ended(x, FlattenSeq(p)) = Ended(y, FlattenSeq(q))
  BY <1>0, <1>8, <1>9, CatCancel
<1> QED BY <1>0, <1>1, <1>3, <1>10, EscapeDecodes

LEMMA PiecesCases ==
  ASSUME NEW S, NEW m \in Seq(S), NEW n \in Nat, Len(m) = n + 1
  PROVE  \E k \in S: \E u \in Seq(S): m = Cat(One(k), u) /\ Len(u) = n
<1>1. m # <<>>
  OBVIOUS
<1>2. PICK k \in S: \E u \in Seq(S): m = Cat(One(k), u) /\ Len(m) = Len(u) + 1
  BY <1>1, CatCases
<1>3. PICK u \in Seq(S): m = Cat(One(k), u) /\ Len(m) = Len(u) + 1
  BY <1>2
<1>4. Len(u) = n
  BY <1>3
<1> QED BY <1>3, <1>4

(* The text between the braces determines the label values.                 *)
LEMMA PiecesDecode ==
  ASSUME NEW S, Alphabet(S), NEW names \in Seq(S),
         NEW v \in Seq(Seq(S)), NEW w \in Seq(Seq(S)),
         Len(names) = Len(v), Len(names) = Len(w),
         FlattenSeq(Pieces(names, v)) = FlattenSeq(Pieces(names, w))
  PROVE  v = w
<1> DEFINE T == {n \in Nat: \A m \in Seq(S): \A a, b \in Seq(Seq(S)):
                   /\ Len(m) = n /\ Len(a) = n /\ Len(b) = n
                   /\ FlattenSeq(Pieces(m, a)) = FlattenSeq(Pieces(m, b))
                   => a = b}
<1>1. 0 \in T
  <2> SUFFICES ASSUME NEW m \in Seq(S), NEW a \in Seq(Seq(S)), NEW b \in Seq(Seq(S)),
                      Len(m) = 0, Len(a) = 0, Len(b) = 0
               PROVE  a = b
    OBVIOUS
  <2> QED OBVIOUS
<1>2. ASSUME NEW n \in Nat, n \in T PROVE n + 1 \in T
  <2> SUFFICES ASSUME NEW m \in Seq(S), NEW a \in Seq(Seq(S)), NEW b \in Seq(Seq(S)),
                      Len(m) = n + 1, Len(a) = n + 1, Len(b) = n + 1,
                      FlattenSeq(Pieces(m, a)) = FlattenSeq(Pieces(m, b))
               PROVE  a = b
    OBVIOUS
  <2>1. \A c, d \in Seq(Seq(S)): \A u \in Seq(S):
          /\ Len(u) = n /\ Len(c) = n /\ Len(d) = n
          /\ FlattenSeq(Pieces(u, c)) = FlattenSeq(Pieces(u, d))
          => c = d
    BY <1>2
  <2> HIDE DEF T
  <2>2. PICK k \in S: \E u \in Seq(S): m = Cat(One(k), u) /\ Len(u) = n
    BY ZenonT(30), PiecesCases
  <2>3. PICK u \in Seq(S): m = Cat(One(k), u) /\ Len(u) = n
    BY <2>2
  <2>4. PICK x \in Seq(S): \E c \in Seq(Seq(S)): a = Cat(One(x), c) /\ Len(c) = n
    BY PiecesCases
  <2>5. PICK c \in Seq(Seq(S)): a = Cat(One(x), c) /\ Len(c) = n
    BY <2>4
  <2>6. PICK y \in Seq(S): \E d \in Seq(Seq(S)): b = Cat(One(y), d) /\ Len(d) = n
    BY PiecesCases
  <2>7. PICK d \in Seq(Seq(S)): b = Cat(One(y), d) /\ Len(d) = n
    BY <2>6
  <2>8. Len(u) = Len(c) /\ Len(u) = Len(d)
    BY <2>3, <2>5, <2>7
  <2>9. FlattenSeq(Pieces(Cat(One(k), u), Cat(One(x), c)))
           = FlattenSeq(Pieces(Cat(One(k), u), Cat(One(y), d)))
    BY <2>3, <2>5, <2>7
  <2>10. x = y /\ FlattenSeq(Pieces(u, c)) = FlattenSeq(Pieces(u, d))
    <3>1. SameText(S, k, u, x, y, c, d)
      BY <2>8, <2>9 DEF SameText
    <3> QED BY <3>1, PiecesStep
  <2>11. c = d
    BY <2>1, <2>3, <2>5, <2>7, <2>10
  <2> QED BY <2>5, <2>7, <2>10, <2>11
<1>3. Nat \subseteq T
  <2> HIDE DEF T
  <2> QED BY <1>1, <1>2, StepInduction
<1>4. Len(names) \in T
  BY <1>3
<1> QED BY <1>4

LEMMA TupleType ==
  \A W: \A a, b, c \in W: <<a>> \in Seq(W) /\ <<a, b>> \in Seq(W) /\ <<a, b, c>> \in Seq(W)
OBVIOUS

LEMMA NamesType ==
  ASSUME NEW f \in Families
  PROVE  LabelNames[f] \in Seq(Symbols)
<1>1. PICK names: names = LabelNames[f]
  OBVIOUS
<1>0. PICK W: W = {"backend=", ",model=", ",status=", "key=", ",kind="}
  OBVIOUS
<1>01. "backend=" \in W /\ ",model=" \in W /\ ",status=" \in W /\ "key=" \in W /\ ",kind=" \in W
  BY <1>0
<1>2. names \in Seq(W)
  <2>1. f \in {"requests", "tokens", "upstream_errors", "rate_limit_rejections",
               "budget_rejections"}
    BY DEF Families, LabelNames
  <2>2. CASE f = "requests"
    <3>1. names = <<"backend=", ",model=", ",status=">>
      BY <1>1, <2>2 DEF LabelNames
    <3> QED BY <1>01, <3>1, TupleType
  <2>3. CASE f = "tokens"
    <3>1. names = <<"key=", ",kind=">>
      BY <1>1, <2>3 DEF LabelNames
    <3> QED BY <1>01, <3>1, TupleType
  <2>4. CASE f = "upstream_errors"
    <3>1. names = <<"backend=">>
      BY <1>1, <2>4 DEF LabelNames
    <3> QED BY <1>01, <3>1, TupleType
  <2>5. CASE f = "rate_limit_rejections"
    <3>1. names = <<"key=">>
      BY <1>1, <2>5 DEF LabelNames
    <3> QED BY <1>01, <3>1, TupleType
  <2>6. CASE f = "budget_rejections"
    <3>1. names = <<"key=">>
      BY <1>1, <2>6 DEF LabelNames
    <3> QED BY <1>01, <3>1, TupleType
  <2> QED BY <2>1, <2>2, <2>3, <2>4, <2>5, <2>6
<1>3. names \in Seq(Range(names))
  BY <1>2, SeqOfRange
<1>4. Range(names) \subseteq Symbols
  BY <1>1 DEF Symbols
<1> QED BY <1>1, <1>3, <1>4, SeqMonotonic

(* Label values told apart by their label text, within a family.            *)
LabelsDistinct ==
  \A a, b \in Additions:
    a.family = b.family /\ label(a.family, a.values) = label(b.family, b.values)
      => a.values = b.values

(* escape() makes label() one-to-one: whatever quotes, commas, backslashes  *)
(* and line breaks the label values contain, different values of a family   *)
(* have different label texts.                                              *)
THEOREM LabelsAreDistinct == LabelsDistinct
<1> SUFFICES ASSUME NEW a \in Additions, NEW b \in Additions, a.family = b.family,
                    label(a.family, a.values) = label(b.family, b.values)
             PROVE  a.values = b.values
  BY DEF LabelsDistinct
<1>1. PICK names, v, w: names = LabelNames[a.family] /\ v = a.values /\ w = b.values
  OBVIOUS
<1>2. names \in Seq(Symbols) /\ Alphabet(Symbols)
  BY <1>1, NamesType, MetricsAssumption DEF Alphabet, Symbols
<1>3. v \in Seq(Texts) /\ w \in Seq(Texts) /\ Texts \subseteq Seq(Symbols)
  BY <1>1, MetricsAssumption
<1>4. v \in Seq(Seq(Symbols)) /\ w \in Seq(Seq(Symbols))
  BY <1>3, SeqMonotonic
<1>5. Len(names) = Len(v) /\ Len(names) = Len(w)
  BY <1>1, MetricsAssumption
<1>6. FlattenSeq(Pieces(names, v)) = FlattenSeq(Pieces(names, w))
  BY <1>1, LabelPieces
<1> QED BY <1>1, <1>2, <1>4, <1>5, <1>6, PiecesDecode

-----------------------------------------------------------------------------
(* Each series holds exactly what was recorded for its label values: a      *)
(* counter is shared by no two sets of values, since label() tells them     *)
(* apart, and loses nothing.                                                *)
THEOREM SeriesAreExact == Spec => []SeriesExact
<1>1. IInv => SeriesExact
  <2> SUFFICES ASSUME IInv, NEW series \in DOMAIN recorded
               PROVE  LET f == series[1]
                          l == label(f, series[2])
                      IN  l \in DOMAIN inner[f] /\ cells[inner[f][l]] = recorded[series]
    BY DEF SeriesExact
  <2>1. PICK f, l: f = series[1] /\ l = label(f, series[2])
    OBVIOUS
  <2>2. PICK a \in Additions: series = SeriesOf(a)
    BY DEF IInv, RecordedOK
  <2>3. series = <<a.family, a.values>> /\ f = a.family /\ l = label(f, a.values)
    BY <2>1, <2>2 DEF SeriesOf
  <2>4. f \in Families /\ l \in DOMAIN inner[f]
    BY <2>1, <2>3, MetricsAssumption DEF IInv, RecordedOK
  <2>5. Under(f, l) = {series}
    <3>1. series \in Under(f, l)
      BY <2>1 DEF Under
    <3>2. ASSUME NEW other \in Under(f, l)
          PROVE  other = series
      <4>1. other \in DOMAIN recorded /\ other[1] = f /\ label(f, other[2]) = l
        BY <3>2 DEF Under
      <4>2. PICK b \in Additions: other = SeriesOf(b)
        BY <4>1 DEF IInv, RecordedOK
      <4>3. other = <<b.family, b.values>> /\ b.family = f /\ label(f, b.values) = l
        BY <4>1, <4>2 DEF SeriesOf
      <4>4. a.values = b.values
        BY <2>3, <4>3, LabelsAreDistinct DEF LabelsDistinct
      <4> QED BY <2>3, <4>3, <4>4
    <3> QED BY <3>1, <3>2
  <2>6. recorded[series] \in Nat
    BY DEF IInv, RecordedOK
  <2>7. SumFunctionOnSet(recorded, {series}) = recorded[series]
    <3>1. PICK g: g = recorded
      OBVIOUS
    <3>2. SumFunctionOnSet(g, {} \cup {series}) = SumFunctionOnSet(g, {}) + g[series]
      BY <2>6, <3>1, SumAdd, FS_EmptySet
    <3>3. {} \cup {series} = {series}
      OBVIOUS
    <3>4. SumFunctionOnSet(g, {}) = 0
      BY SumEmpty
    <3> QED BY <2>6, <3>1, <3>2, <3>3, <3>4
  <2>8. cells[inner[f][l]] = SumFunctionOnSet(recorded, Under(f, l))
    BY <2>4 DEF IInv, LabelExact
  <2> QED BY <2>1, <2>4, <2>5, <2>7, <2>8
<1> QED BY <1>1, AlwaysIInv, PTL
=============================================================================
