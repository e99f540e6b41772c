------------------------------ MODULE Metrics ------------------------------
(***************************************************************************)
(* The metrics registry (metrics.rs): families of counters, each found by  *)
(* its label text, created on first use under a read and then a write      *)
(* lock, added to by any thread, and read by GET /metrics while they move. *)
(*                                                                         *)
(* A text is a sequence of symbols: the three that escape() treats, and    *)
(* words.                                                                  *)
(***************************************************************************)
EXTENDS Naturals, SequencesExt

CONSTANTS Threads,     \* threads that record
          Calls,       \* what they record: additions, one after the other
          MaxCalls,    \* bound: recordings
          MaxScrapes   \* bound: renderings

VARIABLES
  inner,     \* per family: label text -> its counter, an index into cells
  cells,     \* the AtomicU64s ever created
  todo,      \* the additions a thread has yet to make
  pc,        \* where in the first of them it is
  ref,       \* the counter it was given
  calls,     \* recordings so far (bounded)
  scan,      \* render: the family it is at, the lock it holds, labels left
  out,       \* what it has read: per family, label text -> value
  scrapes,   \* renderings begun (bounded)
  floor,     \* the counters when it began (history)
  recorded   \* tokens or events added, by label values (history)

recordVars == <<todo, pc, ref, calls>>
scrapeVars == <<scan, out, scrapes, floor>>
vars == <<inner, cells, recordVars, scrapeVars, recorded>>

-----------------------------------------------------------------------------
(* The families, in the order in which render() writes them, with the text  *)
(* before each label value.                                                 *)
LabelNames ==
  [requests              |-> <<"backend=", ",model=", ",status=">>,
   tokens                |-> <<"key=", ",kind=">>,
   upstream_errors       |-> <<"backend=">>,
   rate_limit_rejections |-> <<"key=">>,
   budget_rejections     |-> <<"key=">>]

Families == DOMAIN LabelNames

RenderOrder == <<"requests", "tokens", "upstream_errors",
                 "rate_limit_rejections", "budget_rejections">>

Backslash == "\\"
Quote     == "\""
Newline   == "newline"

replace(text, symbol, by) ==
  FlattenSeq([i \in DOMAIN text |-> IF text[i] = symbol THEN by ELSE <<text[i]>>])

(* Mutant of escape: backslashes last, those of the other escapes included. *)
escapeLate(text) ==
  replace(replace(replace(text, Newline, <<Backslash, "n">>),
                  Quote, <<Backslash, Quote>>),
          Backslash, <<Backslash, Backslash>>)

(* escape: backslashes first.                                               *)
escape(text) ==
  replace(replace(replace(text, Backslash, <<Backslash, Backslash>>),
                  Quote, <<Backslash, Quote>>),
          Newline, <<Backslash, "n">>)

(* The text between the braces, under which a counter is stored.            *)
label(family, values) ==
  FlattenSeq([i \in DOMAIN values |->
    <<LabelNames[family][i], Quote>> \o escape(values[i]) \o <<Quote>>])

Addition(family, values, n) == [family |-> family, values |-> values, n |-> n]

record_request(backend, model, status_class) ==
  <<Addition("requests", <<backend, model, status_class>>, 1)>>

record_tokens(key, usage) ==
  << Addition("tokens", <<key, <<"prompt">>>>, usage.prompt_tokens),
     Addition("tokens", <<key, <<"completion">>>>, usage.completion_tokens),
     Addition("tokens", <<key, <<"total">>>>, usage.total_tokens) >>

record_upstream_error(backend) == <<Addition("upstream_errors", <<backend>>, 1)>>

record_rate_limit_rejection(key) ==
  <<Addition("rate_limit_rejections", <<key>>, 1)>>

record_budget_rejection(key) == <<Addition("budget_rejections", <<key>>, 1)>>

Additions == UNION {{call[i]: i \in DOMAIN call}: call \in Calls}

(* The label values that occur, and what texts are made of.                 *)
Texts == UNION {Range(a.values): a \in Additions}

Symbols == {Backslash, Quote, Newline, "n"}
             \cup UNION {Range(LabelNames[f]): f \in Families}
             \cup UNION {Range(text): text \in Texts}

ASSUME MetricsAssumption ==
  /\ MaxCalls \in Nat /\ MaxScrapes \in Nat
  /\ \A call \in Calls: call \in Seq(Additions) /\ call # <<>>
  /\ \A a \in Additions: a.family \in Families /\ a.n \in Nat
  /\ \A a \in Additions: /\ a.values \in Seq(Texts)
                          /\ Len(a.values) = Len(LabelNames[a.family])
  /\ Texts \subseteq Seq(Symbols)

-----------------------------------------------------------------------------
NotScanning == [family |-> 0, held |-> FALSE, left |-> {}]

TypeOK ==
  /\ cells \in Seq(Nat)
  /\ DOMAIN inner = Families
  /\ \A f \in Families: \A l \in DOMAIN inner[f]: inner[f][l] \in 1..Len(cells)
  /\ pc \in [Threads -> {"idle", "lookup", "insert", "add"}]
  /\ \A t \in Threads: pc[t] = "add" => ref[t] \in 1..Len(cells)
  /\ \A t \in Threads: pc[t] # "idle" => todo[t] # <<>>
  /\ calls \in 0..MaxCalls /\ scrapes \in 0..MaxScrapes
  /\ scan.family \in 0..Len(RenderOrder) /\ scan.held \in BOOLEAN
  /\ DOMAIN out = Families
  /\ \A f \in Families: \A l \in DOMAIN out[f]: out[f][l] \in Nat

Init ==
  /\ inner = [f \in Families |-> <<>>] /\ cells = <<>>
  /\ todo = [t \in Threads |-> <<>>] /\ pc = [t \in Threads |-> "idle"]
  /\ ref = [t \in Threads |-> 0] /\ calls = 0
  /\ scan = NotScanning /\ scrapes = 0
  /\ out = [f \in Families |-> <<>>] /\ floor = [f \in Families |-> <<>>]
  /\ recorded = <<>>

GoTo(t, where) == pc' = [pc EXCEPT ![t] = where]

(* The map f with v under x.                                                *)
With(f, x, v) == [y \in DOMAIN f \cup {x} |-> IF y = x THEN v ELSE f[y]]

(* The family and the label of the addition a thread is at.                 *)
Family(t) == Head(todo[t]).family
Label(t)  == label(Family(t), Head(todo[t]).values)

(* One of the record_ functions is called.                                  *)
Record(t, call) ==
  /\ pc[t] = "idle" /\ calls < MaxCalls
  /\ calls' = calls + 1
  /\ todo' = [todo EXCEPT ![t] = call]
  /\ GoTo(t, "lookup")
  /\ UNCHANGED <<inner, cells, ref, scrapeVars, recorded>>

(* get_or_create, under the read lock ...                                   *)
Lookup(t) ==
  /\ pc[t] = "lookup"
  /\ IF Label(t) \in DOMAIN inner[Family(t)]
     THEN /\ ref' = [ref EXCEPT ![t] = inner[Family(t)][Label(t)]]
          /\ GoTo(t, "add")
     ELSE GoTo(t, "insert") /\ UNCHANGED ref
  /\ UNCHANGED <<inner, cells, todo, calls, scrapeVars, recorded>>

(* render() holds the read lock of a family while it loads its counters.    *)
ReadLocked(f) == scan.held /\ RenderOrder[scan.family] = f

(* Mutant of Insert: the new counter is given the index of the last one.    *)
InsertShifted(t) ==
  /\ pc[t] = "insert" /\ ~ReadLocked(Family(t))
  /\ cells' = Append(cells, 0)
  /\ inner' = [inner EXCEPT ![Family(t)] = With(@, Label(t), Len(cells))]
  /\ ref' = [ref EXCEPT ![t] = inner'[Family(t)][Label(t)]]
  /\ GoTo(t, "add")
  /\ UNCHANGED <<todo, calls, scrapeVars, recorded>>

(* ... and under the write lock, where another thread may have been before. *)
Insert(t) ==
  /\ pc[t] = "insert" /\ ~ReadLocked(Family(t))
  /\ IF Label(t) \in DOMAIN inner[Family(t)]
     THEN UNCHANGED <<inner, cells>>
     ELSE /\ cells' = Append(cells, 0)
          /\ inner' = [inner EXCEPT ![Family(t)] = With(@, Label(t), Len(cells'))]
  /\ ref' = [ref EXCEPT ![t] = inner'[Family(t)][Label(t)]]
  /\ GoTo(t, "add")
  /\ UNCHANGED <<todo, calls, scrapeVars, recorded>>

Recorded(series) == IF series \in DOMAIN recorded THEN recorded[series] ELSE 0

(* inc and add: a fetch_add on the counter, whoever holds the lock.         *)
FetchAdd(t) ==
  LET done == Head(todo[t])
      series == <<done.family, done.values>>
  IN  /\ pc[t] = "add"
      /\ cells' = [cells EXCEPT ![ref[t]] = @ + done.n]
      /\ recorded' = With(recorded, series, Recorded(series) + done.n)
      /\ todo' = [todo EXCEPT ![t] = Tail(@)]
      /\ ref' = [ref EXCEPT ![t] = 0]
      /\ GoTo(t, IF todo'[t] = <<>> THEN "idle" ELSE "lookup")
      /\ UNCHANGED <<inner, calls, scrapeVars>>

-----------------------------------------------------------------------------
(* GET /metrics calls render(), which takes a snapshot of each family in    *)
(* turn: lock, load the counters in whatever order the map has, unlock.     *)
RenderBegin ==
  /\ scan.family = 0 /\ scrapes < MaxScrapes
  /\ scrapes' = scrapes + 1
  /\ scan' = [scan EXCEPT !.family = 1]
  /\ out' = [f \in Families |-> <<>>]
  /\ floor' = [f \in Families |-> [l \in DOMAIN inner[f] |-> cells[inner[f][l]]]]
  /\ UNCHANGED <<inner, cells, recordVars, recorded>>

SnapshotBegin ==
  /\ scan.family # 0 /\ ~scan.held
  /\ scan' = [scan EXCEPT !.held = TRUE,
                          !.left = DOMAIN inner[RenderOrder[scan.family]]]
  /\ UNCHANGED <<inner, cells, recordVars, out, scrapes, floor, recorded>>

SnapshotLoad(l) ==
  LET f == RenderOrder[scan.family]
  IN  /\ scan.held /\ l \in scan.left
      /\ scan' = [scan EXCEPT !.left = @ \ {l}]
      /\ out' = [out EXCEPT ![f] = With(@, l, cells[inner[f][l]])]
      /\ UNCHANGED <<inner, cells, recordVars, scrapes, floor, recorded>>

(* Mutant of SnapshotEnd: the last counter is not waited for.               *)
SnapshotEndEarly ==
  /\ scan.held /\ Cardinality(scan.left) <= 1
  /\ scan' = IF scan.family = Len(RenderOrder)
             THEN NotScanning
             ELSE [family |-> scan.family + 1, held |-> FALSE, left |-> {}]
  /\ UNCHANGED <<inner, cells, recordVars, out, scrapes, floor, recorded>>

(* The family is written out, if it has a counter, and the next one begun.  *)
SnapshotEnd ==
  /\ scan.held /\ scan.left = {}
  /\ scan' = IF scan.family = Len(RenderOrder)
             THEN NotScanning
             ELSE [family |-> scan.family + 1, held |-> FALSE, left |-> {}]
  /\ UNCHANGED <<inner, cells, recordVars, out, scrapes, floor, recorded>>

Next ==
  \/ \E t \in Threads:
       \/ \E call \in Calls: Record(t, call)
       \/ Lookup(t) \/ Insert(t) \/ FetchAdd(t)
  \/ RenderBegin \/ SnapshotBegin \/ SnapshotEnd
  \/ \E l \in scan.left: SnapshotLoad(l)

Spec == Init /\ [][Next]_vars

-----------------------------------------------------------------------------
(* Every series holds exactly what was recorded for its label values: no    *)
(* addition goes to a counter that is not in the table, whoever meets at a  *)
(* label's first use, and no two sets of label values share a counter,      *)
(* whatever they are made of.                                               *)
SeriesExact ==
  \A series \in DOMAIN recorded:
    LET f == series[1]
        l == label(f, series[2])
    IN  l \in DOMAIN inner[f] /\ cells[inner[f][l]] = recorded[series]

(* A scrape that is complete shows every counter that existed when it       *)
(* began, at a value between the one it had then and the one it has now.    *)
ScrapeInInterval ==
  scan.family = 0 =>
    \A f \in Families:
      /\ DOMAIN floor[f] \subseteq DOMAIN out[f]
      /\ \A l \in DOMAIN out[f]: out[f][l] <= cells[inner[f][l]]
      /\ \A l \in DOMAIN floor[f]: floor[f][l] <= out[f][l]
=============================================================================
