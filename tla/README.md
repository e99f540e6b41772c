# patchbay in TLA+

patchbay is an LLM gateway: it accepts OpenAI-style chat completions from
clients that hold virtual keys, routes each request to a backend that may see
it, relays the backend's server-sent events byte for byte, and accounts for the
tokens used. This directory holds TLA+ models of it, TLC configurations that
check them, and TLAPS proofs about them. Paths below are relative to the
repository root; `file.rs:n` means `src/file.rs`, line n.

## 1. Inventory

| Component | State | Operations | Talks to |
|---|---|---|---|
| SSE relay (`upstream.rs`) | upstream body, scanner, stall timer, oneshot sender, byte count, `finished` | `new`, `poll_next`, `report`, `Drop` | polled by hyper; sends one `RelaySummary` to the accounting task |
| Usage scanner (`upstream.rs`) | `buf`, `last_usage`, `saw_done`, `overflowed` | `feed`, `find_event_boundary`, `process_event` | fed by the relay |
| Upstream client (`upstream.rs`) | a reqwest client | `open_sse`, `is_retryable` | called by the handler |
| Router (`router.rs`) | backend table, policy (EWMA has per-backend latencies) | `classify`, `gather`, `select`, `route`, `observe` | called by the handler; EWMA is fed by whoever owns it |
| Handler (`server.rs`) | one future per request, one accounting task per stream | `chat_completions`, `stream_response`, `buffered_response` | everything else |
| Authentication (`auth.rs`) | key table, fixed at start | `from_request_parts` | extractor of the handler |
| Budget ledger (`budget.rs`) | atomic counters per key, `period_start`, snapshot file | `check`, `record`, `flush`, `new` | `record` by the handler and the task |
| Rate limits (`limits.rs`) | a governor per key, a TPM window per key | `check_rpm`, `record_tpm` | the handler and the task |
| Metrics (`metrics.rs`) | per family, a locked map from label text to an atomic counter | `record_*`, `render` | the handler and the task; `/metrics` |
| Configuration (`config.rs`) | the tables as far as resolved | `load`, `from_toml_str` | called by `main`; gives the router, the key store and the listener their tables |
| Introspection (`server.rs`) | none | `/v1/models`, `/healthz`, `/metrics` | read only |
| Process (`main.rs`) | where start-up is | load, build, bind, serve, shut down | everything |

What is hard:

* **The end of a stream.** The upstream ends, fails or falls silent; the client
  leaves; any two of these race. The response must be accounted for exactly
  once, with what the client really got.
* **Time.** The stall timer runs while a slow client does not poll.
* **Cut points.** Event boundaries and CR LF pairs fall anywhere in a chunk.
* **Privacy.** A policy's answer is an index into a filtered list; nothing in
  the retry loop may widen it.
* **Retries.** Only before the first byte, only for retryable failures, and
  boundedly often.
* **Shared counters.** Three ledgers per response, updated one after the other
  by tasks that interleave; a budget check that is not atomic with the
  recording; a flush that copies counters while they move; a window that is
  reset by two separate stores while others add to it.
* **Names.** A counter is found by a text that contains names clients choose; a
  key is found by a secret that two entries of a file might share.
* **First use.** Counters are created on demand, by two lock sections with a
  gap between them, while a scrape walks the same maps.
* **Feedback.** The EWMA policy routes by latencies of requests it routed
  earlier, and these end in any order or not at all.
* **Crashes** between the steps of a flush, and restarts in the same or in
  another accounting period.

`PROJECT.json` lists every hazard at its line, with the properties that cover
it or the reason why none does.

## 2. Modules

| Module | Models | Used by |
|---|---|---|
| `RelayContract` | abstract: a relay observes usages, then ends once and says so | refined by `SseRelay`, assumed by `Gateway` |
| `Usage` | the usage objects, as constants | `SseRelay`, `UsageScanner` |
| `SseRelay` | the relay with its upstream, clock and client | `MCSseRelay`, `SseRelayProofs` |
| `UsageScanner` | the scanner over bytes and arbitrary chunks | `MCUsageScanner`, `SseRelayProofs` |
| `Router` | privacy filter and selection, with an arbitrary policy | `Gateway`, `Boot`, `Ewma` |
| `Gateway` | the whole request path, several requests at once | `MCGateway`, `GatewayProofs` |
| `BudgetLedger` | one key's budget: check, record, flush, crash, restart | `MCBudgetLedger`, `BudgetLedgerProofs` |
| `TpmCounter` | one key's tokens-per-minute window: creation and the races of `add` | `MCTpmCounter`, `TpmCounterProofs` |
| `Metrics` | the registry: labels, creation of counters, additions, scrapes | `MCMetrics`, `MetricsProofs` |
| `Boot` | from a configuration file to a listening gateway, through `Router`'s tables | `MCBoot`, `BootProofs` |
| `Ewma` | the EWMA policy in `Router`, with the requests that feed it | `MCEwma`, `EwmaProofs` |
| `DataTheorems` | no code: facts about sums, least elements and ranks, induction and recursion, concatenation | the proof modules about counters, lists and texts |

Definitions carry the names of the source where they have one. An operator
whose comment says "Mutant of X" is a deliberately wrong version of X; it takes
no part in any specification and exists to show that a property can fail.

### SseRelay

`PollChunk`, `PollError`, `PollEnd` and `PollStall` are the four outcomes of
`poll_next`, in its order: the upstream is asked first, the timer only when the
upstream is pending. `Finish` is the common part (`finished`, `report`), `Drop`
is the destructor, `Report` takes the oneshot sender. `UpstreamSend`,
`UpstreamClose`, `UpstreamFail` and `Tick` are the environment. A chunk stands
for one SSE event; chunks that cut events are the business of `UsageScanner`,
whose `last_usage`, `saw_done` and `overflowed` are the ones `Feed` updates. A
failing upstream may lose chunks that were buffered; `poll_next` cannot tell.
After `finished` the relay answers the end of the stream to every further poll;
that changes nothing and is left out.

### UsageScanner

Bytes are line terminators or pieces of text without terminators: `data:`, a
part of a JSON object with a usage, `[DONE]`, or anything else. An object is the
sequence of its parts (`pieces`), divided where JSON allows white space, so that
it may be spread over several `data:` lines, as in the test at
upstream.rs:501-507. `find_event_boundary`, `event_data` (the loop of
`process_event` over the bytes of an event) and `Drain` (the loop of `feed`) are
recursive functions with the same cases as the code; whether a joined text is a
usage object is `is_object`. A line that is `data` without a colon counts as an
empty `data:` line, as in the code, and has no symbol of its own. The reference
definition (`LineEnds`, `BlankEnds`, `Data`, `Places`, `RefUsage`) speaks of
positions of the whole stream instead. It leaves a CR at the very end of the
stream undecided, as the code does: a stream whose last event is ended by a lone
CR is never scanned to its end.

### Router and Gateway

The policy is a constant operator `choose` about which nothing is assumed: it
may answer any index, in range or not, or none. `StaticPriority` is the shipped
one; EWMA answers the same while no latency was observed, and the server never
feeds it any (README.md:140).

`Gateway` has one action per stretch of the handler between two await points,
and one per update of state shared between threads: a last failed attempt is
`OpenExhausted` (the error counter) and `GiveUp` (the request counter and the
answer). `pc` is where the handler
is, `task` where the accounting is (the spawned task of a stream, or the
handler itself for a buffered body). The relay appears as its contract:
`RelayScan` and `RelayEnd` are the actions of `RelayContract`, which `SseRelay`
is shown to implement. `ClientGone` drops the handler's future at an await
point; a buffered body in memory is accounted for without another await, so
that cannot be interrupted. Retries are bounded by `MaxRetries`; the backoff is
a wait of unknown length. A governor is a bucket of `max_rpm` cells with
`Refill` as time passes; a limit of zero means no governor, as in the code.
The TPM window continues or restarts, either way, at each update. Usage is its
`total_tokens`.

### BudgetLedger

The ledger used as its documentation says; the server itself calls `record`
only. A worker is a request being served; `CheckDim` and `RecordDim` are single
atomic loads and additions, in any order of the dimensions since they are
relaxed. `flush` is five steps (begin, one load per dimension, open, written,
rename) and may fail in writing or renaming; the process may die anywhere.
`period_start` is fixed at `Restart`, as in `new`. The history variables
`spent`, `kept`, `seen` and `durable` only serve the properties.

### TpmCounter

One call of `record_tpm` is: read the clock; look the counter up under the read
lock; if there is none, `entry().or_insert_with` under the write lock; load
`window_start`; then either one `fetch_add` or the two stores of a reset. Each
is a step of its own, and the two relaxed stores take effect in either order.
Counters that were ever created stay in `heap`, so that a second one for the
same key would be seen. The comparison of the total with `max_tpm` changes no
state and the server ignores its result; `current_tpm` reads and, at most,
creates the counter the same way. `byStart` and `byEnd` are history. The clock
does not go back, and starts at least a window after the epoch. `get_or_create`
(`metrics.rs`) and `counters_for` (`budget.rs`) find their counters by the same
two lock sections; `Metrics` has them together with what is specific to it.

### Metrics

A recording is a sequence of additions (`record_tokens` makes three); each
finds its counter (`Lookup`, `Insert`: the two lock sections of
`get_or_create`) and adds to it without a lock. `render` visits the families in
its order; `SnapshotBegin` to `SnapshotEnd` is one `snapshot`, which holds the
read lock, so that counters of this family can move but none can be created. A
text is a sequence of symbols, since `escape` and the labels are about what
texts are made of: `label` and `escape` build the text as the code does, and a
counter is found by it. Sorting and the `# HELP` lines are left out. `recorded`
and `floor` are history.

### Boot

`file` and `environment` are the inputs. `BackendChecks` and `KeyChecks` list
the early returns of the two loops in their order, `Checked` returns the first
that applies, and `Resolved` is the entry that is pushed. Then the policy, the
state (`from_config`: the router, whose EWMA policy asserts its `alpha`; the
HTTP client, which may fail to build; the key store) and the listener, which
may fail to bind. The range of `alpha` is written twice in the code, and twice
here: `ValidAlpha` is the check of the configuration, `AlphaAsserted` the
assertion. An error ends `main` with a message, a failed assertion in a
panic; the two are told apart. What makes a string a variable name, an http URL
or an address is given by constants, and `Trimmed` is `trim_end_matches('/')`.
`RoutesAsConfigured` instantiates `Router` with the table that was built, and
compares it with the file.

### Ewma

A router built by `with_policy`, and requests that overlap: `Route` uses the
averages as they are, `Answer` calls `observe`, `Fail` does not. Nothing in the
server feeds the policy yet (README.md:140), so the caller of `observe` is
external. Latencies and averages are whole multiples of some small unit.
router.rs:281 computes in f64, which rounds: with `alpha` 0.3, two answers of
3 ms average to less than 3. `mixed` is therefore the set of all values within
`Rounding` of the exact mean, and `Rounding` is a constant: what one update may
be off by, which for f64 and latencies that occur is some units in the last
place. It is also assumed that no answer takes no time at all and that an
average does not underflow to 0, which would take an `alpha` or a latency near
the smallest f64; a score of 0 is that of an unseen backend. The check for a
finite sample has no counterpart, since a `Duration` is always finite.
`latency_ms` reads.

## 3. Runs

| Run | Question | Size |
|---|---|---|
| `relay` | Is the client sent what the upstream sent, is the end reported once, truthfully and, when the upstream stops, always? | 2 usages, 3 chunks, timeout of 2 ticks |
| `scanner` | Does the scanner find what the stream says, however it is cut, in bounded memory? | streams of up to 8 symbols (two events), objects of one part and of two, buffer of 4 |
| `gateway` | Do privacy, retry discipline, billing and metrics hold for two interleaved requests and any policy? | 2 requests, 3 backends, with and without keys and limits, 1 retry |
| `gateway_live` | Are refusals justified, is what relays report settled, are requests answered? | the same, with the shipped policy |
| `budget` | Are overruns bounded and do snapshots survive crashes, write failures and restarts? | 2 workers, 3 requests, 2 periods |
| `tpm` | Do threads share one counter, and is it free of tokens of an earlier window? | 3 threads, 4 calls, window of 2 ticks, 5 ticks |
| `metrics` | Is every addition in the series of its own labels, and does a scrape show its own time? | 2 threads, 2 of 7 recordings, 2 scrapes |
| `boot` | Is the first defect reported, and does a gateway that comes up do what its file says? | up to 2 of 11 backend entries and 2 of 7 key entries, 6 policies |
| `ewma` | Do rounding errors stay bounded, and is every eligible backend probed? | 3 backends, 2 requests, latencies of 5 and 7, alpha 1/2, rounding of 1 |
| `budget_period`, `tpm_race` | Two statements of the repository's own text that the code does not keep (section 5) | |

**Bounds.** Three chunks allow a usage, an overflow or `[DONE]`, and something
after it; two ticks separate "quiet for a while" from "stalled". One retry
gives a first, a last and an exhausted attempt; two requests are the smallest
number that interleaves, and `Failures` holds a connection error, a retryable
and a final status. Eight symbols hold two complete events, or one and an
overflow, or one object over two `data:` lines. For the budget, a limit of one
token with usages of up to two makes three requests enough to tell a working
check from a missing one; one dimension is enough because no property relates
dimensions, and the proofs are for any set of them. Three threads let an
addition meet two resets; the clock has room for two turns of the window. Two
recordings are the fewest that can meet at a label, and the labels of
`MCMetrics` are those that collide without escaping, or with the escapes in
another order. In `MCBoot` every check of the two loops is the first to fail
for some file, alone, before and after a good entry, and duplicate names and
secrets occur; keys vary with good backends only, since the key loop does not
look at backends. In `MCEwma` an External backend is ahead of two Local ones,
so that private and shareable requests see different lists and the last backend
is never first in one; with a rounding of 1 the averages of answers of 5 and 7
do leave that range, for 4 and 8, so that `NoDrift` is about more than the
exact mean.

**Fairness.** The relay is polled as long as it can make progress, which a
client that reads brings about; the clock runs; hyper drops a body that has
ended. Of the upstream one thing is assumed, that it does not send for ever:
`MaxChunks` makes every upstream of the model finite. The code cannot enforce
it, since each chunk resets the stall timer and the HTTP client has no total
timeout (upstream.rs:387-389). `UpstreamReleased` names it (`FallsSilent`), and
the ending of `ImplementsContract` rests on it as well; the safety properties
do not, and the proofs are for every `MaxChunks`. An upstream may stop, close
or fail whenever it likes. In the gateway, timers fire, handlers go on and
spawned tasks run (the tokio runtime). That a relay ends is not assumed, so
`StreamSettles` begins where a relay has reported; whether it gets there is the
relay's business, for a client that reads. Clients that finish sending their
body and upstreams that answer are not part of the specification either:
`Answered` names them as its hypothesis (`PeersAnswer`). `Boot` assumes that
`main` runs on; each of its steps ends. `Ewma` has no fairness of its own:
`ColdProbed` names the traffic it needs (`Traffic`: each kind of query keeps
coming, and a backend that is asked again and again answers at some time).
Deadlock is not checked: start-up that has ended, all requests done, a dropped
relay, or a bound that is reached are proper ends.

**Properties.** Relay: `ByteFaithful`, `ExactlyOneSummary`,
`SummaryAccountsForReceived`, `OutcomeMatchesClosing`, `NoFalseStall`,
`ImplementsContract` (refinement of `RelayContract`, fairness included),
`UpstreamReleased`. Scanner: `ChunkingIrrelevant`, `BufferBounded`. Gateway:
`PrivateStaysLocal`, `RetryDiscipline`, `RetriesPreFirstByte`,
`BilledExactlyOnce`, `MetricsReconcile`, `RefusedOnlyIfNoneEligible`,
`StreamSettles`, `Answered`. Budget: `OverrunBounded`,
`SnapshotNeverTorn`, `NoPhantomUsage`, `SurvivesRestart`. TPM window:
`OneCounter`, `NothingStale`. Metrics: `SeriesExact`, `ScrapeInInterval`. Boot:
`FirstDefectReported`, `EachKeyIsItself`, `RoutesAsConfigured`, `BootDecides`.
EWMA: `NoDrift`, `ColdProbed`. Each is explained where it is defined, and
each has a mutant of the modelled code that breaks it.

## 4. Proofs

All proofs are for every value of the constants that satisfies the `ASSUME`s of
the modules. Requests, workers and threads are assumed finite, because sums and
cardinalities over them occur; their number is arbitrary. The bounds
(`MaxRequests`, `MaxPeriod`, `MaxNow`, `MaxCalls` and so on) are any numbers.
Of texts it is assumed that a usage object has at least one part, that its parts
are not line terminators, `data:`, `[DONE]` or other text, and that label values
are sequences of symbols.

**DataTheorems.** The ledgers' properties are sums over sets of requests,
periods or label values. The installed provers cannot use the library's
induction theorems, so induction is done by a smallest counterexample: of the
subsets of a finite set that violate a claim there is one without a violating
proper subset (`SmallestSubset`). With it the recursion behind
`SumFunctionOnSet` is shown to have exactly one solution (`UnrollUnique`,
`UnrollExists`), and from that follow the rules the other modules cite:
`SumRemove`, `SumChange` (one summand changes), `SumSubset`, `SumAdd`. The same
way `Min` of a finite set of integers is its least element, and the elements
correspond one to one to the indices of its sorted list (`RankInjective`,
`RankSurjective`), which is what `Candidates::select` does with an index.

A second part is about recursion. `Induction` states induction over the natural
numbers with a set in the place of the predicate, which the provers can use.
TLA+ defines a recursive function as some function that satisfies its equation;
whether one exists has to be shown before the equation may be used. `Recursion`
shows it for every equation that looks only at arguments of a smaller measure,
by approximations that agree as far as they go (`SolutionsAgree`,
`SolutionsUpTo`). With it the library's `FlattenSeq` is unrolled
(`FlattenAppend`, `FlattenConcat`, `FlattenOne`).

**SseRelayProofs.** `Inv` joins four parts. `ScannerInv`: the scanner holds
what was received; its core is the lemma `FeedTracksReceived`, one more chunk
fed is one more chunk scanned. `ReportInv`: the sender is gone exactly when the
stream has finished or was dropped, and nothing the summary speaks of changes
afterwards; without it `ExactlyOneSummary` is not inductive, since a drop may
follow an end. `WireInv`: received and buffered chunks together are those sent,
or, after a failure, the first of them. `StallInv`: with nothing buffered, the
timer has not run down further than the upstream was silent; this is why
polling the upstream first matters. From it follow `TypeCorrect`, `Faithful`,
`OneSummary`, `AccountsForReceived`, `OutcomeTold`, `StallIsReal`, and
`RefinesContract`, the safety part of the refinement.

The second half of the module is about `UsageScanner` (`ScannerSpec`, whose
variables are its own). The argument has four steps.

1. *The loops are what they say.* `SearchExists`, `LooperExists` and
   `DrainExists` show with `Recursion` that the three recursive functions have
   solutions, with the distance to the end of the buffer as the measure, so that
   each round may be unrolled (`SearchRound`, `LooperRound`, `DrainRound`).
2. *Cuts do not matter.* A boundary found in a buffer is found at the same place
   when bytes follow (`SearchStays`): this is what `Incomplete` is for, since a
   CR at the end of the buffer must not be decided yet. Hence draining a buffer
   and then more bytes is draining them at once (`DrainMore`), and the inductive
   invariant `StreamInv` says `AsIfAtOnce`: until it gives up, the scanner is in
   the state of one that was fed the whole stream in one chunk. From this follow
   `ScannerTypeCorrect`, `ChunksDoNotMatter` and `BufferIsBounded`.
3. *A boundary is a blank line.* The search walks over the lines of the stream
   and stops behind the first blank one (`WalkFinds`, `WalkStops`), and what is
   left after it has the blank lines of the stream that lie behind
   (`BlankBehind`).
4. *An event says what its data lines say.* `LoopReads` follows `event_data`
   over the bytes, with the payloads of the data lines so far as its invariant
   (`LineSays` is the step for one line). The joined text, line breaks left
   out, stands at the places of the payloads in the stream, in the same order
   (`Stands`; `StandsMore` adds a line), and text reads the same wherever it
   stands (`StandsReads`): it is an object exactly when the payloads are.
   `EventSays` puts this together, `EventEffect` is the effect of one event, and
   `DrainIsCorrect` carries it along the loop.

`ChunkingIsIrrelevant` applies step 4 to the stream at once, and step 2 makes
that the scanner's state, for streams of any length, any cut and any mix of line
terminators.

**GatewayProofs.** `Inv` says for each request, by where its handler is, what
`opened`, `faults`, `attempt` and `status` can be: during an attempt there is
one more contact than failures, all contacts are of the routed backend, all
failures but a last one are retryable, and the routed backend is one that
`gather` admits. `RouteIsEligible` is the lemma about the router: whatever the
policy answers, the selection is a candidate. The results are `TypeCorrect`,
`Privacy`, `Retries` and `PreFirstByte`, for any number of requests, backends,
keys and retries and for every policy.

The accounting needs more. `UsageInv` says that no usage exists before a body
is read and that a task which bills has either a summary or a handler waiting
for it: without it a retry could change what a request already owes.
`BooksInv` then equates each ledger with a sum over all requests, and `RowStep`
states what a step of one request does to its own row: a ledger changes exactly
by what the request's due changes, and all other rows stay. There is one lemma
`...Row` per action, `SumChange` turns the rows into sums, and the results are
`Billing` and `Reconciled`. The window is only bounded (`tpm <= tokens`), since
it restarts; the tokens a request has counted and not yet told the window about
are the slack that makes this inductive.

`Refusals` has the hypothesis `Honest`: the policy answers a list that is not
empty with an index into it. The code does not check this, and a policy that
breaks it is answered with 502 although backends are eligible; the shipped
`StaticPriority` is shown to satisfy it (`StaticPriorityHonest`), and the run
`gateway_live` uses that one. The relays inside `Gateway` are the contract; that
the contract may stand for the relay is `RefinesContract` of `SseRelayProofs`:
whatever the relay shows its consumer, the contract can do, and so it is among
the behaviours these proofs cover.

**BudgetLedgerProofs.** `OverrunBounded` is not inductive: what a counter may
still receive depends on who has passed the check. `OverrunInv` adds
`MaxUsage * Cardinality(Exposed(d))`, the requests that passed the check of `d`
and have not added to it. A check that passes finds the counter within the
limit, so that even all workers together stay within the bound; an addition
moves one usage from the second summand into the first. `FlushInv`, `KeptInv`
and `SnapshotInv` follow a flush from the counters through the image and the
temporary file to the snapshot. Results: `TypeCorrect`, `Overrun`, `NeverTorn`,
`Survives`. `NoPhantom` follows from `BackedInv`: counters, a flush's image and
the snapshot are each backed by what was recorded since the period they belong
to. All three are needed, since tokens travel from the counters through the
image to the file and, at a restart, back.

**TpmCounterProofs.** `NothingStale` speaks of quiet moments; in between, the
two stores of a reset take effect in either order and other threads add. `Fresh`
allows the counter what was recorded since its window started plus the amounts
of threads that have stored their tokens and not yet their window.
`FreshOrMoved` says that the counter is fresh unless a thread that has moved the
window is about to overwrite the tokens, and `FreshForReset` that it is fresh
for the window that a halfway thread is about to store. Results: `TypeCorrect`,
`CounterShared` and `NeverStale`, for any number of threads.

**EwmaProofs.** An update adds an error of at most `Rounding` and keeps 1 -
`alpha` of the error that was there, so that an error within `Rounding` /
`alpha` stays within it (`ErrorAbove`, `ErrorBelow`, `MixedBounds`); the
fastest and the slowest answer can only move apart. Results: `TypeCorrect`,
`ErrorsDoNotAddUp`, for every `alpha` in (0, 1] and every `Rounding`, and the
action property `RoutesToFastest`: the index that `choose` counts in its list
and `select` applies to it leads to a candidate with the lowest score, the
first such in the table.

**BootProofs.** The invariant relates the tables to prefixes of the file: each
entry pushed so far is sound and resolved from its own entry (`BackendsPrefix`,
`KeysPrefix`), the sets of names and secrets seen are those of the prefix, and a
recorded error is a correct diagnosis (`ErrorOK`). Results, for every file and
environment: `TypeCorrect` (with it, the assertion in `EwmaLatency::new` never
fails), `ReportsFirstDefect`, `KeysAreThemselves`, `RoutesTheFile`.

**MetricsProofs.** Every label has its own cell and a cell one label
(`OwnCell`), although a thread may hold a reference to it from before another
thread's insertion; each cell is the sum of what was recorded under its label
(`LabelExact`); a scrape has complete families behind it and, at the family it
is at, what it has and what is left are complete (`ScanOK`); what was read
bounds the counters from below, since they only grow (`ReadOK`). Results:
`TypeCorrect`, `ScrapesWithinInterval`, `CountersExact`, and `SeriesAreExact`.
The last needs that different label values have different texts
(`LabelsAreDistinct`). `escape` makes three passes over a text; together they
replace every symbol by its code (one symbol or two; `EscapeCat`, `EscapeOne`),
and an escaped text followed by a quote can be read back symbol by symbol
(`EscapeDecodes`, `PiecesDecode`): a quote that is not behind a backslash ends
it.

**Only model-checked.** Liveness (`ImplementsContract`'s fairness,
`UpstreamReleased`, `StreamSettles`, `Answered`, `BootDecides`, `ColdProbed`),
which needs ENABLED and fairness. Every invariant that a passing run checks is
also proved. The two models of the scanner are related by reading them:
`SseRelay` takes one event per chunk, which `ChunkingIsIrrelevant` justifies,
but no theorem states a refinement between the two.

## 5. Where the text and the code disagree

Two disagreements are runs in which TLC finds the text's statement violated:

* **Restarts in the same period** (`budget_period`). budget.rs:13-15 says that
  budgets survive them; a snapshot carries the period in which its process
  started, so that after an hour of running every snapshot is stale when it is
  written.
* **Tokens lost at a window's turn** (`tpm_race`). limits.rs:84-85 says that
  `add` adds to the current window; what is added between the two stores of a
  reset, or by another reset of the same second, is overwritten.

Others were met while modelling; a property that holds says what the code does
instead:

* **Overruns.** README.md:144 speaks of one request's worth of tokens; the
  bound is one usage per request in flight (`OverrunBounded`, proved).
* **Requests that are not counted.** metrics.rs:159 calls
  `patchbay_requests_total` the total of requests received; those answered
  before a backend accepted, or rejected by it, are missing. What is counted is
  in `MetricsReconcile`.
* **Overflow of the scanner.** upstream.rs:97-98 says that accounting degrades
  to "no usage observed"; a usage found before the overflow is still reported
  (`SummaryAccountsForReceived`, proved).
* **Malformed URLs.** config.rs:6-10 counts them among the load-time errors;
  only the prefix is looked at, so `http://` passes and is stored as `http:`.

Not a disagreement, but a limit that a reader of CHANGELOG.md:35 ("Stall timeout
(default 30 s): terminates hung upstream connections", of the SSE relay) should
know: the HTTP client has a `connect_timeout` of 10 s and no other
(upstream.rs:387-389), so that the wait for a response head and for a buffered
body has no bound of its own. This is why `Answered` needs `PeersAnswer`.

## 6. Not modelled, and the plan

Not modelled: graceful shutdown (a call into axum after which `main` ends),
`/healthz`, header handling, JSON and the layout of the metrics text: they
format data or call libraries. JSON is represented by the kind of a text.
`usage_for`, `current_tpm` and `latency_ms` read and change nothing. Width of
integers is not represented yet.

The order of the work was: relay and contract, router and gateway, budget,
scanner, TPM window, metrics, start-up, EWMA. Next:

1. GCRA with its burst in the place of `Gateway`'s bucket, against "cannot
   consume more than 10 requests per minute" (limits.rs:140-143).
2. Two concurrent flushes, and 64-bit counters, in `BudgetLedger`.
