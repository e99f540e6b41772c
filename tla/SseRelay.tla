------------------------------ MODULE SseRelay ------------------------------
(***************************************************************************)
(* The byte-faithful SSE relay (upstream.rs): an upstream response body, a *)
(* stall timer and a usage scanner behind one Stream that the HTTP server  *)
(* polls, and a oneshot channel on which the end of the stream is told.    *)
(*                                                                         *)
(* A chunk stands for one SSE event: a usage object, the [DONE] marker, an *)
(* unterminated run of bytes beyond MAX_EVENT_BUFFER, or anything else.    *)
(* Events cut across chunks are the subject of module UsageScanner.  A     *)
(* chunk is also the unit in which bytes_relayed counts.                   *)
(***************************************************************************)
EXTENDS Usage, Naturals, Sequences

CONSTANTS StallTimeout,   \* stall_timeout, in ticks of the model's clock
          MaxChunks       \* bound: chunks the upstream sends (it makes every
                          \* upstream of the model a finite one)

ASSUME StallAssumption == StallTimeout \in Nat \ {0}
ASSUME ChunksAssumption == MaxChunks \in Nat
ASSUME UsageAssumption == /\ NoUsage \notin Usages
                          /\ Usages \cap {"text", "done", "oversized"} = {}

Chunk == Usages \cup {"text", "done", "oversized"}

VARIABLES
  sent,           \* chunks the upstream has produced
  wire,           \* of those, the ones buffered ahead of the relay
  upstream,       \* the upstream connection
  quiet,          \* ticks since the upstream last produced anything (history)
  scanner,        \* UsageScanner
  stall,          \* ticks left on the Sleep
  reporter,       \* the oneshot Sender has not been taken
  bytes_relayed,
  finished,
  dropped,        \* the relay has been dropped
  received,       \* chunks yielded to the client
  closing,        \* the last item yielded to the client
  summaries       \* what arrived on the summary channel

relayVars == <<scanner, stall, reporter, bytes_relayed, finished>>
vars == <<sent, wire, upstream, quiet, relayVars, dropped, received, closing,
          summaries>>

Outcomes == {"Completed", "UpstreamError", "Stalled", "ClientDisconnected"}

Summary == [outcome: Outcomes, usage: Usages \cup {NoUsage},
            saw_done: BOOLEAN, bytes_relayed: Nat]

TypeOK ==
  /\ sent \in Seq(Chunk)
  /\ wire \in Seq(Chunk)
  /\ upstream \in {"open", "eof", "error", "cancelled"}
  /\ quiet \in 0..StallTimeout
  /\ scanner \in [last_usage: Usages \cup {NoUsage}, saw_done: BOOLEAN,
                  overflowed: BOOLEAN]
  /\ stall \in 0..StallTimeout
  /\ reporter \in BOOLEAN
  /\ bytes_relayed \in Nat
  /\ finished \in BOOLEAN
  /\ dropped \in BOOLEAN
  /\ received \in Seq(Chunk)
  /\ closing \in {"none", "end", "Upstream", "StallTimeout"}
  /\ summaries \in Seq(Summary)

-----------------------------------------------------------------------------
(* Mutants of Feed: an event with a null usage overwrites the last one; the *)
(* scanner goes on after an overflow.                                       *)
FeedNullUsage(s, chunk) ==
  IF s.overflowed
  THEN s
  ELSE CASE chunk = "done"      -> [s EXCEPT !.saw_done = TRUE]
         [] chunk = "oversized" -> [s EXCEPT !.overflowed = TRUE]
         [] OTHER               -> [s EXCEPT !.last_usage = chunk]

FeedAfterOverflow(s, chunk) ==
  CASE chunk \in Usages     -> [s EXCEPT !.last_usage = chunk]
    [] chunk = "done"       -> [s EXCEPT !.saw_done = TRUE]
    [] OTHER                -> s

(* The scanner fed one whole event. After an overflow it looks at nothing   *)
(* more, and keeps what it had found.                                       *)
Feed(s, chunk) ==
  IF s.overflowed
  THEN s
  ELSE CASE chunk \in Usages    -> [s EXCEPT !.last_usage = chunk]
         [] chunk = "done"      -> [s EXCEPT !.saw_done = TRUE]
         [] chunk = "oversized" -> [s EXCEPT !.overflowed = TRUE]
         [] OTHER               -> s

RelaySummary(outcome) ==
  [outcome |-> outcome, usage |-> scanner.last_usage,
   saw_done |-> scanner.saw_done, bytes_relayed |-> bytes_relayed]

(* Mutant of Report: the Sender is cloned instead of taken.                 *)
ReportAgain(outcome) ==
  /\ UNCHANGED reporter
  /\ summaries' = Append(summaries, RelaySummary(outcome))

(* SseRelay::report: only the holder of the Sender gets through, and taking *)
(* it leaves None behind.                                                   *)
Report(outcome) ==
  /\ reporter' = FALSE
  /\ summaries' = IF reporter THEN Append(summaries, RelaySummary(outcome))
                              ELSE summaries

-----------------------------------------------------------------------------
(* SseRelay::new over a response whose headers have arrived.                *)
Init ==
  /\ sent = <<>> /\ wire = <<>> /\ received = <<>> /\ summaries = <<>>
  /\ upstream = "open"
  /\ quiet = 0
  /\ scanner = [last_usage |-> NoUsage, saw_done |-> FALSE,
                overflowed |-> FALSE]
  /\ stall = StallTimeout
  /\ reporter = TRUE
  /\ bytes_relayed = 0
  /\ finished = FALSE
  /\ dropped = FALSE
  /\ closing = "none"

(* The upstream: it sends, closes, fails (a reset may take buffered bytes   *)
(* with it) or falls silent.                                                *)
UpstreamSend(chunk) ==
  /\ upstream = "open"
  /\ Len(sent) < MaxChunks
  /\ sent' = Append(sent, chunk)
  /\ wire' = Append(wire, chunk)
  /\ quiet' = 0
  /\ UNCHANGED <<upstream, relayVars, dropped, received, closing, summaries>>

UpstreamClose ==
  /\ upstream = "open"
  /\ upstream' = "eof"
  /\ UNCHANGED <<sent, wire, quiet, relayVars, dropped, received, closing,
                 summaries>>

UpstreamFail ==
  /\ upstream = "open"
  /\ upstream' = "error"
  /\ wire' \in {wire, <<>>}
  /\ UNCHANGED <<sent, quiet, relayVars, dropped, received, closing,
                 summaries>>

(* Time passes whether or not the relay is polled.                          *)
Tick ==
  /\ ~dropped
  /\ stall > 0 \/ quiet < StallTimeout
  /\ stall' = IF stall > 0 THEN stall - 1 ELSE 0
  /\ quiet' = IF quiet < StallTimeout THEN quiet + 1 ELSE quiet
  /\ UNCHANGED <<sent, wire, upstream, scanner, reporter, bytes_relayed,
                 finished, dropped, received, closing, summaries>>

-----------------------------------------------------------------------------
(* poll_next asks the upstream first ...                                    *)
PollChunk ==
  /\ ~dropped /\ ~finished
  /\ wire # <<>>
  /\ wire' = Tail(wire)
  /\ scanner' = Feed(scanner, Head(wire))
  /\ bytes_relayed' = bytes_relayed + 1
  /\ stall' = StallTimeout
  /\ received' = Append(received, Head(wire))
  /\ UNCHANGED <<sent, upstream, quiet, reporter, finished, dropped, closing,
                 summaries>>

(* The last item the relay yields, and the outcome it reports for it.       *)
Finish(item, outcome) ==
  /\ ~dropped /\ ~finished
  /\ finished' = TRUE
  /\ Report(outcome)
  /\ closing' = item
  /\ UNCHANGED <<sent, wire, upstream, quiet, scanner, stall, bytes_relayed,
                 dropped, received>>

PollError == /\ wire = <<>> /\ upstream = "error"
             /\ Finish("Upstream", "UpstreamError")

(* Mutant of PollEnd: an error item ends the stream like an end of file.    *)
PollErrorAsEnd == /\ wire = <<>> /\ upstream \in {"eof", "error"}
                  /\ Finish("end", "Completed")

PollEnd == /\ wire = <<>> /\ upstream = "eof"
           /\ Finish("end", "Completed")

(* Mutants of PollStall: the timer is polled before the upstream; a stall   *)
(* is reported as an upstream error.                                        *)
PollStallFirst == /\ stall = 0
                  /\ Finish("StallTimeout", "Stalled")

PollStallMisreported == /\ wire = <<>> /\ upstream = "open"
                        /\ stall = 0
                        /\ Finish("StallTimeout", "UpstreamError")

(* ... and looks at the stall timer only when the upstream is pending.      *)
PollStall == /\ wire = <<>> /\ upstream = "open"
             /\ stall = 0
             /\ Finish("StallTimeout", "Stalled")

(* Mutants of Drop: nothing is reported; the upstream is left running.      *)
DropSilently ==
  /\ ~dropped
  /\ dropped' = TRUE
  /\ upstream' = IF upstream = "open" THEN "cancelled" ELSE upstream
  /\ UNCHANGED <<sent, wire, quiet, relayVars, received, closing, summaries>>

DropDetached ==
  /\ ~dropped
  /\ dropped' = TRUE
  /\ Report("ClientDisconnected")
  /\ UNCHANGED <<sent, wire, upstream, quiet, scanner, stall, bytes_relayed,
                 finished, received, closing>>

(* Drop for SseRelay: the server is done with the body, or the client left. *)
(* Dropping the upstream stream cancels a request still in flight.          *)
Drop ==
  /\ ~dropped
  /\ dropped' = TRUE
  /\ Report("ClientDisconnected")
  /\ upstream' = IF upstream = "open" THEN "cancelled" ELSE upstream
  /\ UNCHANGED <<sent, wire, quiet, scanner, stall, bytes_relayed, finished,
                 received, closing>>

Poll == PollChunk \/ PollError \/ PollEnd \/ PollStall

Next ==
  \/ \E chunk \in Chunk: UpstreamSend(chunk)
  \/ UpstreamClose
  \/ UpstreamFail
  \/ Tick
  \/ PollChunk
  \/ PollError
  \/ PollEnd
  \/ PollStall
  \/ Drop

Spec == Init /\ [][Next]_vars

(* The client keeps reading (so the server keeps polling the body), the     *)
(* clock runs, and the server drops a body that has ended. The upstream may *)
(* stop, close or fail at any time; but it cannot send for ever, because    *)
(* MaxChunks bounds what it sends.                                          *)
FairSpec ==
  /\ Spec
  /\ WF_vars(Poll)
  /\ WF_vars(Tick)
  /\ WF_vars(finished /\ Drop)

-----------------------------------------------------------------------------
(* Positions of s that the scanner looks at: those before an overflow.      *)
Scanned(s) == {i \in 1..Len(s): \A j \in 1..i: s[j] # "oversized"}

(* u is the last usage object among the scanned chunks of s.                *)
IsLastUsage(u, s) ==
  IF u = NoUsage
  THEN \A i \in Scanned(s): s[i] \notin Usages
  ELSE \E i \in Scanned(s): /\ s[i] = u
                            /\ \A j \in Scanned(s): s[j] \in Usages => j <= i

Prefix(s, t) == /\ Len(s) <= Len(t)
                /\ \A i \in 1..Len(s): s[i] = t[i]

(* The client gets the upstream's chunks, in order, nothing added and       *)
(* nothing skipped; only a failing upstream may lose chunks, always at the  *)
(* end, and then the client never sees a clean end of stream, nor does it   *)
(* when the stream was cut short by a stall.                                *)
ByteFaithful ==
  /\ Prefix(received, sent)
  /\ upstream # "error" => received \o wire = sent
  /\ closing = "end" => received = sent

(* One summary per relay, however the stream ends: none while it is live,   *)
(* exactly one once it has finished or was dropped.                         *)
ExactlyOneSummary ==
  Len(summaries) = IF finished \/ dropped THEN 1 ELSE 0

(* The summary accounts for exactly what the client was sent: all of its    *)
(* bytes, the last usage object and the [DONE] marker among the chunks that *)
(* were scanned.                                                            *)
SummaryAccountsForReceived ==
  \A k \in 1..Len(summaries):
    /\ summaries[k].bytes_relayed = Len(received)
    /\ IsLastUsage(summaries[k].usage, received)
    /\ summaries[k].saw_done <=> \E i \in Scanned(received):
                                    received[i] = "done"

(* The outcome told to the accounting task is the one the client saw: an    *)
(* end of stream is Completed, an error item is the matching error, and a   *)
(* disconnect is reported only for a stream that had not ended.             *)
OutcomeMatchesClosing ==
  \A k \in 1..Len(summaries):
    summaries[k].outcome = CASE closing = "end"          -> "Completed"
                             [] closing = "Upstream"     -> "UpstreamError"
                             [] closing = "StallTimeout" -> "Stalled"
                             [] OTHER                    -> "ClientDisconnected"

(* A stall is declared only on an upstream that really was silent for       *)
(* stall_timeout: never because the client read slowly, however long chunks *)
(* waited in the buffer.                                                    *)
NoFalseStall ==
  [][(closing' = "StallTimeout" /\ closing # "StallTimeout")
        => (quiet = StallTimeout /\ wire = <<>>)]_vars

(* The relay implements the contract its consumer relies on, and with a     *)
(* reading client it gets to report. Its steps are those of the contract    *)
(* whatever the upstream does; that it ends (the contract's fairness) rests *)
(* on FallsSilent below, which MaxChunks makes true of every behaviour:     *)
(* there is no total timeout that would end a stream that never pauses.     *)
Told == [k \in 1..Len(summaries) |->
            [outcome |-> summaries[k].outcome, usage |-> summaries[k].usage]]

RC == INSTANCE RelayContract
        WITH usage <- scanner.last_usage, summary <- Told

ImplementsContract == RC!FairSpec

(* The upstream stops sending at some time, whether or not it says so. The  *)
(* code cannot enforce it: the stall timer is reset by every chunk, and the *)
(* client has no total-request timeout (upstream.rs:387-389).               *)
FallsSilent == <>[][UNCHANGED sent]_vars

(* An upstream that falls silent is let go, even if it neither closes nor   *)
(* fails: for a client that reads, its connection does not stay open.       *)
UpstreamReleased == FallsSilent => <>(upstream # "open")
=============================================================================
