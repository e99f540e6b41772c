--------------------------- MODULE SseRelayProofs ---------------------------
(***************************************************************************)
(* Safety of the relay for every stall timeout, every set of usage objects *)
(* and every bound on the upstream's chunks; and, in the second part, that *)
(* its scanner finds what the stream says, however the stream is cut.      *)
(***************************************************************************)
EXTENDS SseRelay, UsageScanner, DataTheorems

(* What the scanner holds is what was received so far.                      *)
ScannerInv ==
  /\ bytes_relayed = Len(received)
  /\ IsLastUsage(scanner.last_usage, received)
  /\ scanner.saw_done <=> \E i \in Scanned(received): received[i] = "done"
  /\ scanner.overflowed <=> \E i \in 1..Len(received):
                               received[i] = "oversized"

(* The Sender is gone exactly when the one summary was sent, and nothing    *)
(* it speaks of has changed since.                                          *)
ReportInv ==
  /\ reporter <=> ~(finished \/ dropped)
  /\ ExactlyOneSummary
  /\ \A k \in 1..Len(summaries):
       /\ summaries[k].usage = scanner.last_usage
       /\ summaries[k].saw_done = scanner.saw_done
       /\ summaries[k].bytes_relayed = bytes_relayed
  /\ OutcomeMatchesClosing
  /\ closing = "none" <=> ~finished

(* What was yielded and what is buffered come from the upstream, in order.  *)
WireInv ==
  /\ Prefix(received \o wire, sent)
  /\ upstream # "error" => received \o wire = sent
  /\ closing = "end" => upstream = "eof" /\ wire = <<>>

(* While nothing is buffered, the timer cannot have run down further than   *)
(* the upstream has been silent.                                            *)
StallInv ==
  (~finished /\ ~dropped /\ wire = <<>> /\ upstream = "open")
     => quiet + stall >= StallTimeout

Inv == TypeOK /\ ScannerInv /\ ReportInv /\ WireInv /\ StallInv

-----------------------------------------------------------------------------
(* What one more chunk does to the scanned positions: none is added after   *)
(* an overflow or by the overflow itself.                                   *)
LEMMA ScannedAppend ==
  ASSUME NEW s \in Seq(Chunk), NEW c \in Chunk
  PROVE  Scanned(Append(s, c)) =
           IF (\E i \in 1..Len(s): s[i] = "oversized") \/ c = "oversized"
           THEN Scanned(s) ELSE Scanned(s) \cup {Len(s) + 1}
<1> DEFINE t == Append(s, c)
<1>1. /\ Len(t) = Len(s) + 1
      /\ \A i \in 1..Len(s): t[i] = s[i]
      /\ t[Len(s) + 1] = c
  OBVIOUS
<1>2. Len(s) \in Nat
  OBVIOUS
<1> HIDE DEF t
<1>3. \A i \in 1..Len(s): i \in Scanned(t) <=> i \in Scanned(s)
  BY <1>1, <1>2 DEF Scanned
<1>4. Len(s) + 1 \in Scanned(t) <=>
        ~((\E i \in 1..Len(s): s[i] = "oversized") \/ c = "oversized")
  BY <1>1, <1>2 DEF Scanned
<1>5. /\ Scanned(t) \subseteq 1..(Len(s) + 1)
      /\ Scanned(s) \subseteq 1..Len(s)
  BY <1>1 DEF Scanned
<1>6. CASE (\E i \in 1..Len(s): s[i] = "oversized") \/ c = "oversized"
  <2>1. Len(s) + 1 \notin Scanned(t)
    BY <1>4, <1>6
  <2>2. Scanned(t) = Scanned(s)
    BY <2>1, <1>2, <1>3, <1>5
  <2> QED BY <2>2, <1>6 DEF t
<1>7. CASE ~((\E i \in 1..Len(s): s[i] = "oversized") \/ c = "oversized")
  <2>1. Len(s) + 1 \in Scanned(t)
    BY <1>4, <1>7
  <2>2. Scanned(t) = Scanned(s) \cup {Len(s) + 1}
    BY <2>1, <1>2, <1>3, <1>5
  <2> QED BY <2>2, <1>7 DEF t
<1>8. QED
  BY <1>6, <1>7

(* What feeding one chunk does to each field of the scanner.                *)
LEMMA FeedFields ==
  ASSUME NEW s \in [last_usage: Usages \cup {NoUsage}, saw_done: BOOLEAN,
                    overflowed: BOOLEAN],
         NEW c \in Chunk
  PROVE  /\ Feed(s, c) \in [last_usage: Usages \cup {NoUsage},
                            saw_done: BOOLEAN, overflowed: BOOLEAN]
         /\ Feed(s, c).last_usage = IF ~s.overflowed /\ c \in Usages
                                    THEN c ELSE s.last_usage
         /\ Feed(s, c).saw_done = (s.saw_done \/ (~s.overflowed /\ c = "done"))
         /\ Feed(s, c).overflowed = (s.overflowed \/ c = "oversized")
<1> USE UsageAssumption
<1>1. CASE s.overflowed
  BY <1>1 DEF Feed
<1>2. CASE ~s.overflowed /\ c \in Usages
  BY <1>2 DEF Feed
<1>3. CASE ~s.overflowed /\ c = "done"
  BY <1>3 DEF Feed
<1>4. CASE ~s.overflowed /\ c = "oversized"
  BY <1>4 DEF Feed
<1>5. CASE ~s.overflowed /\ c = "text"
  BY <1>5 DEF Feed
<1>6. QED
  BY <1>1, <1>2, <1>3, <1>4, <1>5 DEF Chunk

(* Feeding the scanner keeps it in step with what was relayed.              *)
LEMMA FeedTracksReceived ==
  ASSUME TypeOK, ScannerInv, NEW c \in Chunk,
         received' = Append(received, c), scanner' = Feed(scanner, c),
         bytes_relayed' = bytes_relayed + 1
  PROVE  ScannerInv'
<1> USE UsageAssumption
<1> DEFINE t == Append(received, c)
           n == Len(received) + 1
<1>1. /\ Len(t) = n
      /\ \A i \in 1..Len(received): t[i] = received[i]
      /\ t[n] = c
  BY DEF TypeOK
<1>2. Len(received) \in Nat
  BY DEF TypeOK
<1>3. Scanned(t) =
        IF scanner.overflowed \/ c = "oversized"
        THEN Scanned(received) ELSE Scanned(received) \cup {n}
  BY ScannedAppend DEF TypeOK, ScannerInv
<1>4. Scanned(received) \subseteq 1..Len(received)
  BY DEF Scanned
<1>5. /\ scanner \in [last_usage: Usages \cup {NoUsage}, saw_done: BOOLEAN,
                      overflowed: BOOLEAN]
      /\ IsLastUsage(scanner.last_usage, received)
      /\ scanner.saw_done <=> \E i \in Scanned(received): received[i] = "done"
      /\ scanner.overflowed <=> \E i \in 1..Len(received):
                                   received[i] = "oversized"
  BY DEF TypeOK, ScannerInv
<1> DEFINE f == Feed(scanner, c)
<1>6. /\ f.last_usage = IF ~scanner.overflowed /\ c \in Usages
                        THEN c ELSE scanner.last_usage
      /\ f.saw_done = (scanner.saw_done \/ (~scanner.overflowed /\ c = "done"))
      /\ f.overflowed = (scanner.overflowed \/ c = "oversized")
  BY <1>5, FeedFields
<1>7. received' = t /\ scanner' = f /\ bytes_relayed' = Len(t)
  BY <1>1 DEF ScannerInv
<1> HIDE DEF t, n, f
<1>8. IsLastUsage(f.last_usage, t)
  <2>1. CASE scanner.overflowed \/ c = "oversized"
    BY <2>1, <1>1, <1>3, <1>4, <1>5, <1>6 DEF IsLastUsage
  <2>2. CASE ~scanner.overflowed /\ c \in Usages
    <3>1. f.last_usage = c /\ c # NoUsage /\ c # "oversized"
      BY <2>2, <1>6
    <3>2. n \in Scanned(t) /\ \A j \in Scanned(t): j <= n
      BY <2>2, <3>1, <1>2, <1>3, <1>4 DEF n
    <3> QED BY <3>1, <3>2, <1>1 DEF IsLastUsage
  <2>3. CASE ~scanner.overflowed /\ c \notin Usages /\ c # "oversized"
    <3>1. f.last_usage = scanner.last_usage
      BY <2>3, <1>6
    <3>2. Scanned(t) = Scanned(received) \cup {n} /\ t[n] \notin Usages
      BY <2>3, <1>1, <1>3
    <3>3. \A i \in Scanned(received): t[i] = received[i]
      BY <1>1, <1>4
    <3> QED BY <3>1, <3>2, <3>3, <1>5 DEF IsLastUsage
  <2> QED BY <2>1, <2>2, <2>3
<1>9. f.saw_done <=> \E i \in Scanned(t): t[i] = "done"
  <2>1. \A i \in Scanned(received): t[i] = received[i]
    BY <1>1, <1>4
  <2>2. CASE scanner.overflowed \/ c = "oversized"
    BY <2>1, <2>2, <1>3, <1>5, <1>6
  <2>3. CASE ~scanner.overflowed /\ c # "oversized"
    BY <2>1, <2>3, <1>1, <1>3, <1>5, <1>6
  <2> QED BY <2>2, <2>3
<1>10. f.overflowed <=> \E i \in 1..Len(t): t[i] = "oversized"
  <2>1. 1..Len(t) = (1..Len(received)) \cup {n}
    BY <1>1, <1>2 DEF n
  <2>2. (\E i \in 1..Len(t): t[i] = "oversized")
           <=> \/ \E i \in 1..Len(received): received[i] = "oversized"
               \/ c = "oversized"
    BY <2>1, <1>1
  <2> QED BY <2>2, <1>5, <1>6
<1>11. QED
  BY <1>7, <1>8, <1>9, <1>10 DEF ScannerInv, IsLastUsage, Scanned
-----------------------------------------------------------------------------
LEMMA InitInv == Init => Inv
<1> USE StallAssumption DEF Init
<1>1. Init => TypeOK
  <2> SUFFICES ASSUME Init PROVE TypeOK
    OBVIOUS
  <2>1. /\ sent \in Seq(Chunk) /\ wire \in Seq(Chunk)
        /\ received \in Seq(Chunk)
    OBVIOUS
  <2>2. summaries \in Seq(Summary)
    OBVIOUS
  <2>3. scanner \in [last_usage: Usages \cup {NoUsage}, saw_done: BOOLEAN,
                     overflowed: BOOLEAN]
    OBVIOUS
  <2>4. /\ stall \in 0..StallTimeout
        /\ quiet \in 0..StallTimeout
        /\ bytes_relayed \in Nat
    OBVIOUS
  <2>5. /\ upstream \in {"open", "eof", "error", "cancelled"}
        /\ closing \in {"none", "end", "Upstream", "StallTimeout"}
        /\ reporter \in BOOLEAN /\ finished \in BOOLEAN /\ dropped \in BOOLEAN
    OBVIOUS
  <2> HIDE DEF Init
  <2>6. QED BY <2>1, <2>2, <2>3, <2>4, <2>5 DEF TypeOK
<1>2. Init => ScannerInv
  BY DEF ScannerInv, IsLastUsage, Scanned
<1>3. Init => ReportInv
  BY DEF ReportInv, ExactlyOneSummary, OutcomeMatchesClosing
<1>4. Init => WireInv
  BY DEF WireInv, Prefix
<1>5. Init => StallInv
  BY DEF StallInv
<1>6. QED
  BY <1>1, <1>2, <1>3, <1>4, <1>5 DEF Inv

(* A relay that reports does so once, with what the scanner holds.          *)
LEMMA ReportOnce ==
  ASSUME TypeOK, ReportInv, NEW o \in Outcomes, Report(o), ~finished \/ ~dropped
  PROVE  /\ reporter' = FALSE
         /\ summaries' = IF finished \/ dropped THEN summaries
                         ELSE <<RelaySummary(o)>>
         /\ Len(summaries') = 1
         /\ summaries' \in Seq(Summary)
<1>1. RelaySummary(o) \in Summary
  BY DEF RelaySummary, Summary, TypeOK
<1>2. CASE finished \/ dropped
  BY <1>2 DEF Report, ReportInv, ExactlyOneSummary, TypeOK
<1>3. CASE ~(finished \/ dropped)
  <2>1. reporter /\ Len(summaries) = 0
    BY <1>3 DEF ReportInv, ExactlyOneSummary
  <2>2. summaries = <<>>
    BY <2>1 DEF TypeOK
  <2>3. summaries' = <<RelaySummary(o)>>
    BY <2>1, <2>2 DEF Report
  <2>4. Len(summaries') = 1 /\ summaries' \in Seq(Summary)
    BY <1>1, <2>3
  <2> QED BY <1>3, <2>3, <2>4 DEF Report
<1>4. QED
  BY <1>2, <1>3

LEMMA FinishInv ==
  ASSUME Inv,
         NEW item \in {"end", "Upstream", "StallTimeout"},
         NEW o \in Outcomes,
         Finish(item, o),
         o = CASE item = "end"          -> "Completed"
               [] item = "Upstream"     -> "UpstreamError"
               [] item = "StallTimeout" -> "Stalled",
         item = "end" => upstream = "eof" /\ wire = <<>>
  PROVE  Inv'
<1> USE DEF Inv
<1>1. /\ reporter' = FALSE
      /\ summaries' = <<RelaySummary(o)>>
      /\ summaries' \in Seq(Summary)
  BY ReportOnce DEF Finish
<1>2. /\ ~finished /\ ~dropped /\ finished' = TRUE /\ closing' = item
      /\ UNCHANGED <<sent, wire, upstream, quiet, scanner, stall,
                     bytes_relayed, dropped, received>>
  BY DEF Finish
<1>3. TypeOK'
  BY <1>1, <1>2 DEF TypeOK
<1>4. ScannerInv'
  BY <1>2 DEF ScannerInv, IsLastUsage, Scanned
<1>5. ReportInv'
  <2>1. Len(summaries') = 1 /\ summaries'[1] = RelaySummary(o)
    BY <1>1
  <2>2. /\ RelaySummary(o).outcome = o
        /\ RelaySummary(o).usage = scanner.last_usage
        /\ RelaySummary(o).saw_done = scanner.saw_done
        /\ RelaySummary(o).bytes_relayed = bytes_relayed
    BY DEF RelaySummary
  <2>3. OutcomeMatchesClosing'
    BY <1>2, <2>1, <2>2 DEF OutcomeMatchesClosing
  <2>4. ExactlyOneSummary'
    BY <1>2, <2>1 DEF ExactlyOneSummary
  <2> QED BY <1>1, <1>2, <2>1, <2>2, <2>3, <2>4 DEF ReportInv
<1>6. WireInv'
  BY <1>2 DEF WireInv, Prefix
<1>7. StallInv'
  BY <1>2 DEF StallInv
<1>8. QED
  BY <1>3, <1>4, <1>5, <1>6, <1>7

(* Without what is buffered, it still is a prefix.                          *)
LEMMA YieldedIsPrefix ==
  ASSUME TypeOK, WireInv
  PROVE  Prefix(received, sent)
<1>1. /\ Len(received \o wire) = Len(received) + Len(wire)
      /\ Len(received) \in Nat /\ Len(wire) \in Nat /\ Len(sent) \in Nat
      /\ \A i \in 1..Len(received): (received \o wire)[i] = received[i]
  BY DEF TypeOK
<1> QED
  BY <1>1 DEF WireInv, Prefix

LEMMA NextInv == Inv /\ [Next]_vars => Inv'
<1> SUFFICES ASSUME Inv, [Next]_vars PROVE Inv'
  OBVIOUS
<1> USE StallAssumption
<1>1. TypeOK /\ ScannerInv /\ ReportInv /\ WireInv /\ StallInv
  BY DEF Inv
<1>2. ASSUME NEW chunk \in Chunk, UpstreamSend(chunk) PROVE Inv'
  <2> USE <1>2 DEF UpstreamSend, relayVars
  <2>1. TypeOK'
    BY <1>1 DEF TypeOK
  <2>2. ScannerInv'
    BY <1>1 DEF ScannerInv, IsLastUsage, Scanned
  <2>3. ReportInv'
    BY <1>1 DEF ReportInv, ExactlyOneSummary, OutcomeMatchesClosing
  <2>4. WireInv'
    <3>1. received \o Append(wire, chunk) = Append(received \o wire, chunk)
      BY <1>1 DEF TypeOK
    <3>2. received' \o wire' = sent'
      BY <1>1, <3>1 DEF WireInv
    <3>3. Prefix(received \o wire, sent)'
      BY <3>2 DEF Prefix, TypeOK
    <3> QED BY <1>1, <3>1, <3>2, <3>3 DEF WireInv
  <2>5. StallInv'
    <3>1. Len(wire') = Len(wire) + 1 /\ Len(wire) \in Nat
      BY <1>1 DEF TypeOK
    <3>2. wire' # <<>>
      BY <3>1
    <3> QED BY <3>2 DEF StallInv
  <2> QED BY <2>1, <2>2, <2>3, <2>4, <2>5 DEF Inv
<1>3. ASSUME UpstreamClose PROVE Inv'
  <2> USE <1>3 DEF UpstreamClose, relayVars
  <2>1. TypeOK'
    BY <1>1 DEF TypeOK
  <2>2. ScannerInv'
    BY <1>1 DEF ScannerInv, IsLastUsage, Scanned
  <2>3. ReportInv'
    BY <1>1 DEF ReportInv, ExactlyOneSummary, OutcomeMatchesClosing
  <2>4. WireInv' /\ StallInv'
    BY <1>1 DEF WireInv, Prefix, StallInv
  <2> QED BY <2>1, <2>2, <2>3, <2>4 DEF Inv
<1>4. ASSUME UpstreamFail PROVE Inv'
  <2> USE <1>4 DEF UpstreamFail, relayVars
  <2>1. TypeOK'
    <3>1. wire' \in Seq(Chunk)
      <4>1. wire' = wire \/ wire' = <<>>
        OBVIOUS
      <4>2. wire \in Seq(Chunk) /\ <<>> \in Seq(Chunk)
        BY <1>1 DEF TypeOK
      <4> QED BY <4>1, <4>2
    <3> QED BY <1>1, <3>1 DEF TypeOK
  <2>2. ScannerInv'
    BY <1>1 DEF ScannerInv, IsLastUsage, Scanned
  <2>3. ReportInv'
    BY <1>1 DEF ReportInv, ExactlyOneSummary, OutcomeMatchesClosing
  <2>4. WireInv'
    <3>1. wire' = wire \/ wire' = <<>>
      OBVIOUS
    <3>2. CASE wire' = wire
      BY <1>1, <3>2 DEF WireInv, Prefix
    <3>3. CASE wire' = <<>>
      <4>1. Prefix(received, sent)
        BY <1>1, YieldedIsPrefix
      <4>2. received' \o wire' = received'
        BY <1>1, <3>3 DEF TypeOK
      <4>3. Prefix(received \o wire, sent)'
        BY <4>1, <4>2 DEF Prefix
      <4> QED BY <1>1, <3>3, <4>3 DEF WireInv
    <3> QED BY <3>1, <3>2, <3>3
  <2>5. StallInv'
    BY <1>1 DEF StallInv
  <2> QED BY <2>1, <2>2, <2>3, <2>4, <2>5 DEF Inv
<1>5. ASSUME Tick PROVE Inv'
  <2> USE <1>5 DEF Tick
  <2>1. TypeOK'
    BY <1>1 DEF TypeOK
  <2>2. ScannerInv'
    BY <1>1 DEF ScannerInv, IsLastUsage, Scanned
  <2>3. ReportInv'
    BY <1>1 DEF ReportInv, ExactlyOneSummary, OutcomeMatchesClosing
  <2>4. WireInv'
    BY <1>1 DEF WireInv, Prefix
  <2>5. StallInv'
    BY <1>1 DEF StallInv, TypeOK
  <2> QED BY <2>1, <2>2, <2>3, <2>4, <2>5 DEF Inv
<1>6. ASSUME PollChunk PROVE Inv'
  <2> USE <1>6 DEF PollChunk
  <2>1. Head(wire) \in Chunk /\ Tail(wire) \in Seq(Chunk)
    BY <1>1 DEF TypeOK
  <2>2. TypeOK'
    <3>1. scanner' \in [last_usage: Usages \cup {NoUsage}, saw_done: BOOLEAN,
                        overflowed: BOOLEAN]
      BY <1>1, <2>1, FeedFields DEF TypeOK
    <3> QED BY <1>1, <2>1, <3>1 DEF TypeOK
  <2>3. ScannerInv'
    BY <1>1, <2>1, FeedTracksReceived
  <2>4. ReportInv'
    BY <1>1 DEF ReportInv, ExactlyOneSummary, OutcomeMatchesClosing
  <2>5. WireInv'
    <3>1. received' \o wire' = received \o wire
      BY SMTT(30), <1>1, <2>1 DEF TypeOK
    <3> QED BY <1>1, <3>1 DEF WireInv, Prefix, ReportInv
  <2>6. StallInv'
    BY <1>1 DEF StallInv, TypeOK
  <2> QED BY <2>2, <2>3, <2>4, <2>5, <2>6 DEF Inv
<1>7. ASSUME PollError PROVE Inv'
  BY <1>7, FinishInv DEF PollError, Outcomes
<1>8. ASSUME PollEnd PROVE Inv'
  BY <1>8, FinishInv DEF PollEnd, Outcomes
<1>9. ASSUME PollStall PROVE Inv'
  BY <1>9, FinishInv DEF PollStall, Outcomes
<1>10. ASSUME Drop PROVE Inv'
  <2>1. /\ ~dropped /\ dropped' = TRUE
        /\ upstream' = IF upstream = "open" THEN "cancelled" ELSE upstream
        /\ UNCHANGED <<sent, wire, quiet, scanner, stall, bytes_relayed,
                       finished, received, closing>>
    BY <1>10 DEF Drop
  <2>2. /\ reporter' = FALSE
        /\ summaries' = IF finished THEN summaries
                        ELSE <<RelaySummary("ClientDisconnected")>>
        /\ Len(summaries') = 1
        /\ summaries' \in Seq(Summary)
    BY <1>1, <1>10, <2>1, ReportOnce DEF Drop, Outcomes
  <2>3. TypeOK'
    BY <1>1, <2>1, <2>2 DEF TypeOK
  <2>4. ScannerInv'
    BY <1>1, <2>1 DEF ScannerInv, IsLastUsage, Scanned
  <2>5. ReportInv'
    <3>1. ExactlyOneSummary'
      BY <2>1, <2>2 DEF ExactlyOneSummary
    <3>2. CASE finished
      BY <1>1, <2>1, <2>2, <3>1, <3>2 DEF ReportInv, OutcomeMatchesClosing
    <3>3. CASE ~finished
      <4>1. summaries'[1] = RelaySummary("ClientDisconnected")
        BY <2>2, <3>3
      <4>2. closing = "none"
        BY <1>1, <3>3 DEF ReportInv
      <4> QED BY <1>1, <2>1, <2>2, <3>1, <3>3, <4>1, <4>2
              DEF ReportInv, OutcomeMatchesClosing, RelaySummary
    <3> QED BY <3>2, <3>3
  <2>6. WireInv' /\ StallInv'
    BY <1>1, <2>1 DEF WireInv, Prefix, StallInv
  <2> QED BY <2>3, <2>4, <2>5, <2>6 DEF Inv
<1>11. CASE UNCHANGED vars
  BY SMTT(30), <1>1, <1>11 DEF vars, relayVars, Inv, TypeOK, ScannerInv, IsLastUsage,
     Scanned, ReportInv, ExactlyOneSummary, OutcomeMatchesClosing, WireInv, Prefix,
     StallInv
<1>12. QED
  BY <1>2, <1>3, <1>4, <1>5, <1>6, <1>7, <1>8, <1>9, <1>10, <1>11 DEF Next

(* The inductive invariant holds of every reachable state of the relay.     *)
THEOREM Invariance == Spec => []Inv
  BY InitInv, NextInv, PTL DEF Spec

-----------------------------------------------------------------------------
(* Every variable of the relay keeps its type.                              *)
THEOREM TypeCorrect == Spec => []TypeOK
  BY Invariance, PTL DEF Inv

(* What poll_next yields is the upstream's stream, and a clean end means    *)
(* all of it.                                                               *)
THEOREM Faithful == Spec => []ByteFaithful
<1>1. Inv => ByteFaithful
  <2> SUFFICES ASSUME Inv PROVE ByteFaithful
    OBVIOUS
  <2>1. wire = <<>> => received \o wire = received
    BY DEF Inv, TypeOK
  <2>2. Prefix(received, sent)
    BY YieldedIsPrefix DEF Inv
  <2> QED BY <2>1, <2>2 DEF Inv, WireInv, ByteFaithful
<1>2. QED
  BY <1>1, Invariance, PTL

(* report() sends exactly one summary, from poll_next or from Drop.         *)
THEOREM OneSummary == Spec => []ExactlyOneSummary
  BY Invariance, PTL DEF Inv, ReportInv

(* The usage, the [DONE] flag and the byte count of the summary are those   *)
(* of the chunks the client was given.                                      *)
THEOREM AccountsForReceived == Spec => []SummaryAccountsForReceived
<1>1. Inv => SummaryAccountsForReceived
  BY DEF Inv, ReportInv, ScannerInv, SummaryAccountsForReceived
<1>2. QED
  BY <1>1, Invariance, PTL

(* The reported outcome is the one the client saw.                          *)
THEOREM OutcomeTold == Spec => []OutcomeMatchesClosing
  BY Invariance, PTL DEF Inv, ReportInv

(* A stall is only ever declared on an upstream silent for stall_timeout.   *)
THEOREM StallIsReal == Spec => NoFalseStall
<1>1. Inv /\ [Next]_vars =>
        [(closing' = "StallTimeout" /\ closing # "StallTimeout")
            => (quiet = StallTimeout /\ wire = <<>>)]_vars
  <2> SUFFICES ASSUME Inv, Next, closing' = "StallTimeout",
                      closing # "StallTimeout"
               PROVE  quiet = StallTimeout /\ wire = <<>>
    OBVIOUS
  <2>1. PollStall
    BY DEF Next, UpstreamSend, UpstreamClose, UpstreamFail, Tick, PollChunk,
       PollError, PollEnd, Finish, Drop
  <2>2. /\ wire = <<>> /\ upstream = "open" /\ stall = 0
        /\ ~finished /\ ~dropped
    BY <2>1 DEF PollStall, Finish
  <2>3. quiet + stall >= StallTimeout
    BY <2>2 DEF Inv, StallInv
  <2> QED BY <2>2, <2>3, StallAssumption DEF Inv, TypeOK
<1>2. QED
  BY <1>1, Invariance, PTL DEF Spec, NoFalseStall

-----------------------------------------------------------------------------
(* A report is the End step of the contract, and there is only one.         *)
LEMMA ReportIsEnd ==
  ASSUME Inv, NEW o \in Outcomes, Report(o), ~finished, ~dropped,
         UNCHANGED scanner
  PROVE  RC!End
<1>1. summaries' = <<RelaySummary(o)>>
  BY ReportOnce DEF Inv
<1>2. Len(summaries) = 0
  BY DEF Inv, ReportInv, ExactlyOneSummary
<1>3. Told = <<>>
  BY <1>2 DEF Told
<1>4. Told' = <<[outcome |-> o, usage |-> scanner.last_usage]>>
  BY <1>1 DEF Told, RelaySummary
<1>5. QED
  BY <1>3, <1>4 DEF RC!End, RC!Outcomes, Outcomes

(* Every step of the relay is a step of the contract its consumer sees, or  *)
(* leaves what the consumer sees alone.                                     *)
THEOREM RefinesContract == Spec => RC!Spec
<1>1. Init => RC!Init
  BY DEF Init, RC!Init, Told
<1>2. Inv /\ [Next]_vars => [RC!Next]_(RC!vars)
  <2> SUFFICES ASSUME Inv, [Next]_vars PROVE [RC!Next]_(RC!vars)
    OBVIOUS
  <2>1. ASSUME UNCHANGED <<scanner, summaries>> PROVE UNCHANGED RC!vars
    BY <2>1 DEF RC!vars, Told
  <2>2. ASSUME NEW chunk \in Chunk, UpstreamSend(chunk) PROVE UNCHANGED RC!vars
    BY <2>1, <2>2 DEF UpstreamSend, relayVars
  <2>3. CASE UpstreamClose \/ UpstreamFail \/ Tick \/ UNCHANGED vars
    BY <2>1, <2>3 DEF UpstreamClose, UpstreamFail, Tick, relayVars, vars
  <2>4. CASE PollChunk
    <3>1. Head(wire) \in Chunk
      BY <2>4 DEF PollChunk, Inv, TypeOK
    <3>2. \/ scanner'.last_usage = scanner.last_usage
          \/ scanner'.last_usage \in Usages
      <4>1. scanner' = Feed(scanner, Head(wire))
        BY <2>4 DEF PollChunk
      <4>2. scanner \in [last_usage: Usages \cup {NoUsage}, saw_done: BOOLEAN,
                         overflowed: BOOLEAN]
        BY DEF Inv, TypeOK
      <4>3. Feed(scanner, Head(wire)).last_usage
              = IF ~scanner.overflowed /\ Head(wire) \in Usages
                THEN Head(wire) ELSE scanner.last_usage
        BY <3>1, <4>2, FeedFields
      <4> QED BY <4>1, <4>3
    <3>3. summaries' = summaries /\ Len(summaries) = 0
      BY <2>4 DEF PollChunk, Inv, ReportInv, ExactlyOneSummary
    <3>4. Told = <<>> /\ Told' = Told
      BY <3>3 DEF Told
    <3> QED BY <3>2, <3>4 DEF RC!Next, RC!Scan, RC!vars
  <2>5. CASE PollError \/ PollEnd \/ PollStall
    BY <2>5, ReportIsEnd DEF PollError, PollEnd, PollStall, Finish, Outcomes,
       RC!Next
  <2>6. CASE Drop /\ ~finished
    BY <2>6, ReportIsEnd DEF Drop, Outcomes, RC!Next
  <2>7. CASE Drop /\ finished
    <3>1. summaries' = summaries /\ scanner' = scanner
      BY <2>7, ReportOnce DEF Drop, Outcomes, Inv
    <3> QED BY <3>1, <2>1
  <2> QED BY <2>2, <2>3, <2>4, <2>5, <2>6, <2>7 DEF Next
<1>3. QED
  BY <1>1, <1>2, Invariance, PTL DEF Spec, RC!Spec
-----------------------------------------------------------------------------
(* The terminator at a position.                                            *)
LEMMA TermIs ==
  ASSUME NEW b, NEW i
  PROVE  term_at(b, i) =
           IF i > Len(b) THEN 0
           ELSE IF b[i] = LF THEN 1
           ELSE IF b[i] = CR
                THEN IF i = Len(b) THEN -1 ELSE IF b[i + 1] = LF THEN 2 ELSE 1
           ELSE 0
<1>1. LF # CR
  BY DEF LF, CR
<1>2. CASE i > Len(b)
  BY <1>2 DEF term_at, Not
<1>3. CASE ~(i > Len(b)) /\ b[i] = LF
  BY <1>1, <1>3 DEF term_at, Not, Incomplete
<1>4. CASE ~(i > Len(b)) /\ b[i] = CR
  BY <1>1, <1>4 DEF term_at, Not, Incomplete
<1>5. CASE ~(i > Len(b)) /\ b[i] # LF /\ b[i] # CR
  BY <1>1, <1>5 DEF term_at, Not, Incomplete
<1> QED BY <1>2, <1>3, <1>4, <1>5

LEMMA TermRange ==
  ASSUME NEW b \in Seq(Byte), NEW i \in Nat \ {0}
  PROVE  /\ term_at(b, i) \in {-1, 0, 1, 2}
         /\ term_at(b, i) # 0 => i <= Len(b)
         /\ term_at(b, i) > 0 => i + term_at(b, i) <= Len(b) + 1
<1>1. Len(b) \in Nat
  OBVIOUS
<1> QED BY <1>1, TermIs

(* A complete terminator stays what it is when more bytes follow, and so    *)
(* does a byte that is none.                                                *)
LEMMA TermStays ==
  ASSUME NEW b \in Seq(Byte), NEW c \in Seq(Byte), NEW i \in 1..Len(b),
         term_at(b, i) # -1
  PROVE  term_at(b \o c, i) = term_at(b, i)
<1>1. Len(b) \in Nat /\ Len(c) \in Nat
  OBVIOUS
<1>2. PICK d: d = b \o c
  OBVIOUS
<1>3. Len(d) = Len(b) + Len(c) /\ \A j \in 1..Len(b): d[j] = b[j]
  BY <1>2
<1>4. LF # CR
  BY DEF LF, CR
<1>5. /\ term_at(b, i) = IF b[i] = LF THEN 1
                         ELSE IF b[i] = CR
                              THEN IF i = Len(b) THEN -1 ELSE IF b[i + 1] = LF THEN 2 ELSE 1
                         ELSE 0
      /\ term_at(d, i) = IF d[i] = LF THEN 1
                         ELSE IF d[i] = CR
                              THEN IF i = Len(d) THEN -1 ELSE IF d[i + 1] = LF THEN 2 ELSE 1
                         ELSE 0
  <2>1. ~(i > Len(b)) /\ ~(i > Len(d))
    BY <1>1, <1>3
  <2> QED BY <2>1, TermIs
<1>6. d[i] = b[i]
  BY <1>3
<1>7. CASE b[i] = CR
  <2>1. i # Len(b)
    BY <1>4, <1>5, <1>7
  <2>2. i + 1 \in 1..Len(b) /\ i # Len(d)
    BY <1>1, <1>3, <2>1
  <2>3. d[i + 1] = b[i + 1]
    BY <1>3, <2>2
  <2> QED BY <1>2, <1>5, <1>6, <2>1, <2>2, <2>3
<1>8. CASE b[i] # CR
  BY <1>2, <1>5, <1>6, <1>8
<1> QED BY <1>7, <1>8

-----------------------------------------------------------------------------
(* find_event_boundary: its loop as a recursive function, one round of it,  *)
(* and that there is such a function.                                       *)
Round1(b, i, g) ==
  LET l1 == term_at(b, i)
      l2 == term_at(b, i + l1)
  IN  IF i > Len(b) THEN NoBoundary
      ELSE IF l1 = Not THEN g[i + 1]
      ELSE IF l1 = Incomplete THEN NoBoundary
      ELSE IF l2 = Not THEN g[i + l1]
      ELSE IF l2 = Incomplete THEN NoBoundary
      ELSE <<i, i + l1 + l2>>

Searches(b, g) == g = [i \in 1..Len(b) + 1 |-> Round1(b, i, g)]

search(b) == CHOOSE g: Searches(b, g)

LEMMA BoundaryIsSearched ==
  ASSUME NEW b
  PROVE  find_event_boundary(b) = search(b)[1]
BY DEF find_event_boundary, search, Searches, Round1

Boundaries == {NoBoundary} \cup (Nat \X Nat)

(* Where the loop goes on from a position, it goes on further right.        *)
LEMMA Round1Reads ==
  ASSUME NEW b \in Seq(Byte), NEW i \in 1..Len(b) + 1
  PROVE  LET l1 == term_at(b, i)
             l2 == term_at(b, i + l1)
         IN  /\ l1 = 0 /\ i <= Len(b) => i + 1 \in 1..Len(b) + 1
             /\ l1 > 0 => /\ l1 \in {1, 2} /\ i <= Len(b) /\ i + l1 \in 1..Len(b) + 1
                          /\ l2 \in {-1, 0, 1, 2}
                          /\ l2 > 0 => i + l1 <= Len(b) /\ i + l1 + l2 <= Len(b) + 1
<1>1. Len(b) \in Nat /\ i \in Nat \ {0}
  OBVIOUS
<1>2. PICK l1 \in {-1, 0, 1, 2}: l1 = term_at(b, i)
  BY <1>1, TermRange
<1>3. /\ l1 # 0 => i <= Len(b)
      /\ l1 > 0 => i + l1 <= Len(b) + 1
  BY <1>1, <1>2, TermRange
<1>4. ASSUME l1 > 0
      PROVE  /\ term_at(b, i + l1) \in {-1, 0, 1, 2}
             /\ term_at(b, i + l1) > 0 => /\ i + l1 <= Len(b)
                                          /\ i + l1 + term_at(b, i + l1) <= Len(b) + 1
  <2>1. PICK k \in Nat \ {0}: k = i + l1
    BY <1>1, <1>2, <1>4
  <2>2. /\ term_at(b, k) \in {-1, 0, 1, 2}
        /\ term_at(b, k) # 0 => k <= Len(b)
        /\ term_at(b, k) > 0 => k + term_at(b, k) <= Len(b) + 1
    BY TermRange
  <2> QED BY <2>1, <2>2
<1> QED BY <1>1, <1>2, <1>3, <1>4

LEMMA Round1Type ==
  ASSUME NEW b \in Seq(Byte), NEW i \in 1..Len(b) + 1,
         NEW g \in [1..Len(b) + 1 -> Boundaries]
  PROVE  Round1(b, i, g) \in Boundaries
<1>1. Len(b) \in Nat /\ i \in Nat \ {0}
  OBVIOUS
<1>2. PICK l1 \in {-1, 0, 1, 2}: l1 = term_at(b, i)
  BY <1>1, TermRange
<1>3. PICK l2: l2 = term_at(b, i + l1)
  OBVIOUS
<1>4. /\ l1 = 0 /\ i <= Len(b) => i + 1 \in 1..Len(b) + 1
      /\ l1 > 0 => /\ l1 \in {1, 2} /\ i <= Len(b) /\ i + l1 \in 1..Len(b) + 1
                   /\ l2 \in {-1, 0, 1, 2}
  BY <1>2, <1>3, Round1Reads
<1>5. Round1(b, i, g) =
        IF i > Len(b) THEN NoBoundary
        ELSE IF l1 = 0 THEN g[i + 1]
        ELSE IF l1 = -1 THEN NoBoundary
        ELSE IF l2 = 0 THEN g[i + l1]
        ELSE IF l2 = -1 THEN NoBoundary
        ELSE <<i, i + l1 + l2>>
  BY <1>2, <1>3 DEF Round1, Not, Incomplete
<1>6. NoBoundary \in Boundaries
  BY DEF Boundaries
<1>7. ASSUME l1 \in {1, 2}, l2 \in {1, 2} PROVE <<i, i + l1 + l2>> \in Boundaries
  BY <1>1, <1>7 DEF Boundaries
<1>8. CASE l1 = 0 /\ i <= Len(b)
  <2>1. i + 1 \in 1..Len(b) + 1
    BY <1>4, <1>8
  <2>2. g[i + 1] \in Boundaries
    BY <2>1
  <2> QED BY <1>1, <1>5, <1>8, <2>2
<1>9. CASE l1 > 0
  <2>1. i + l1 \in 1..Len(b) + 1
    BY <1>4, <1>9
  <2>2. g[i + l1] \in Boundaries
    BY <2>1
  <2> QED BY <1>1, <1>4, <1>5, <1>6, <1>7, <1>9, <2>2
<1>10. CASE l1 = -1 \/ i > Len(b)
  BY <1>1, <1>2, <1>5, <1>6, <1>10
<1> QED BY <1>1, <1>2, <1>8, <1>9, <1>10

LEMMA Round1Down ==
  ASSUME NEW b \in Seq(Byte), NEW i \in 1..Len(b) + 1, NEW g, NEW h,
         \A j \in 1..Len(b) + 1: j > i => g[j] = h[j]
  PROVE  Round1(b, i, g) = Round1(b, i, h)
<1>1. Len(b) \in Nat /\ i \in Nat \ {0}
  OBVIOUS
<1>2. PICK l1 \in {-1, 0, 1, 2}: l1 = term_at(b, i)
  BY <1>1, TermRange
<1>3. /\ l1 = 0 /\ i <= Len(b) => i + 1 \in 1..Len(b) + 1
      /\ l1 > 0 => i + l1 \in 1..Len(b) + 1
  BY <1>2, Round1Reads
<1>4. l1 = 0 /\ i <= Len(b) => g[i + 1] = h[i + 1]
  BY <1>1, <1>3
<1>5. l1 > 0 => g[i + l1] = h[i + l1]
  BY <1>1, <1>2, <1>3
<1> QED BY <1>1, <1>2, <1>4, <1>5 DEF Round1, Not, Incomplete

LEMMA SearchExists ==
  ASSUME NEW b \in Seq(Byte)
  PROVE  \E g \in [1..Len(b) + 1 -> Boundaries]: Searches(b, g)
<1> DEFINE D == 1..Len(b) + 1
           F == [i \in D |-> [g \in [D -> Boundaries] |-> Round1(b, i, g)]]
           mu == [i \in D |-> Len(b) + 1 - i]
<1>1. \A i \in D: \A g \in [D -> Boundaries]: Round1(b, i, g) \in Boundaries
  BY Round1Type
<1>2. F \in [D -> [[D -> Boundaries] -> Boundaries]]
      /\ \A i \in D: \A g \in [D -> Boundaries]: F[i][g] = Round1(b, i, g)
  <2> HIDE DEF D
  <2> QED BY <1>1
<1>3. /\ mu \in [D -> Nat]
      /\ \A i, j \in D: mu[j] < mu[i] <=> j > i
  OBVIOUS
<1>4. ASSUME NEW i \in D, NEW g \in [D -> Boundaries], NEW h \in [D -> Boundaries],
             \A j \in D: mu[j] < mu[i] => g[j] = h[j]
      PROVE  F[i][g] = F[i][h]
  <2>1. \A j \in D: j > i => g[j] = h[j]
    BY <1>3, <1>4
  <2>2. Round1(b, i, g) = Round1(b, i, h)
    BY <2>1, Round1Down
  <2> HIDE DEF F, D
  <2> QED BY <1>2, <2>2
<1>5. Contracting(F, D, Boundaries, mu)
  <2> HIDE DEF F, D, mu
  <2> QED BY <1>2, <1>3, <1>4 DEF Contracting
<1>6. Boundaries # {}
  BY DEF Boundaries
<1>7. PICK g \in [D -> Boundaries]: g = [i \in D |-> F[i][g]]
  <2> HIDE DEF F, D, mu
  <2> QED BY <1>5, <1>6, Recursion
<1>8. g = [i \in D |-> Round1(b, i, g)]
  <2> HIDE DEF F, D
  <2> QED BY <1>2, <1>7
<1> QED BY <1>7, <1>8 DEF Searches

(* It is the one that find_event_boundary uses.                             *)
LEMMA SearchIs ==
  ASSUME NEW b \in Seq(Byte)
  PROVE  /\ DOMAIN search(b) = 1..Len(b) + 1
         /\ \A i \in 1..Len(b) + 1: search(b)[i] = Round1(b, i, search(b))
<1>1. Searches(b, search(b))
  BY SearchExists DEF search
<1>2. PICK g: g = search(b)
  OBVIOUS
<1>3. g = [i \in 1..Len(b) + 1 |-> Round1(b, i, g)]
  BY <1>1, <1>2 DEF Searches
<1> QED BY <1>2, <1>3

(* One round, in the cases that matter.                                     *)
LEMMA SearchRound ==
  ASSUME NEW b \in Seq(Byte), NEW i \in 1..Len(b) + 1, NEW l1, l1 = term_at(b, i),
         NEW l2, l2 = term_at(b, i + l1)
  PROVE  /\ i = Len(b) + 1 => search(b)[i] = NoBoundary
         /\ i <= Len(b) /\ l1 = 0 => search(b)[i] = search(b)[i + 1]
         /\ l1 = -1 => search(b)[i] = NoBoundary
         /\ l1 > 0 /\ l2 = 0 => search(b)[i] = search(b)[i + l1]
         /\ l1 > 0 /\ l2 = -1 => search(b)[i] = NoBoundary
         /\ l1 > 0 /\ l2 > 0 => search(b)[i] = <<i, i + l1 + l2>>
<1>1. Len(b) \in Nat /\ i \in Nat \ {0}
  OBVIOUS
<1>2. l1 \in {-1, 0, 1, 2} /\ (l1 # 0 => i <= Len(b))
  BY <1>1, TermRange
<1>3. l1 > 0 => l2 \in {-1, 0, 1, 2}
  BY Round1Reads
<1>4. search(b)[i] =
        IF i > Len(b) THEN NoBoundary
        ELSE IF l1 = 0 THEN search(b)[i + 1]
        ELSE IF l1 = -1 THEN NoBoundary
        ELSE IF l2 = 0 THEN search(b)[i + l1]
        ELSE IF l2 = -1 THEN NoBoundary
        ELSE <<i, i + l1 + l2>>
  BY SearchIs DEF Round1, Not, Incomplete
<1>5. i = Len(b) + 1 => search(b)[i] = NoBoundary
  BY <1>1, <1>4
<1>6. i <= Len(b) /\ l1 = 0 => search(b)[i] = search(b)[i + 1]
  BY <1>1, <1>4
<1>7. l1 = -1 => search(b)[i] = NoBoundary
  BY <1>1, <1>2, <1>4
<1>8. l1 > 0 /\ l2 = 0 => search(b)[i] = search(b)[i + l1]
  BY <1>1, <1>2, <1>4
<1>9. l1 > 0 /\ l2 = -1 => search(b)[i] = NoBoundary
  BY <1>1, <1>2, <1>4
<1>10. l1 > 0 /\ l2 > 0 => search(b)[i] = <<i, i + l1 + l2>>
  BY <1>1, <1>2, <1>3, <1>4
<1> QED BY <1>5, <1>6, <1>7, <1>8, <1>9, <1>10

(* Induction from the end of a buffer: what holds at i if it holds at all   *)
(* positions right of i holds everywhere.                                   *)
LEMMA FromTheRight ==
  ASSUME NEW n \in Nat, NEW T,
         \A i \in 1..n + 1: (\A j \in 1..n + 1: j > i => j \in T) => i \in T
  PROVE  1..n + 1 \subseteq T
<1> DEFINE U == {k \in Nat: n + 1 - k \in 1..n + 1 => n + 1 - k \in T}
<1>1. ASSUME NEW k \in Nat, \A m \in Nat: m < k => m \in U PROVE k \in U
  <2> SUFFICES ASSUME n + 1 - k \in 1..n + 1 PROVE n + 1 - k \in T
    OBVIOUS
  <2>1. ASSUME NEW j \in 1..n + 1, j > n + 1 - k PROVE j \in T
    <3>1. n + 1 - j \in Nat /\ n + 1 - j < k /\ n + 1 - (n + 1 - j) = j
      BY <2>1
    <3>2. n + 1 - j \in U
      BY <1>1, <3>1
    <3> QED BY <3>1, <3>2
  <2> QED BY <2>1
<1>2. Nat \subseteq U
  <2> HIDE DEF U
  <2> QED BY <1>1, Induction
<1>3. ASSUME NEW i \in 1..n + 1 PROVE i \in T
  <2>1. n + 1 - i \in Nat /\ n + 1 - (n + 1 - i) = i
    OBVIOUS
  <2>2. n + 1 - i \in U
    BY <1>2, <2>1
  <2> QED BY <2>1, <2>2
<1> QED BY <1>3

(* What is found is two terminators in a row, at or after the position.     *)
Found(b, i, at) ==
  \E j \in 1..Len(b), l1 \in {1, 2}, l2 \in {1, 2}:
    /\ at = <<j, j + l1 + l2>> /\ i <= j /\ j + l1 + l2 <= Len(b) + 1
    /\ l1 = term_at(b, j) /\ l2 = term_at(b, j + l1)

LEMMA SearchFinds ==
  ASSUME NEW b \in Seq(Byte)
  PROVE  \A i \in 1..Len(b) + 1:
           search(b)[i] # NoBoundary => Found(b, i, search(b)[i])
<1> DEFINE T == {i \in 1..Len(b) + 1: search(b)[i] # NoBoundary => Found(b, i, search(b)[i])}
<1>0. PICK n \in Nat: n = Len(b)
  OBVIOUS
<1>1. ASSUME NEW i \in 1..n + 1, \A j \in 1..n + 1: j > i => j \in T PROVE i \in T
  <2> SUFFICES ASSUME search(b)[i] # NoBoundary PROVE Found(b, i, search(b)[i])
    BY <1>0
  <2>1. PICK l1 \in {-1, 0, 1, 2}: l1 = term_at(b, i)
    BY TermRange
  <2>2. PICK l2: l2 = term_at(b, i + l1)
    OBVIOUS
  <2>3. /\ l1 = 0 /\ i <= n => i + 1 \in 1..n + 1
        /\ l1 > 0 => /\ l1 \in {1, 2} /\ i <= n /\ i + l1 \in 1..n + 1
                     /\ l2 \in {-1, 0, 1, 2}
                     /\ l2 > 0 => i + l1 <= n /\ i + l1 + l2 <= n + 1
    BY <1>0, <2>1, <2>2, Round1Reads
  <2>4. /\ i = n + 1 => search(b)[i] = NoBoundary
        /\ i <= n /\ l1 = 0 => search(b)[i] = search(b)[i + 1]
        /\ l1 = -1 => search(b)[i] = NoBoundary
        /\ l1 > 0 /\ l2 = 0 => search(b)[i] = search(b)[i + l1]
        /\ l1 > 0 /\ l2 = -1 => search(b)[i] = NoBoundary
        /\ l1 > 0 /\ l2 > 0 => search(b)[i] = <<i, i + l1 + l2>>
    BY <1>0, <2>1, <2>2, SearchRound
  <2>5. ASSUME NEW k \in 1..n + 1, k > i, search(b)[i] = search(b)[k]
        PROVE  Found(b, i, search(b)[i])
    <3>1. Found(b, k, search(b)[k])
      BY <1>1, <2>5
    <3>2. PICK j \in 1..Len(b), m1 \in {1, 2}, m2 \in {1, 2}:
            /\ search(b)[k] = <<j, j + m1 + m2>> /\ k <= j /\ j + m1 + m2 <= Len(b) + 1
            /\ m1 = term_at(b, j) /\ m2 = term_at(b, j + m1)
      BY <3>1 DEF Found
    <3>3. i <= j
      BY <1>0, <2>5, <3>2
    <3> QED BY <2>5, <3>2, <3>3 DEF Found
  <2>6. CASE l1 = 0 /\ i <= n
    BY <2>3, <2>4, <2>5, <2>6
  <2>7. CASE l1 > 0 /\ l2 = 0
    BY <2>1, <2>3, <2>4, <2>5, <2>7
  <2>8. CASE l1 > 0 /\ l2 > 0
    <3>1. i \in 1..Len(b) /\ l1 \in {1, 2} /\ l2 \in {1, 2} /\ i <= i /\ i + l1 + l2 <= Len(b) + 1
      BY <1>0, <2>3, <2>8
    <3> QED BY <2>1, <2>2, <2>4, <2>8, <3>1 DEF Found
  <2>9. CASE i = n + 1 \/ l1 = -1 \/ (l1 > 0 /\ l2 = -1)
    BY <2>4, <2>9
  <2> QED BY <2>1, <2>3, <2>6, <2>7, <2>8, <2>9
<1>2. 1..n + 1 \subseteq T
  <2> HIDE DEF T
  <2> QED BY <1>1, FromTheRight
<1> QED BY <1>0, <1>2

(* A boundary that is found is found in the same place when more bytes      *)
(* follow.                                                                  *)
LEMMA SearchStays ==
  ASSUME NEW b \in Seq(Byte), NEW c \in Seq(Byte)
  PROVE  \A i \in 1..Len(b) + 1:
           search(b)[i] # NoBoundary => search(b \o c)[i] = search(b)[i]
<1> DEFINE T == {i \in 1..Len(b) + 1:
                   search(b)[i] # NoBoundary => search(b \o c)[i] = search(b)[i]}
<1>0. PICK n \in Nat: n = Len(b)
  OBVIOUS
<1>01. PICK d: d = b \o c
  OBVIOUS
<1>02. d \in Seq(Byte) /\ Len(d) = n + Len(c) /\ Len(c) \in Nat
  BY <1>0, <1>01
<1>1. ASSUME NEW i \in 1..n + 1, \A j \in 1..n + 1: j > i => j \in T PROVE i \in T
  <2> SUFFICES ASSUME search(b)[i] # NoBoundary PROVE search(d)[i] = search(b)[i]
    BY <1>0, <1>01
  <2>0. \A j \in 1..n + 1: j > i /\ search(b)[j] # NoBoundary => search(d)[j] = search(b)[j]
    BY <1>01, <1>1
  <2> HIDE DEF T
  <2>1. PICK l1 \in {-1, 0, 1, 2}: l1 = term_at(b, i)
    BY TermRange
  <2>2. PICK l2: l2 = term_at(b, i + l1)
    OBVIOUS
  <2>3. /\ l1 = 0 /\ i <= n => i + 1 \in 1..n + 1
        /\ l1 > 0 => /\ l1 \in {1, 2} /\ i <= n /\ i + l1 \in 1..n + 1
                     /\ l2 \in {-1, 0, 1, 2}
                     /\ l2 > 0 => i + l1 <= n /\ i + l1 + l2 <= n + 1
    BY <1>0, <2>1, <2>2, Round1Reads
  <2>4. /\ i = n + 1 => search(b)[i] = NoBoundary
        /\ i <= n /\ l1 = 0 => search(b)[i] = search(b)[i + 1]
        /\ l1 = -1 => search(b)[i] = NoBoundary
        /\ l1 > 0 /\ l2 = 0 => search(b)[i] = search(b)[i + l1]
        /\ l1 > 0 /\ l2 = -1 => search(b)[i] = NoBoundary
        /\ l1 > 0 /\ l2 > 0 => search(b)[i] = <<i, i + l1 + l2>>
    BY <1>0, <2>1, <2>2, SearchRound
  <2>5. i <= n /\ l1 # -1
    BY <2>4
  <2>6. i \in 1..Len(d) + 1 /\ term_at(d, i) = l1
    BY <1>0, <1>01, <1>02, <2>1, <2>5, TermStays
  <2>7. CASE l1 = 0
    <3>1. search(d)[i] = search(d)[i + 1]
      BY SMTT(30), <1>02, <2>5, <2>6, <2>7, SearchRound
    <3>2. search(d)[i + 1] = search(b)[i + 1]
      BY <2>0, <2>3, <2>4, <2>5, <2>7
    <3> QED BY <2>4, <2>5, <2>7, <3>1, <3>2
  <2>8. CASE l1 > 0
    <3>1. l2 # -1
      BY <2>4, <2>8
    <3>2. i + l1 \in 1..n
      <4>1. CASE i + l1 = n + 1
        <5>1. term_at(b, n + 1) = 0
          BY <1>0, TermIs
        <5>2. search(b)[n + 1] = NoBoundary
          BY <1>0, SearchRound
        <5> QED BY <2>2, <2>4, <2>8, <4>1, <5>1, <5>2
      <4> QED BY <2>3, <2>8, <4>1
    <3>3. term_at(d, i + l1) = l2
      BY <1>0, <1>01, <2>2, <3>1, <3>2, TermStays
    <3>4. /\ l2 = 0 => search(d)[i] = search(d)[i + l1]
          /\ l2 > 0 => search(d)[i] = <<i, i + l1 + l2>>
      BY <1>02, <2>6, <2>8, <3>3, SearchRound
    <3>5. l2 = 0 => search(d)[i + l1] = search(b)[i + l1]
      BY <2>0, <2>3, <2>4, <2>8
    <3>6. CASE l2 = 0
      BY <2>4, <2>8, <3>4, <3>5, <3>6
    <3>7. CASE l2 > 0
      BY <2>4, <2>8, <3>4, <3>7
    <3> QED BY <2>3, <2>8, <3>1, <3>6, <3>7
  <2> QED BY <2>1, <2>5, <2>7, <2>8
<1>2. 1..n + 1 \subseteq T
  <2> HIDE DEF T
  <2> QED BY <1>1, FromTheRight
<1> QED BY <1>0, <1>2

LEMMA BoundaryFinds ==
  ASSUME NEW b \in Seq(Byte), NEW at, at = find_event_boundary(b), at # NoBoundary
  PROVE  Found(b, 1, at)
<1>1. 1 \in 1..Len(b) + 1
  OBVIOUS
<1> QED BY <1>1, BoundaryIsSearched, SearchFinds

LEMMA BoundaryStays ==
  ASSUME NEW b \in Seq(Byte), NEW c \in Seq(Byte), find_event_boundary(b) # NoBoundary
  PROVE  find_event_boundary(b \o c) = find_event_boundary(b)
<1>1. 1 \in 1..Len(b) + 1
  OBVIOUS
<1> QED BY <1>1, BoundaryIsSearched, SearchStays

-----------------------------------------------------------------------------
(* What an event does to a scanner does not depend on the scanner.          *)
IsUsage(event) == \E u \in Usages: is_object(event_data(event)[1], u)

Object(event) == CHOOSE u \in Usages: is_object(event_data(event)[1], u)

LEMMA ProcessIs ==
  ASSUME NEW s, NEW event
  PROVE  process_event(s, event) =
           IF event_data(event) = <<>> THEN s
           ELSE IF event_data(event)[1] = <<"[DONE]">> THEN [s EXCEPT !.saw_done = TRUE]
           ELSE IF IsUsage(event)
                THEN [s EXCEPT !.last_usage = Object(event)]
           ELSE s
BY DEF process_event, IsUsage, Object

(* The last usage and the mark after an event, from those before it.        *)
UsageAfter(event, u) ==
  IF /\ event_data(event) # <<>> /\ event_data(event)[1] # <<"[DONE]">>
     /\ IsUsage(event)
  THEN Object(event) ELSE u

DoneAfter(event, d) ==
  d \/ (event_data(event) # <<>> /\ event_data(event)[1] = <<"[DONE]">>)

Scanner(b, u, d) == [buf |-> b, last_usage |-> u, saw_done |-> d]

Scanners == [buf: Seq(Byte), last_usage: Byte \cup Usages \cup {NoUsage}, saw_done: BOOLEAN]

LEMMA ScannersAre ==
  /\ \A s \in Scanners: /\ s = Scanner(s.buf, s.last_usage, s.saw_done)
                        /\ s.buf \in Seq(Byte) /\ s.last_usage \in Byte \cup Usages \cup {NoUsage}
                        /\ s.saw_done \in BOOLEAN
  /\ \A b \in Seq(Byte), u \in Byte \cup Usages \cup {NoUsage}, d \in BOOLEAN:
       Scanner(b, u, d) \in Scanners
  /\ \A b, u, d: /\ Scanner(b, u, d).buf = b /\ Scanner(b, u, d).last_usage = u
                 /\ Scanner(b, u, d).saw_done = d
<1>1. ASSUME NEW s \in Scanners
      PROVE  /\ s = Scanner(s.buf, s.last_usage, s.saw_done)
             /\ s.buf \in Seq(Byte) /\ s.last_usage \in Byte \cup Usages \cup {NoUsage}
             /\ s.saw_done \in BOOLEAN
  BY DEF Scanner, Scanners
<1>2. ASSUME NEW b \in Seq(Byte), NEW u \in Byte \cup Usages \cup {NoUsage}, NEW d \in BOOLEAN
      PROVE  Scanner(b, u, d) \in Scanners
  BY DEF Scanner, Scanners
<1>3. \A b, u, d: /\ Scanner(b, u, d).buf = b /\ Scanner(b, u, d).last_usage = u
                  /\ Scanner(b, u, d).saw_done = d
  BY DEF Scanner
<1> QED BY <1>1, <1>2, <1>3

LEMMA ScannerType ==
  ASSUME NEW b \in Seq(Byte), NEW u \in Byte \cup Usages \cup {NoUsage}, NEW d \in BOOLEAN
  PROVE  Scanner(b, u, d) \in Scanners
BY ScannersAre

LEMMA ProcessScanner ==
  ASSUME NEW b, NEW u, NEW d \in BOOLEAN, NEW event
  PROVE  process_event(Scanner(b, u, d), event)
           = Scanner(b, UsageAfter(event, u), DoneAfter(event, d))
<1>1. [Scanner(b, u, d) EXCEPT !.saw_done = TRUE] = Scanner(b, u, TRUE)
  <2>1. \A t: [Scanner(b, u, d) EXCEPT !.saw_done = t] = Scanner(b, u, t)
    BY DEF Scanner
  <2> QED BY <2>1, Zenon
<1>2. [Scanner(b, u, d) EXCEPT !.last_usage = Object(event)]
        = Scanner(b, Object(event), d)
  BY DEF Scanner
<1>3. PICK p: p = process_event(Scanner(b, u, d), event)
  OBVIOUS
<1>4. p = IF event_data(event) = <<>> THEN Scanner(b, u, d)
          ELSE IF event_data(event)[1] = <<"[DONE]">> THEN Scanner(b, u, TRUE)
          ELSE IF IsUsage(event)
               THEN Scanner(b, Object(event), d)
          ELSE Scanner(b, u, d)
  BY <1>1, <1>2, <1>3, ProcessIs
<1>5. CASE event_data(event) = <<>>
  <2>1. UsageAfter(event, u) = u /\ DoneAfter(event, d) = d
    BY <1>5 DEF UsageAfter, DoneAfter
  <2> QED BY <1>3, <1>4, <1>5, <2>1
<1>6. CASE event_data(event) # <<>> /\ event_data(event)[1] = <<"[DONE]">>
  <2>1. UsageAfter(event, u) = u /\ DoneAfter(event, d) = TRUE
    BY <1>6 DEF UsageAfter, DoneAfter
  <2> QED BY <1>3, <1>4, <1>6, <2>1
<1>7. CASE event_data(event) # <<>> /\ event_data(event)[1] # <<"[DONE]">>
  <2>1. DoneAfter(event, d) = d
    BY <1>7 DEF DoneAfter
  <2>2. CASE IsUsage(event)
    <3>1. UsageAfter(event, u) = Object(event)
      BY <1>7, <2>2 DEF UsageAfter
    <3> QED BY <1>3, <1>4, <1>7, <2>1, <2>2, <3>1
  <2>3. CASE ~IsUsage(event)
    <3>1. UsageAfter(event, u) = u
      BY <2>3 DEF UsageAfter
    <3> QED BY <1>3, <1>4, <1>7, <2>1, <2>3, <3>1
  <2> QED BY <2>2, <2>3
<1> QED BY <1>5, <1>6, <1>7

LEMMA AfterTypes ==
  ASSUME NEW event, NEW u, NEW d \in BOOLEAN
  PROVE  /\ UsageAfter(event, u) \in Usages \cup {u}
         /\ DoneAfter(event, d) \in BOOLEAN
<1>1. IsUsage(event) => Object(event) \in Usages
  BY DEF IsUsage, Object
<1> QED BY <1>1 DEF UsageAfter, DoneAfter

-----------------------------------------------------------------------------
(* The while loop of feed, in the same way: one round, and its function.    *)
EventOf(b) == SubSeq(b, 1, find_event_boundary(b)[1] - 1)

Rest(b) == SubSeq(b, find_event_boundary(b)[2], Len(b))

AfterOne(s) ==
  Scanner(Rest(s.buf), UsageAfter(EventOf(s.buf), s.last_usage),
          DoneAfter(EventOf(s.buf), s.saw_done))

Drains(g) ==
  g = [s \in Scanners |-> LET at == find_event_boundary(s.buf)
                          IN  IF at = NoBoundary THEN s
                              ELSE g[process_event(
                                       [s EXCEPT !.buf = SubSeq(s.buf, at[2], Len(s.buf))],
                                       SubSeq(s.buf, 1, at[1] - 1))]]

drainer == CHOOSE g: Drains(g)

LEMMA DrainIsChosen ==
  ASSUME NEW s
  PROVE  Drain(s) = drainer[s]
BY DEF Drain, drainer, Drains, Scanners

LEMMA ProcessOne ==
  ASSUME NEW s \in Scanners
  PROVE  LET at == find_event_boundary(s.buf)
         IN  process_event([s EXCEPT !.buf = SubSeq(s.buf, at[2], Len(s.buf))],
                           SubSeq(s.buf, 1, at[1] - 1)) = AfterOne(s)
<1>1. PICK r: r = Rest(s.buf)
  OBVIOUS
<1>2. [s EXCEPT !.buf = r] = Scanner(r, s.last_usage, s.saw_done) /\ s.saw_done \in BOOLEAN
  BY DEF Scanner, Scanners
<1>3. process_event(Scanner(r, s.last_usage, s.saw_done), EventOf(s.buf)) = AfterOne(s)
  BY <1>1, <1>2, ProcessScanner DEF AfterOne
<1> QED BY <1>1, <1>2, <1>3 DEF Rest, EventOf

LEMMA RestIs ==
  ASSUME NEW b \in Seq(Byte), find_event_boundary(b) # NoBoundary
  PROVE  /\ Rest(b) \in Seq(Byte) /\ Len(Rest(b)) < Len(b)
         /\ EventOf(b) \in Seq(Byte)
         /\ \E p \in Seq(Byte): b = p \o Rest(b)
<1>1. PICK j \in 1..Len(b), l1 \in {1, 2}, l2 \in {1, 2}:
        find_event_boundary(b) = <<j, j + l1 + l2>> /\ j + l1 + l2 <= Len(b) + 1
  BY BoundaryFinds DEF Found
<1>2. PICK k \in 2..Len(b) + 1: k = j + l1 + l2 /\ find_event_boundary(b)[2] = k
  BY <1>1
<1>3. Len(b) \in Nat /\ find_event_boundary(b)[1] = j
  BY <1>1
<1>4. Rest(b) = SubSeq(b, k, Len(b)) /\ EventOf(b) = SubSeq(b, 1, j - 1)
  BY <1>2, <1>3 DEF Rest, EventOf
<1>5. /\ SubSeq(b, k, Len(b)) \in Seq(Byte)
      /\ Len(SubSeq(b, k, Len(b))) = Len(b) + 1 - k
      /\ SubSeq(b, 1, j - 1) \in Seq(Byte) /\ SubSeq(b, 1, k - 1) \in Seq(Byte)
  BY <1>2, <1>3
<1>6. b = SubSeq(b, 1, k - 1) \o SubSeq(b, k, Len(b))
  <2>1. /\ 1 \in 1..Len(b) + 1 /\ k - 1 \in 1 - 1..Len(b) /\ Len(b) \in k - 1..Len(b)
        /\ (k - 1) + 1 = k
    BY <1>2, <1>3
  <2>2. SubSeq(b, 1, k - 1) \o SubSeq(b, (k - 1) + 1, Len(b)) = SubSeq(b, 1, Len(b))
    BY <2>1, ConcatAdjacentSubSeq
  <2> QED BY <2>1, <2>2, SubSeqFull
<1>7. Rest(b) \in Seq(Byte) /\ Len(Rest(b)) < Len(b) /\ EventOf(b) \in Seq(Byte)
  BY <1>2, <1>3, <1>4, <1>5
<1>8. \E p \in Seq(Byte): b = p \o Rest(b)
  <2>1. PICK p \in Seq(Byte): p = SubSeq(b, 1, k - 1)
    BY <1>5
  <2>2. b = p \o Rest(b)
    BY <1>4, <1>6, <2>1
  <2> QED BY <2>2
<1> QED BY <1>7, <1>8

LEMMA AfterOneType ==
  ASSUME NEW s \in Scanners, find_event_boundary(s.buf) # NoBoundary
  PROVE  AfterOne(s) \in Scanners /\ Len(AfterOne(s).buf) < Len(s.buf)
<1>1. /\ s.buf \in Seq(Byte) /\ s.last_usage \in Byte \cup Usages \cup {NoUsage}
      /\ s.saw_done \in BOOLEAN
  BY DEF Scanners
<1>2. Rest(s.buf) \in Seq(Byte) /\ Len(Rest(s.buf)) < Len(s.buf)
  BY <1>1, RestIs
<1>3. UsageAfter(EventOf(s.buf), s.last_usage) \in Byte \cup Usages \cup {NoUsage}
  BY <1>1, AfterTypes DEF Byte
<1>4. DoneAfter(EventOf(s.buf), s.saw_done) \in BOOLEAN
  BY <1>1, AfterTypes
<1>5. AfterOne(s) \in Scanners
  BY <1>2, <1>3, <1>4, ScannersAre DEF AfterOne
<1>6. AfterOne(s).buf = Rest(s.buf)
  BY ScannersAre DEF AfterOne
<1> QED BY <1>2, <1>5, <1>6

LEMMA DrainExists == \E g \in [Scanners -> Scanners]: Drains(g)
<1> DEFINE Body(s, g) == IF find_event_boundary(s.buf) = NoBoundary THEN s ELSE g[AfterOne(s)]
           F == [s \in Scanners |-> [g \in [Scanners -> Scanners] |-> Body(s, g)]]
           mu == [s \in Scanners |-> Len(s.buf)]
<1>1. ASSUME NEW s \in Scanners, NEW g \in [Scanners -> Scanners] PROVE Body(s, g) \in Scanners
  BY AfterOneType
<1>2. F \in [Scanners -> [[Scanners -> Scanners] -> Scanners]]
      /\ \A s \in Scanners: \A g \in [Scanners -> Scanners]: F[s][g] = Body(s, g)
  <2> HIDE DEF Body
  <2> QED BY <1>1
<1>3. mu \in [Scanners -> Nat] /\ \A s \in Scanners: mu[s] = Len(s.buf)
  <2>1. \A s \in Scanners: Len(s.buf) \in Nat
    <3> SUFFICES ASSUME NEW s \in Scanners PROVE Len(s.buf) \in Nat
      OBVIOUS
    <3>1. s.buf \in Seq(Byte)
      BY DEF Scanners
    <3> QED BY <3>1
  <2> QED BY <2>1
<1>4. ASSUME NEW s \in Scanners, NEW g \in [Scanners -> Scanners],
             NEW h \in [Scanners -> Scanners],
             \A t \in Scanners: mu[t] < mu[s] => g[t] = h[t]
      PROVE  F[s][g] = F[s][h]
  <2>1. CASE find_event_boundary(s.buf) # NoBoundary
    <3>1. AfterOne(s) \in Scanners /\ mu[AfterOne(s)] < mu[s]
      BY <1>3, <2>1, AfterOneType
    <3>2. g[AfterOne(s)] = h[AfterOne(s)]
      BY <1>4, <3>1
    <3> QED BY <1>2, <3>2
  <2>2. CASE find_event_boundary(s.buf) = NoBoundary
    BY <1>2, <2>2
  <2> QED BY <2>1, <2>2
<1>5. Contracting(F, Scanners, Scanners, mu)
  <2> HIDE DEF F, mu, Body
  <2> QED BY <1>2, <1>3, <1>4 DEF Contracting
<1>6. Scanners # {}
  <2>1. Scanner(<<>>, NoUsage, FALSE) \in Scanners
    BY ScannersAre, EmptySeq
  <2> QED BY <2>1
<1>7. PICK g \in [Scanners -> Scanners]: g = [s \in Scanners |-> F[s][g]]
  <2> HIDE DEF F, mu
  <2> QED BY <1>5, <1>6, Recursion
<1>8. g = [s \in Scanners |-> Body(s, g)]
  <2> HIDE DEF F, Body
  <2> QED BY <1>2, <1>7
<1>9. g = [s \in Scanners |-> LET at == find_event_boundary(s.buf)
                              IN  IF at = NoBoundary THEN s
                                  ELSE g[process_event(
                                           [s EXCEPT !.buf = SubSeq(s.buf, at[2], Len(s.buf))],
                                           SubSeq(s.buf, 1, at[1] - 1))]]
  BY <1>8, ProcessOne
<1> QED BY <1>7, <1>9 DEF Drains

LEMMA DrainRound ==
  ASSUME NEW s \in Scanners
  PROVE  Drain(s) = IF find_event_boundary(s.buf) = NoBoundary THEN s
                       ELSE Drain(AfterOne(s))
<1>1. PICK g: g = drainer
  OBVIOUS
<1>2. Drains(g)
  BY <1>1, DrainExists DEF drainer
<1>3. g[s] = LET at == find_event_boundary(s.buf)
             IN  IF at = NoBoundary THEN s
                 ELSE g[process_event(
                          [s EXCEPT !.buf = SubSeq(s.buf, at[2], Len(s.buf))],
                          SubSeq(s.buf, 1, at[1] - 1))]
  BY <1>2 DEF Drains
<1>4. g[s] = IF find_event_boundary(s.buf) = NoBoundary THEN s ELSE g[AfterOne(s)]
  BY <1>3, ProcessOne
<1> QED BY <1>1, <1>4, DrainIsChosen

(* Scanners in the order of their buffers' lengths.                         *)
LEMMA ScannerInduction ==
  ASSUME NEW T,
         \A s \in Scanners: (\A t \in Scanners: Len(t.buf) < Len(s.buf) => t \in T) => s \in T
  PROVE  Scanners \subseteq T
<1> DEFINE U == {n \in Nat: \A s \in Scanners: Len(s.buf) = n => s \in T}
<1>0. ASSUME NEW s \in Scanners PROVE Len(s.buf) \in Nat
  <2>1. s.buf \in Seq(Byte)
    BY DEF Scanners
  <2> QED BY <2>1
<1>1. ASSUME NEW n \in Nat, \A m \in Nat: m < n => m \in U PROVE n \in U
  <2> SUFFICES ASSUME NEW s \in Scanners, Len(s.buf) = n PROVE s \in T
    OBVIOUS
  <2>1. \A t \in Scanners: Len(t.buf) < Len(s.buf) => t \in T
    BY <1>0, <1>1
  <2> QED BY <2>1
<1>2. Nat \subseteq U
  <2> HIDE DEF U
  <2> QED BY <1>1, Induction
<1> QED BY <1>0, <1>2

(* What the loop leaves: no complete event, the end of the bytes it had.    *)
Leaves(s, t) ==
  /\ t \in Scanners /\ find_event_boundary(t.buf) = NoBoundary
  /\ \E p \in Seq(Byte): s.buf = p \o t.buf
  /\ t.last_usage \in Usages \cup {s.last_usage}

LEMMA DrainLeaves == \A s \in Scanners: Leaves(s, Drain(s))
<1> DEFINE T == {s \in Scanners: Leaves(s, Drain(s))}
<1>1. ASSUME NEW s \in Scanners, \A t \in Scanners: Len(t.buf) < Len(s.buf) => t \in T
      PROVE  s \in T
  <2> SUFFICES Leaves(s, Drain(s))
    OBVIOUS
  <2>0. s.buf \in Seq(Byte) /\ s.saw_done \in BOOLEAN
    BY DEF Scanners
  <2>1. CASE find_event_boundary(s.buf) = NoBoundary
    <3>1. Drain(s) = s
      BY <2>1, DrainRound
    <3>2. <<>> \in Seq(Byte) /\ s.buf = <<>> \o s.buf
      BY <2>0, EmptySeq, ConcatEmptySeq
    <3> QED BY <2>1, <3>1, <3>2 DEF Leaves
  <2>2. CASE find_event_boundary(s.buf) # NoBoundary
    <3>1. PICK a \in Scanners: a = AfterOne(s) /\ Len(a.buf) < Len(s.buf)
      BY <2>2, AfterOneType
    <3>2. Leaves(a, Drain(a)) /\ Drain(s) = Drain(a)
      BY <1>1, <2>2, <3>1, DrainRound
    <3>3. PICK t: t = Drain(a)
      OBVIOUS
    <3>4. PICK p \in Seq(Byte): a.buf = p \o t.buf
      BY <3>2, <3>3 DEF Leaves
    <3>10. a.buf = Rest(s.buf) /\ a.last_usage = UsageAfter(EventOf(s.buf), s.last_usage)
      BY <3>1, ScannersAre DEF AfterOne
    <3>5. PICK q \in Seq(Byte): s.buf = q \o a.buf
      <4>1. \E q \in Seq(Byte): s.buf = q \o Rest(s.buf)
        BY <2>0, <2>2, RestIs
      <4> QED BY <3>10, <4>1
    <3>6. t.buf \in Seq(Byte)
      BY <3>2, <3>3 DEF Leaves, Scanners
    <3>7. q \o p \in Seq(Byte) /\ q \o (p \o t.buf) = (q \o p) \o t.buf
      <4>1. PICK z \in Seq(Byte): z = t.buf
        BY <3>6
      <4>2. q \o (p \o z) = (q \o p) \o z
        <5> HIDE DEF T
        <5> QED BY ConcatAssoc, SMTT(30)
      <4>3. q \o p \in Seq(Byte)
        OBVIOUS
      <4> QED BY <4>1, <4>2, <4>3
    <3>8. s.buf = (q \o p) \o t.buf
      BY <3>4, <3>5, <3>7
    <3>9. a.last_usage \in Usages \cup {s.last_usage}
      BY <2>0, <3>10, AfterTypes
    <3> QED BY <3>2, <3>3, <3>7, <3>8, <3>9 DEF Leaves
  <2> QED BY <2>1, <2>2
<1>2. Scanners \subseteq T
  <2> HIDE DEF T
  <2> QED BY <1>1, ScannerInduction
<1> QED BY <1>2

LEMMA SubSeqFrom ==
  ASSUME NEW E, NEW b \in Seq(E), NEW k \in 1..Len(b) + 1, NEW p, p = SubSeq(b, k, Len(b))
  PROVE  /\ p \in Seq(E) /\ Len(p) = Len(b) + 1 - k
         /\ \A i \in 1..Len(p): p[i] = b[k + i - 1]
OBVIOUS

LEMMA ScannerFields ==
  ASSUME NEW b, NEW u, NEW d
  PROVE  /\ Scanner(b, u, d).buf = b /\ Scanner(b, u, d).last_usage = u
         /\ Scanner(b, u, d).saw_done = d
BY DEF Scanner

(* More bytes behind a complete event change nothing about it.              *)
LEMMA RestMore ==
  ASSUME NEW b \in Seq(Byte), NEW c \in Seq(Byte), find_event_boundary(b) # NoBoundary
  PROVE  /\ find_event_boundary(b \o c) # NoBoundary
         /\ EventOf(b \o c) = EventOf(b) /\ Rest(b \o c) = Rest(b) \o c
<1>1. PICK j \in 1..Len(b), l1 \in {1, 2}, l2 \in {1, 2}:
        find_event_boundary(b) = <<j, j + l1 + l2>> /\ j + l1 + l2 <= Len(b) + 1
  BY BoundaryFinds DEF Found
<1>2. PICK k \in 2..Len(b) + 1: k = j + l1 + l2 /\ find_event_boundary(b)[2] = k
  BY <1>1
<1>3. Len(b) \in Nat /\ find_event_boundary(b)[1] = j
  BY <1>1
<1>4. PICK d: d = b \o c
  OBVIOUS
<1>5. /\ d \in Seq(Byte) /\ Len(d) = Len(b) + Len(c) /\ Len(c) \in Nat
      /\ \A i \in 1..Len(b): d[i] = b[i]
      /\ \A i \in 1..Len(c): d[Len(b) + i] = c[i]
  BY <1>4
<1>6. find_event_boundary(d) = find_event_boundary(b)
  BY <1>4, BoundaryStays
<1>7. /\ EventOf(d) = SubSeq(d, 1, j - 1) /\ EventOf(b) = SubSeq(b, 1, j - 1)
      /\ Rest(d) = SubSeq(d, k, Len(d)) /\ Rest(b) = SubSeq(b, k, Len(b))
  BY <1>2, <1>3, <1>6 DEF EventOf, Rest
<1>8. SubSeq(d, 1, j - 1) = SubSeq(b, 1, j - 1)
  <2>1. PICK p, q: p = SubSeq(d, 1, j - 1) /\ q = SubSeq(b, 1, j - 1)
    OBVIOUS
  <2>2. p \in Seq(Byte) /\ q \in Seq(Byte) /\ Len(p) = j - 1 /\ Len(q) = j - 1
    BY <1>3, <1>5, <2>1
  <2>3. \A i \in 1..j - 1: p[i] = d[i] /\ q[i] = b[i] /\ d[i] = b[i]
    BY <1>3, <1>5, <2>1
  <2>4. p = q
    BY <2>2, <2>3, SeqEqual
  <2> QED BY <2>1, <2>4
<1>9. SubSeq(d, k, Len(d)) = SubSeq(b, k, Len(b)) \o c
  <2>0. PICK p: p = SubSeq(d, k, Len(d))
    OBVIOUS
  <2>1. PICK q: q = SubSeq(b, k, Len(b))
    OBVIOUS
  <2>2. /\ p \in Seq(Byte) /\ Len(p) = Len(d) + 1 - k
        /\ \A i \in 1..Len(p): p[i] = d[k + i - 1]
    <3>1. k \in 1..Len(d) + 1 /\ d \in Seq(Byte)
      BY <1>2, <1>3, <1>5
    <3> QED BY <2>0, <3>1, SubSeqFrom
  <2>3. /\ q \in Seq(Byte) /\ Len(q) = Len(b) + 1 - k
        /\ \A i \in 1..Len(q): q[i] = b[k + i - 1]
    BY <1>2, <1>3, <2>1
  <2>4. Len(p) = Len(q) + Len(c)
    BY <1>2, <1>3, <1>5, <2>2, <2>3
  <2>5. ASSUME NEW i \in 1..Len(q) PROVE p[i] = q[i]
    <3>1. k + i - 1 \in 1..Len(b) /\ i \in 1..Len(p)
      BY <1>2, <1>3, <1>5, <2>2, <2>3
    <3> QED BY <1>5, <2>2, <2>3, <3>1
  <2>6. ASSUME NEW i \in 1..Len(c) PROVE p[Len(q) + i] = c[i]
    <3>1. Len(q) + i \in 1..Len(p) /\ k + (Len(q) + i) - 1 = Len(b) + i
      BY <1>2, <1>3, <1>5, <2>2, <2>3
    <3>2. p[Len(q) + i] = d[k + (Len(q) + i) - 1]
      BY <2>2, <3>1
    <3> QED BY <1>5, <3>1, <3>2
  <2>7. p = q \o c
    BY <2>2, <2>3, <2>4, <2>5, <2>6, ConcatIs
  <2> QED BY <2>0, <2>1, <2>7
<1>10. EventOf(d) = EventOf(b) /\ Rest(d) = Rest(b) \o c
  BY <1>7, <1>8, <1>9
<1> QED BY <1>4, <1>6, <1>10

(* A scanner with more bytes in its buffer.                                 *)
More(s, c) == Scanner(s.buf \o c, s.last_usage, s.saw_done)

LEMMA MoreType ==
  ASSUME NEW s \in Scanners, NEW c \in Seq(Byte)
  PROVE  More(s, c) \in Scanners /\ More(s, c).buf = s.buf \o c
<1>1. /\ s.buf \in Seq(Byte) /\ s.last_usage \in Byte \cup Usages \cup {NoUsage}
      /\ s.saw_done \in BOOLEAN
  BY DEF Scanners
<1>2. s.buf \o c \in Seq(Byte)
  <2>1. PICK b \in Seq(Byte): b = s.buf
    BY <1>1
  <2>2. b \o c \in Seq(Byte)
    OBVIOUS
  <2> QED BY <2>1, <2>2
<1>3. PICK x \in Seq(Byte): x = s.buf \o c
  BY <1>2
<1>4. More(s, c) = Scanner(x, s.last_usage, s.saw_done)
  BY <1>3 DEF More
<1>5. More(s, c) \in Scanners
  BY <1>1, <1>4, ScannerType
<1>6. More(s, c).buf = x
  BY <1>4, ScannerFields
<1> QED BY <1>3, <1>5, <1>6

LEMMA AfterOneMore ==
  ASSUME NEW s \in Scanners, NEW c \in Seq(Byte), find_event_boundary(s.buf) # NoBoundary
  PROVE  AfterOne(More(s, c)) = More(AfterOne(s), c)
<1>1. PICK b \in Seq(Byte): b = s.buf
  BY DEF Scanners
<1>2. EventOf(b \o c) = EventOf(b) /\ Rest(b \o c) = Rest(b) \o c
  BY <1>1, RestMore
<1>3. PICK m, a: m = More(s, c) /\ a = AfterOne(s)
  OBVIOUS
<1>8. PICK x: x = b \o c
  OBVIOUS
<1>9. m = Scanner(x, s.last_usage, s.saw_done)
  BY <1>1, <1>3, <1>8 DEF More
<1>4. m.buf = b \o c /\ m.last_usage = s.last_usage /\ m.saw_done = s.saw_done
  BY <1>8, <1>9 DEF Scanner
<1>5. /\ a.buf = Rest(b) /\ a.last_usage = UsageAfter(EventOf(b), s.last_usage)
      /\ a.saw_done = DoneAfter(EventOf(b), s.saw_done)
  BY <1>1, <1>3, ScannerFields DEF AfterOne
<1>6. AfterOne(m) = Scanner(Rest(b) \o c, UsageAfter(EventOf(b), s.last_usage),
                            DoneAfter(EventOf(b), s.saw_done))
  BY <1>2, <1>4 DEF AfterOne
<1>7. More(a, c) = Scanner(Rest(b) \o c, UsageAfter(EventOf(b), s.last_usage),
                           DoneAfter(EventOf(b), s.saw_done))
  BY <1>5 DEF More
<1> QED BY <1>3, <1>6, <1>7

(* Draining what there is and then what there is with more comes to the     *)
(* same as draining it all at once.                                         *)
LEMMA DrainMore ==
  ASSUME NEW c \in Seq(Byte)
  PROVE  \A s \in Scanners: Drain(More(s, c)) = Drain(More(Drain(s), c))
<1> DEFINE T == {s \in Scanners: Drain(More(s, c)) = Drain(More(Drain(s), c))}
<1>1. ASSUME NEW s \in Scanners, \A t \in Scanners: Len(t.buf) < Len(s.buf) => t \in T
      PROVE  s \in T
  <2> SUFFICES Drain(More(s, c)) = Drain(More(Drain(s), c))
    OBVIOUS
  <2>1. CASE find_event_boundary(s.buf) = NoBoundary
    BY <2>1, DrainRound
  <2>2. CASE find_event_boundary(s.buf) # NoBoundary
    <3>1. PICK a \in Scanners: a = AfterOne(s) /\ Len(a.buf) < Len(s.buf)
      BY <2>2, AfterOneType
    <3>2. Drain(More(a, c)) = Drain(More(Drain(a), c))
      BY <1>1, <3>1
    <3>3. Drain(s) = Drain(a)
      BY <2>2, <3>1, DrainRound
    <3>4. PICK m \in Scanners: m = More(s, c) /\ m.buf = s.buf \o c
      BY MoreType
    <3>5. find_event_boundary(m.buf) # NoBoundary
      <4>1. PICK b \in Seq(Byte): b = s.buf
        BY DEF Scanners
      <4>2. find_event_boundary(b \o c) # NoBoundary
        BY <2>2, <4>1, RestMore
      <4> QED BY <3>4, <4>1, <4>2
    <3>6. Drain(m) = Drain(AfterOne(m))
      BY <3>5, DrainRound
    <3>7. AfterOne(m) = More(a, c)
      BY <2>2, <3>1, <3>4, AfterOneMore
    <3> QED BY <3>2, <3>3, <3>4, <3>6, <3>7
  <2> QED BY <2>1, <2>2
<1>2. Scanners \subseteq T
  <2> HIDE DEF T
  <2> QED BY <1>1, ScannerInduction
<1> QED BY <1>2

-----------------------------------------------------------------------------
LEMMA EndIsSuffix ==
  ASSUME NEW E, NEW p \in Seq(E), NEW b \in Seq(E), NEW t, t = p \o b
  PROVE  IsSuffix(b, t)
<1>1. t \in Seq(E) /\ Len(t) = Len(p) + Len(b) /\ Len(p) \in Nat /\ Len(b) \in Nat
  OBVIOUS
<1>2. PICK n \in Nat, m \in Nat: n = Len(b) /\ m = Len(t) /\ m = Len(p) + n /\ n <= m
  BY <1>1
<1>3. PICK r, q: r = Reverse(b) /\ q = Reverse(t)
  OBVIOUS
<1>4. r \in [1..n -> E] /\ \A i \in 1..n: r[i] = b[(n - i) + 1]
  <2>1. \A i \in 1..n: (n - i) + 1 \in 1..n /\ b[(n - i) + 1] \in E
    BY <1>2
  <2>2. r = [i \in 1..n |-> b[(n - i) + 1]]
    BY <1>2, <1>3 DEF Reverse
  <2> QED BY <2>1, <2>2
<1>5. q \in [1..m -> E] /\ \A i \in 1..m: q[i] = t[(m - i) + 1]
  <2>1. \A i \in 1..m: (m - i) + 1 \in 1..m /\ t[(m - i) + 1] \in E
    BY <1>1, <1>2
  <2>2. q = [i \in 1..m |-> t[(m - i) + 1]]
    BY <1>2, <1>3 DEF Reverse
  <2> QED BY <2>1, <2>2
<1>6. r \in Seq(E) /\ Len(r) = n /\ q \in Seq(E) /\ Len(q) = m
  BY <1>4, <1>5, FunctionIsSeq
<1>7. ASSUME NEW i \in 1..n PROVE r[i] = q[i]
  <2>1. i \in 1..m /\ (n - i) + 1 \in 1..n /\ (m - i) + 1 = Len(p) + ((n - i) + 1)
    BY <1>1, <1>2
  <2>2. t[Len(p) + ((n - i) + 1)] = b[(n - i) + 1]
    BY <1>1, <1>2, <2>1
  <2> QED BY <1>4, <1>5, <2>1, <2>2
<1>8. PICK x, y: x = SubSeq(r, 1, n) /\ y = SubSeq(q, 1, n)
  OBVIOUS
<1>9. x \in Seq(E) /\ y \in Seq(E) /\ Len(x) = n /\ Len(y) = n
  BY <1>2, <1>6, <1>8
<1>10. \A i \in 1..n: x[i] = y[i]
  BY <1>2, <1>6, <1>7, <1>8
<1>11. x = y
  BY <1>9, <1>10, SeqEqual
<1> QED BY <1>2, <1>3, <1>6, <1>8, <1>11 DEF IsSuffix, IsPrefix

(* The scanner is what one chunk with the whole stream would have made of   *)
(* it, wherever the stream was cut.                                         *)
AsIfAtOnce ==
  ~overflowed => Scanner(buf, last_usage, saw_done) = Drain(Scanner(fed, NoUsage, FALSE))

StreamInv ==
  /\ ScannerTypeOK /\ AsIfAtOnce
  /\ Len(buf) <= MaxEventBuffer

LEMMA FreshScanner ==
  ASSUME NEW b \in Seq(Byte)
  PROVE  Scanner(b, NoUsage, FALSE) \in Scanners /\ Scanner(b, NoUsage, FALSE).buf = b
<1>1. NoUsage \in Byte \cup Usages \cup {NoUsage} /\ FALSE \in BOOLEAN
  OBVIOUS
<1>2. Scanner(b, NoUsage, FALSE) \in Scanners
  BY <1>1, ScannerType
<1> QED BY <1>2 DEF Scanner

LEMMA StreamInit == ScannerInit => StreamInv
<1> SUFFICES ASSUME ScannerInit PROVE StreamInv
  OBVIOUS
<1>1. <<>> \in Seq(Byte) /\ Len(<<>>) = 0
  BY EmptySeq
<1>2. PICK s \in Scanners: s = Scanner(<<>>, NoUsage, FALSE) /\ s.buf = <<>>
  BY <1>1, FreshScanner
<1>3. find_event_boundary(s.buf) = NoBoundary
  <2>1. \A j: ~(j \in 1..Len(<<>>))
    BY <1>1
  <2> QED BY <1>1, <1>2, <2>1, BoundaryFinds DEF Found
<1>4. Drain(s) = s
  BY <1>3, DrainRound
<1>5. ScannerTypeOK
  BY <1>1 DEF ScannerInit, ScannerTypeOK
<1>6. Len(buf) <= MaxEventBuffer
  <2>1. buf = <<>> /\ MaxEventBuffer \in Nat
    BY ScannerAssumption DEF ScannerInit
  <2> QED BY <1>1, <2>1
<1> QED BY <1>2, <1>4, <1>5, <1>6 DEF ScannerInit, AsIfAtOnce, StreamInv

LEMMA StreamNext == StreamInv /\ [ScannerNext]_scannerVars => StreamInv'
<1> SUFFICES ASSUME StreamInv, [ScannerNext]_scannerVars PROVE StreamInv'
  OBVIOUS
<1>1. CASE UNCHANGED scannerVars
  BY <1>1 DEF StreamInv, ScannerTypeOK, AsIfAtOnce, scannerVars
<1>2. ASSUME NEW chunk \in Chunks, feed(chunk) PROVE StreamInv'
  <2>0. ScannerTypeOK /\ chunk \in Seq(Byte) /\ MaxEventBuffer \in Nat
    BY ScannerAssumption DEF StreamInv
  <2>1. fed' = fed \o chunk /\ fed' \in Seq(Byte)
    BY <1>2, <2>0 DEF feed, ScannerTypeOK
  <2>2. CASE overflowed
    BY <1>2, <2>0, <2>1, <2>2 DEF feed, StreamInv, ScannerTypeOK, AsIfAtOnce
  <2>3. CASE ~overflowed
    <3>1. PICK m: m = Scanner(buf \o chunk, last_usage, saw_done)
      OBVIOUS
    <3>2. PICK s: s = Drain(m)
      OBVIOUS
    <3>3. /\ last_usage' = s.last_usage /\ saw_done' = s.saw_done
          /\ overflowed' = (Len(s.buf) > MaxEventBuffer)
          /\ buf' = IF overflowed' THEN <<>> ELSE s.buf
      BY <1>2, <2>3, <3>1, <3>2 DEF feed, Scanner
    <3>4. PICK c \in Scanners: c = Scanner(buf, last_usage, saw_done)
      BY <2>0, ScannersAre DEF ScannerTypeOK, Byte
    <3>5. PICK f \in Scanners: f = Scanner(fed, NoUsage, FALSE)
      BY <2>0, ScannersAre DEF ScannerTypeOK, Byte
    <3>6. c = Drain(f)
      BY <2>3, <3>4, <3>5 DEF StreamInv, AsIfAtOnce
    <3>7. m = More(c, chunk)
      BY <3>1, <3>4, ScannerFields DEF More
    <3>8. More(f, chunk) = Scanner(fed', NoUsage, FALSE)
      <4>1. f.buf = fed /\ f.last_usage = NoUsage /\ f.saw_done = FALSE
        BY <3>5 DEF Scanner
      <4>2. PICK x: x = fed \o chunk /\ fed' = x
        BY <2>1
      <4>3. f.buf \o chunk = x
        BY <4>1, <4>2
      <4> QED BY <4>1, <4>2, <4>3 DEF More
    <3>9. s = Drain(Scanner(fed', NoUsage, FALSE))
      BY <2>0, <3>2, <3>6, <3>7, <3>8, DrainMore
    <3>10. m \in Scanners /\ m.last_usage = last_usage
      <4>1. m \in Scanners
        BY <2>0, <3>7, MoreType
      <4> QED BY <3>1, <4>1, ScannerFields
    <3>11. s \in Scanners /\ s.last_usage \in Usages \cup {last_usage}
      BY <3>2, <3>10, DrainLeaves DEF Leaves
    <3>12. /\ s = Scanner(s.buf, s.last_usage, s.saw_done)
           /\ s.buf \in Seq(Byte) /\ s.saw_done \in BOOLEAN
      BY <3>11, ScannersAre
    <3>13. ScannerTypeOK'
      BY <2>0, <2>1, <3>3, <3>11, <3>12, EmptySeq DEF ScannerTypeOK
    <3>14. Len(buf') <= MaxEventBuffer
      <4>1. CASE Len(s.buf) > MaxEventBuffer
        <5>1. buf' = <<>> /\ Len(<<>>) = 0
          BY <3>3, <4>1, EmptySeq
        <5> QED BY <2>0, <5>1
      <4>2. CASE ~(Len(s.buf) > MaxEventBuffer)
        <5>1. buf' = s.buf
          BY <3>3, <4>2
        <5>2. Len(s.buf) \in Nat
          BY <3>12
        <5> QED BY <2>0, <4>2, <5>1, <5>2
      <4> QED BY <4>1, <4>2
    <3>15. AsIfAtOnce'
      BY <3>3, <3>9, <3>12 DEF AsIfAtOnce
    <3> QED BY <3>13, <3>14, <3>15 DEF StreamInv
  <2> QED BY <2>2, <2>3
<1> QED BY <1>1, <1>2 DEF ScannerNext

LEMMA StreamAlways == ScannerSpec => []StreamInv
BY StreamInit, StreamNext, PTL DEF ScannerSpec

(* However a stream is cut, UsageScanner's fields stay well typed: what feed*)
(* takes for the last usage is a usage object of the stream, never other    *)
(* text.                                                                    *)
THEOREM ScannerTypeCorrect == ScannerSpec => []ScannerTypeOK
<1>1. StreamInv => ScannerTypeOK
  BY DEF StreamInv
<1> QED BY <1>1, StreamAlways, PTL

(* feed is insensitive to chunking: the buffer, the last usage and the      *)
(* [DONE] mark are those of a scanner that was fed the same bytes at once.  *)
THEOREM ChunksDoNotMatter == ScannerSpec => []AsIfAtOnce
<1>1. StreamInv => AsIfAtOnce
  BY DEF StreamInv
<1> QED BY <1>1, StreamAlways, PTL

(* Between two calls of feed the buffer holds at most MAX_EVENT_BUFFER      *)
(* bytes, the last ones of the stream, and no complete event among them.    *)
THEOREM BufferIsBounded == ScannerSpec => []BufferBounded
<1>1. StreamInv => BufferBounded
  <2> SUFFICES ASSUME StreamInv PROVE BufferBounded
    OBVIOUS
  <2>1. Len(buf) <= MaxEventBuffer
    BY DEF StreamInv
  <2>2. ASSUME ~overflowed
        PROVE  IsSuffix(buf, fed) /\ find_event_boundary(buf) = NoBoundary
    <3>1. PICK f \in Scanners: f = Scanner(fed, NoUsage, FALSE) /\ f.buf = fed
      BY FreshScanner DEF StreamInv, ScannerTypeOK
    <3>2. PICK c: c = Scanner(buf, last_usage, saw_done) /\ c.buf = buf
      BY ScannerFields
    <3>3. Leaves(f, c)
      BY <2>2, <3>1, <3>2, DrainLeaves DEF StreamInv, AsIfAtOnce
    <3>4. PICK p \in Seq(Byte): fed = p \o buf
      BY <3>1, <3>2, <3>3 DEF Leaves
    <3>5. buf \in Seq(Byte)
      BY DEF StreamInv, ScannerTypeOK
    <3> QED BY <3>2, <3>3, <3>4, <3>5, EndIsSuffix DEF Leaves
  <2> QED BY <2>1, <2>2 DEF BufferBounded
<1> QED BY <1>1, StreamAlways, PTL
-----------------------------------------------------------------------------
(* The positions of a stream at which its lines end, against the            *)
(* terminators that the scanner reads. A position is clean unless it is the *)
(* second half of a CR LF.                                                  *)
Clean(s, i) == ~(i \in 2..Len(s) /\ s[i - 1] = CR /\ s[i] = LF)

(* A complete terminator.                                                   *)
Ends(s, i, l) ==
  /\ l \in {1, 2} /\ i + l <= Len(s) + 1
  /\ \/ l = 1 /\ s[i] = LF
     \/ l = 1 /\ s[i] = CR /\ i < Len(s) /\ s[i + 1] # LF
     \/ l = 2 /\ s[i] = CR /\ i < Len(s) /\ s[i + 1] = LF

LEMMA TermEnds ==
  ASSUME NEW s \in Seq(Byte), NEW i \in 1..Len(s)
  PROVE  /\ term_at(s, i) > 0 => Ends(s, i, term_at(s, i))
         /\ \A l \in {1, 2}: Ends(s, i, l) => term_at(s, i) = l
         /\ term_at(s, i) = 0 <=> s[i] \notin {LF, CR}
         /\ term_at(s, i) = -1 => i = Len(s)
<1>1. LF # CR /\ Len(s) \in Nat
  BY DEF LF, CR
<1>2. term_at(s, i) = IF s[i] = LF THEN 1
                      ELSE IF s[i] = CR
                           THEN IF i = Len(s) THEN -1 ELSE IF s[i + 1] = LF THEN 2 ELSE 1
                      ELSE 0
  <2>1. ~(i > Len(s))
    BY <1>1
  <2> QED BY <2>1, TermIs
<1>3. term_at(s, i) > 0 => Ends(s, i, term_at(s, i))
  BY <1>1, <1>2 DEF Ends
<1>4. ASSUME NEW l \in {1, 2}, Ends(s, i, l) PROVE term_at(s, i) = l
  BY <1>1, <1>2, <1>4 DEF Ends
<1>5. term_at(s, i) = 0 <=> s[i] \notin {LF, CR}
  BY <1>1, <1>2
<1>6. term_at(s, i) = -1 => i = Len(s)
  BY <1>1, <1>2
<1> QED BY <1>3, <1>4, <1>5, <1>6

(* What follows a terminator, or a byte of text, is clean; and a terminator *)
(* left of a clean position ends before it.                                 *)
LEMMA CleanAfter ==
  ASSUME NEW s \in Seq(Byte), NEW i \in 1..Len(s)
  PROVE  /\ \A l \in {1, 2}: Ends(s, i, l) => Clean(s, i + l)
         /\ s[i] # CR => Clean(s, i + 1)
         /\ \A l \in {1, 2}, x \in Nat: Ends(s, i, l) /\ Clean(s, x) /\ i < x => i + l <= x
<1>1. LF # CR /\ Len(s) \in Nat
  BY DEF LF, CR
<1>2. ASSUME NEW l \in {1, 2}, Ends(s, i, l) PROVE Clean(s, i + l)
  <2>1. CASE l = 1
    BY <1>1, <1>2, <2>1 DEF Ends, Clean
  <2>2. CASE l = 2
    <3>1. (i + l) - 1 = i + 1 /\ s[i + 1] = LF
      BY <1>1, <1>2, <2>2 DEF Ends
    <3> QED BY <1>1, <3>1 DEF Clean
  <2> QED BY <2>1, <2>2
<1>3. s[i] # CR => Clean(s, i + 1)
  BY <1>1 DEF Clean
<1>4. ASSUME NEW l \in {1, 2}, NEW x \in Nat, Ends(s, i, l), Clean(s, x), i < x
      PROVE  i + l <= x
  <2>1. CASE l = 1
    BY <1>4, <2>1
  <2>2. CASE l = 2 /\ x = i + 1
    <3>1. s[i] = CR /\ s[i + 1] = LF /\ i < Len(s)
      BY <1>1, <1>4, <2>2 DEF Ends
    <3>2. x \in 2..Len(s) /\ x - 1 = i
      BY <1>1, <2>2, <3>1
    <3> QED BY <1>4, <2>2, <3>1, <3>2 DEF Clean
  <2> QED BY <1>4, <2>1, <2>2
<1> QED BY <1>2, <1>3, <1>4

LEMMA EndsLine ==
  ASSUME NEW s \in Seq(Byte), NEW i \in 1..Len(s), NEW l \in {1, 2}, Ends(s, i, l)
  PROVE  i + l - 1 \in LineEnds(s)
<1>1. LF # CR /\ Len(s) \in Nat
  BY DEF LF, CR
<1>2. CASE l = 1
  <2>1. i + l - 1 = i
    BY <1>2
  <2> QED BY <1>1, <1>2, <2>1 DEF Ends, LineEnds
<1>3. CASE l = 2
  <2>1. i + l - 1 = i + 1 /\ s[i + 1] = LF /\ i + 1 \in 1..Len(s)
    BY <1>1, <1>3 DEF Ends
  <2> QED BY <2>1 DEF LineEnds
<1> QED BY <1>2, <1>3

LEMMA LineEndIs ==
  ASSUME NEW s \in Seq(Byte), NEW p \in LineEnds(s)
  PROVE  \E x \in 1..Len(s), l \in {1, 2}: Ends(s, x, l) /\ Clean(s, x) /\ x + l = p + 1
<1>1. LF # CR /\ Len(s) \in Nat /\ p \in 1..Len(s)
  BY DEF LF, CR, LineEnds
<1>2. CASE s[p] = LF /\ ~Clean(s, p)
  <2>1. p - 1 \in 1..Len(s) /\ s[p - 1] = CR /\ (p - 1) + 1 = p
    BY <1>1, <1>2 DEF Clean
  <2>2. PICK x \in 1..Len(s): x = p - 1
    BY <2>1
  <2>3. s[x] = CR /\ s[x + 1] = LF /\ x < Len(s) /\ x + 2 = p + 1
    BY <1>1, <1>2, <2>1, <2>2
  <2>4. Ends(s, x, 2)
    BY <1>1, <2>3 DEF Ends
  <2>5. Clean(s, x)
    BY <1>1, <2>3 DEF Clean
  <2> QED BY <2>3, <2>4, <2>5
<1>3. CASE s[p] = LF /\ Clean(s, p)
  <2>1. Ends(s, p, 1)
    BY <1>1, <1>3 DEF Ends
  <2> QED BY <1>1, <1>3, <2>1
<1>4. CASE s[p] # LF
  <2>1. s[p] = CR /\ p < Len(s) /\ s[p + 1] # LF
    BY <1>4 DEF LineEnds
  <2>2. Ends(s, p, 1)
    BY <1>1, <2>1 DEF Ends
  <2>3. Clean(s, p)
    BY <1>4 DEF Clean
  <2> QED BY <1>1, <2>2, <2>3
<1> QED BY <1>2, <1>3, <1>4

(* Two terminators in a row are found, if none is found that ends before.   *)
LEMMA WalkFinds ==
  ASSUME NEW b \in Seq(Byte), NEW x \in 1..Len(b), NEW y \in 1..Len(b),
         NEW l \in {1, 2}, NEW m \in {1, 2},
         Clean(b, x), Ends(b, x, l), y = x + l, Ends(b, y, m)
  PROVE  \A i \in 1..Len(b) + 1:
           i <= x => search(b)[i] # NoBoundary /\ search(b)[i][2] <= y + m
<1> DEFINE T == {i \in 1..Len(b) + 1:
                   i <= x => search(b)[i] # NoBoundary /\ search(b)[i][2] <= y + m}
<1>0. PICK n \in Nat: n = Len(b)
  OBVIOUS
<1>1. ASSUME NEW i \in 1..n + 1, \A j \in 1..n + 1: j > i => j \in T PROVE i \in T
  <2> SUFFICES ASSUME i <= x PROVE search(b)[i] # NoBoundary /\ search(b)[i][2] <= y + m
    BY <1>0
  <2>0. \A j \in 1..n + 1:
          j > i /\ j <= x => search(b)[j] # NoBoundary /\ search(b)[j][2] <= y + m
    BY <1>1
  <2> HIDE DEF T
  <2>01. i \in 1..Len(b) /\ i \in Nat \ {0} /\ x \in 1..n /\ y \in 1..n
    BY <1>0
  <2>1. PICK l1 \in {-1, 0, 1, 2}: l1 = term_at(b, i)
    BY <2>01, TermRange
  <2>2. PICK l2: l2 = term_at(b, i + l1)
    OBVIOUS
  <2>3. /\ l1 = 0 /\ i <= n => i + 1 \in 1..n + 1
        /\ l1 > 0 => /\ l1 \in {1, 2} /\ i <= n /\ i + l1 \in 1..n + 1
                     /\ l2 \in {-1, 0, 1, 2}
                     /\ l2 > 0 => i + l1 <= n /\ i + l1 + l2 <= n + 1
    BY <1>0, <2>1, <2>2, Round1Reads
  <2>4. /\ i <= n /\ l1 = 0 => search(b)[i] = search(b)[i + 1]
        /\ l1 > 0 /\ l2 = 0 => search(b)[i] = search(b)[i + l1]
        /\ l1 > 0 /\ l2 > 0 => search(b)[i] = <<i, i + l1 + l2>>
    BY <1>0, <2>1, <2>2, SearchRound
  <2>5. /\ term_at(b, x) = l /\ term_at(b, y) = m
        /\ term_at(b, x) # 0 /\ term_at(b, x) # -1
    <3>1. term_at(b, x) = l /\ term_at(b, y) = m
      BY TermEnds
    <3>2. l # 0 /\ l # -1
      OBVIOUS
    <3> QED BY <3>1, <3>2
  <2>6. CASE l1 = 0
    <3>1. i # x
      BY <2>1, <2>5, <2>6
    <3> QED BY <1>0, <2>0, <2>01, <2>3, <2>4, <2>6, <3>1
  <2>7. CASE l1 = -1
    <3>1. i = n
      BY <1>0, <2>01, <2>1, <2>7, TermEnds
    <3>2. i = x
      BY <1>0, <2>01, <3>1
    <3> QED BY <2>1, <2>5, <2>7, <3>2
  <2>8. CASE l1 > 0 /\ i = x
    <3>1. l1 = l /\ l2 = m
      BY <2>1, <2>2, <2>5, <2>8
    <3>2. search(b)[i] = <<i, i + l1 + l2>>
      BY <2>4, <2>8, <3>1
    <3> QED BY <2>01, <2>8, <3>1, <3>2 DEF NoBoundary
  <2>9. CASE l1 > 0 /\ i < x
    <3>1. Ends(b, i, l1) /\ l1 \in {1, 2}
      BY <2>01, <2>1, <2>3, <2>9, TermEnds
    <3>2. i + l1 <= x /\ i + l1 \in 1..n
      BY <2>01, <2>9, <3>1, CleanAfter
    <3>3. PICK k \in 1..n: k = i + l1 /\ k <= x /\ k > i
      BY <3>1, <3>2
    <3>4. l2 \in {-1, 0, 1, 2} /\ l2 = term_at(b, k)
      BY <2>2, <2>3, <2>9, <3>3
    <3>5. CASE l2 = 0
      <4>1. search(b)[i] = search(b)[k]
        BY <2>4, <2>9, <3>3, <3>5
      <4> QED BY <2>0, <3>3, <4>1
    <3>6. CASE l2 = -1
      <4>1. k = n
        BY <1>0, <3>3, <3>4, <3>6, TermEnds
      <4>2. k = x
        BY <2>01, <3>3, <4>1
      <4> QED BY <2>5, <3>4, <3>6, <4>2
    <3>7. CASE l2 > 0
      <4>1. search(b)[i] = <<i, k + l2>>
        BY <2>4, <2>9, <3>3, <3>7
      <4>2. k + l2 <= y + m
        <5>1. CASE k = x
          <6>1. l2 = l
            BY <2>5, <3>4, <5>1
          <6> QED BY <2>01, <5>1, <6>1
        <5>2. CASE k < x
          <6>1. Ends(b, k, l2) /\ l2 \in {1, 2}
            BY <1>0, <3>3, <3>4, <3>7, TermEnds
          <6>2. k + l2 <= x
            BY <1>0, <2>01, <3>3, <5>2, <6>1, CleanAfter
          <6> QED BY <2>01, <3>3, <6>1, <6>2
        <5> QED BY <3>3, <5>1, <5>2
      <4> QED BY <4>1, <4>2 DEF NoBoundary
    <3> QED BY <3>4, <3>5, <3>6, <3>7
  <2> QED BY <2>01, <2>1, <2>6, <2>7, <2>8, <2>9
<1>2. 1..n + 1 \subseteq T
  <2> HIDE DEF T
  <2> QED BY <1>1, FromTheRight
<1> QED BY <1>0, <1>2

(* The text of an event ends with its last line's text: no terminator.      *)
LEMMA WalkStops ==
  ASSUME NEW b \in Seq(Byte)
  PROVE  \A i \in 1..Len(b) + 1:
           search(b)[i] # NoBoundary =>
             search(b)[i][1] = i \/ b[search(b)[i][1] - 1] \notin {LF, CR}
<1> DEFINE T == {i \in 1..Len(b) + 1: search(b)[i] # NoBoundary =>
                   search(b)[i][1] = i \/ b[search(b)[i][1] - 1] \notin {LF, CR}}
<1>0. PICK n \in Nat: n = Len(b)
  OBVIOUS
<1>1. ASSUME NEW i \in 1..n + 1, \A j \in 1..n + 1: j > i => j \in T PROVE i \in T
  <2> SUFFICES ASSUME search(b)[i] # NoBoundary
               PROVE search(b)[i][1] = i \/ b[search(b)[i][1] - 1] \notin {LF, CR}
    BY <1>0
  <2>0. \A j \in 1..n + 1: j > i /\ search(b)[j] # NoBoundary =>
             search(b)[j][1] = j \/ b[search(b)[j][1] - 1] \notin {LF, CR}
    BY <1>1
  <2> HIDE DEF T
  <2>1. PICK l1 \in {-1, 0, 1, 2}: l1 = term_at(b, i)
    BY TermRange
  <2>2. PICK l2: l2 = term_at(b, i + l1)
    OBVIOUS
  <2>3. /\ l1 = 0 /\ i <= n => i + 1 \in 1..n + 1
        /\ l1 > 0 => /\ l1 \in {1, 2} /\ i <= n /\ i + l1 \in 1..n + 1
                     /\ l2 \in {-1, 0, 1, 2}
                     /\ l2 > 0 => i + l1 <= n /\ i + l1 + l2 <= n + 1
    BY <1>0, <2>1, <2>2, Round1Reads
  <2>4. /\ i = n + 1 => search(b)[i] = NoBoundary
        /\ i <= n /\ l1 = 0 => search(b)[i] = search(b)[i + 1]
        /\ l1 = -1 => search(b)[i] = NoBoundary
        /\ l1 > 0 /\ l2 = 0 => search(b)[i] = search(b)[i + l1]
        /\ l1 > 0 /\ l2 = -1 => search(b)[i] = NoBoundary
        /\ l1 > 0 /\ l2 > 0 => search(b)[i] = <<i, i + l1 + l2>>
    BY <1>0, <2>1, <2>2, SearchRound
  <2>6. CASE l1 = 0 /\ i <= n
    <3>1. PICK k \in 1..n + 1: k = i + 1 /\ search(b)[i] = search(b)[k]
      BY <2>3, <2>4, <2>6
    <3>2. b[i] \notin {LF, CR} /\ k - 1 = i /\ k > i
      <4>1. i \in 1..Len(b) /\ term_at(b, i) = 0
        BY <1>0, <2>1, <2>6
      <4>2. b[i] \notin {LF, CR}
        BY <4>1, TermEnds
      <4> QED BY <3>1, <4>2
    <3>3. search(b)[k][1] = k \/ b[search(b)[k][1] - 1] \notin {LF, CR}
      BY <2>0, <3>1, <3>2
    <3> QED BY <3>1, <3>2, <3>3
  <2>7. CASE l1 > 0 /\ l2 = 0
    <3>1. PICK k \in 1..n + 1: k = i + l1 /\ k > i /\ search(b)[i] = search(b)[k]
      BY <2>3, <2>4, <2>7
    <3>2. search(b)[k][1] = k \/ b[search(b)[k][1] - 1] \notin {LF, CR}
      BY <2>0, <3>1
    <3>3. search(b)[k][1] # k
      <4>1. PICK j \in 1..Len(b), m1 \in {1, 2}, m2 \in {1, 2}:
              search(b)[k] = <<j, j + m1 + m2>> /\ m1 = term_at(b, j)
        BY <1>0, <3>1, SearchFinds DEF Found
      <4>2. term_at(b, k) = 0
        BY <2>2, <2>7, <3>1
      <4> QED BY <4>1, <4>2
    <3> QED BY <3>1, <3>2, <3>3
  <2>8. CASE l1 > 0 /\ l2 > 0
    BY <2>4, <2>8
  <2>9. CASE i = n + 1 \/ l1 = -1 \/ (l1 > 0 /\ l2 = -1)
    BY <2>4, <2>9
  <2> QED BY <2>1, <2>3, <2>6, <2>7, <2>8, <2>9
<1>2. 1..n + 1 \subseteq T
  <2> HIDE DEF T
  <2> QED BY <1>1, FromTheRight
<1> QED BY <1>0, <1>2
-----------------------------------------------------------------------------
(* The loop of process_event: a round of it, and its function.              *)
Datas == Seq(Seq(Byte))

Here(i, start, data) == [i |-> i, line_start |-> start, data |-> data]

Heres(e) == [i: 1..Len(e) + 1, line_start: 1..Len(e) + 1, data: Datas]

Collected(e, at) == collect_data_line(at.data, SubSeq(e, at.line_start, at.i - 1))

Round2(e, at, g) ==
  LET l == term_at(e, at.i)
  IN  IF l > 0 THEN g[Here(at.i + l, at.i + l, Collected(e, at))]
      ELSE IF at.i > Len(e) THEN Collected(e, at)
      ELSE g[Here(at.i + 1, at.line_start, at.data)]

Loops(e, g) == g = [at \in Heres(e) |-> Round2(e, at, g)]

looper(e) == CHOOSE g: Loops(e, g)

LEMMA EventDataIs ==
  ASSUME NEW e
  PROVE  event_data(e) = looper(e)[Here(1, 1, <<>>)]
BY DEF event_data, looper, Loops, Round2, Collected, Here, Heres, Datas

LEMMA HeresAre ==
  ASSUME NEW e \in Seq(Byte)
  PROVE  /\ \A i \in 1..Len(e) + 1, st \in 1..Len(e) + 1, d \in Datas: Here(i, st, d) \in Heres(e)
         /\ \A i, st, d: /\ Here(i, st, d).i = i /\ Here(i, st, d).line_start = st
                         /\ Here(i, st, d).data = d
         /\ \A at \in Heres(e): /\ at.i \in 1..Len(e) + 1 /\ at.line_start \in 1..Len(e) + 1
                                /\ at.data \in Datas
BY DEF Here, Heres

LEMMA CutType ==
  ASSUME NEW e \in Seq(Byte), NEW a \in 1..Len(e) + 1, NEW i \in 1..Len(e) + 1
  PROVE  SubSeq(e, a, i - 1) \in Seq(Byte)
<1>1. Len(e) \in Nat
  OBVIOUS
<1>2. \A q \in a..i - 1: q \in 1..Len(e)
  BY <1>1
<1> QED BY <1>1, <1>2

LEMMA CollectType ==
  ASSUME NEW d \in Datas, NEW line \in Seq(Byte)
  PROVE  collect_data_line(d, line) \in Datas
<1>1. CASE line = <<>> \/ Head(line) # "data:"
  BY <1>1 DEF collect_data_line
<1>2. CASE ~(line = <<>> \/ Head(line) # "data:")
  <2>1. PICK t \in Seq(Byte): t = Tail(line)
    BY <1>2, HeadTailProperties
  <2>2. CASE d = <<>>
    <3>1. collect_data_line(d, line) = <<t>>
      BY <1>2, <2>1, <2>2 DEF collect_data_line
    <3> QED BY <3>1 DEF Datas
  <2>3. CASE d # <<>>
    <3>1. PICK x \in Seq(Byte): x = d[1]
      BY <2>3 DEF Datas
    <3>2. LF \in Byte
      BY DEF Byte
    <3>3. x \o <<LF>> \in Seq(Byte)
      BY <3>2
    <3>4. PICK y \in Seq(Byte): y = x \o <<LF>>
      BY <3>3
    <3>5. y \o t \in Seq(Byte)
      OBVIOUS
    <3>6. collect_data_line(d, line) = <<y \o t>>
      BY <1>2, <2>1, <2>3, <3>1, <3>4 DEF collect_data_line
    <3> QED BY <3>5, <3>6 DEF Datas
  <2> QED BY <2>2, <2>3
<1> QED BY <1>1, <1>2

LEMMA CollectedType ==
  ASSUME NEW e \in Seq(Byte), NEW at \in Heres(e)
  PROVE  Collected(e, at) \in Datas
<1>1. at.i \in 1..Len(e) + 1 /\ at.line_start \in 1..Len(e) + 1 /\ at.data \in Datas
  BY HeresAre
<1>2. SubSeq(e, at.line_start, at.i - 1) \in Seq(Byte)
  BY <1>1, CutType
<1> QED BY <1>1, <1>2, CollectType DEF Collected

(* Where a round goes on, it goes on further right.                         *)
LEMMA Round2Reads ==
  ASSUME NEW e \in Seq(Byte), NEW at \in Heres(e)
  PROVE  LET l == term_at(e, at.i)
         IN  /\ l \in {-1, 0, 1, 2} /\ at.i \in Nat
             /\ l > 0 => Here(at.i + l, at.i + l, Collected(e, at)) \in Heres(e)
             /\ ~(at.i > Len(e)) => Here(at.i + 1, at.line_start, at.data) \in Heres(e)
<1>1. Len(e) \in Nat /\ at.i \in Nat \ {0} /\ at.i \in 1..Len(e) + 1
  BY HeresAre
<1>2. PICK l \in {-1, 0, 1, 2}: l = term_at(e, at.i) /\ (l > 0 => at.i + l <= Len(e) + 1)
  BY <1>1, TermRange
<1>3. at.line_start \in 1..Len(e) + 1 /\ at.data \in Datas /\ Collected(e, at) \in Datas
  BY HeresAre, CollectedType
<1>4. ASSUME l > 0 PROVE Here(at.i + l, at.i + l, Collected(e, at)) \in Heres(e)
  <2>1. at.i + l \in 1..Len(e) + 1
    BY <1>1, <1>2, <1>4
  <2> QED BY <1>3, <2>1, HeresAre
<1>5. ASSUME ~(at.i > Len(e)) PROVE Here(at.i + 1, at.line_start, at.data) \in Heres(e)
  <2>1. at.i + 1 \in 1..Len(e) + 1
    BY <1>1, <1>5
  <2> QED BY <1>3, <2>1, HeresAre
<1> QED BY <1>1, <1>2, <1>4, <1>5

LEMMA Round2Type ==
  ASSUME NEW e \in Seq(Byte), NEW at \in Heres(e), NEW g \in [Heres(e) -> Datas]
  PROVE  Round2(e, at, g) \in Datas
<1>1. PICK l: l = term_at(e, at.i)
  OBVIOUS
<1>2. /\ l > 0 => Here(at.i + l, at.i + l, Collected(e, at)) \in Heres(e)
      /\ ~(at.i > Len(e)) => Here(at.i + 1, at.line_start, at.data) \in Heres(e)
  BY <1>1, Round2Reads
<1>3. Round2(e, at, g) =
        IF l > 0 THEN g[Here(at.i + l, at.i + l, Collected(e, at))]
        ELSE IF at.i > Len(e) THEN Collected(e, at)
        ELSE g[Here(at.i + 1, at.line_start, at.data)]
  BY <1>1 DEF Round2
<1>4. CASE l > 0
  BY <1>2, <1>3, <1>4
<1>5. CASE ~(l > 0) /\ at.i > Len(e)
  BY <1>3, <1>5, CollectedType
<1>6. CASE ~(l > 0) /\ ~(at.i > Len(e))
  BY <1>2, <1>3, <1>6
<1> QED BY <1>4, <1>5, <1>6

LEMMA Round2Down ==
  ASSUME NEW e \in Seq(Byte), NEW at \in Heres(e), NEW g, NEW h,
         \A to \in Heres(e): to.i > at.i => g[to] = h[to]
  PROVE  Round2(e, at, g) = Round2(e, at, h)
<1>1. PICK l: l = term_at(e, at.i)
  OBVIOUS
<1>2. /\ l \in {-1, 0, 1, 2} /\ at.i \in Nat
      /\ l > 0 => Here(at.i + l, at.i + l, Collected(e, at)) \in Heres(e)
      /\ ~(at.i > Len(e)) => Here(at.i + 1, at.line_start, at.data) \in Heres(e)
  BY <1>1, Round2Reads
<1>3. \A f: Round2(e, at, f) =
        IF l > 0 THEN f[Here(at.i + l, at.i + l, Collected(e, at))]
        ELSE IF at.i > Len(e) THEN Collected(e, at)
        ELSE f[Here(at.i + 1, at.line_start, at.data)]
  BY <1>1 DEF Round2
<1>4. CASE l > 0
  <2>1. PICK to \in Heres(e): to = Here(at.i + l, at.i + l, Collected(e, at))
    BY <1>2, <1>4
  <2>2. to.i = at.i + l
    BY <2>1, HeresAre
  <2>3. g[to] = h[to]
    BY <1>2, <1>4, <2>2
  <2> QED BY <1>3, <1>4, <2>1, <2>3
<1>5. CASE ~(l > 0) /\ at.i > Len(e)
  BY <1>3, <1>5
<1>6. CASE ~(l > 0) /\ ~(at.i > Len(e))
  <2>1. PICK to \in Heres(e): to = Here(at.i + 1, at.line_start, at.data)
    BY <1>2, <1>6
  <2>2. to.i = at.i + 1
    BY <2>1, HeresAre
  <2>3. g[to] = h[to]
    BY <1>2, <2>2
  <2> QED BY <1>3, <1>6, <2>1, <2>3
<1> QED BY <1>4, <1>5, <1>6

LEMMA LooperExists ==
  ASSUME NEW e \in Seq(Byte)
  PROVE  \E g \in [Heres(e) -> Datas]: Loops(e, g)
<1> DEFINE D == Heres(e)
           F == [at \in D |-> [g \in [D -> Datas] |-> Round2(e, at, g)]]
           mu == [at \in D |-> Len(e) + 1 - at.i]
<1>1. \A at \in D: \A g \in [D -> Datas]: Round2(e, at, g) \in Datas
  BY Round2Type
<1>2. F \in [D -> [[D -> Datas] -> Datas]]
      /\ \A at \in D: \A g \in [D -> Datas]: F[at][g] = Round2(e, at, g)
  <2> HIDE DEF D
  <2> QED BY <1>1
<1>3. /\ mu \in [D -> Nat]
      /\ \A i, j \in D: mu[j] < mu[i] <=> j.i > i.i
  <2>1. \A at \in D: at.i \in 1..Len(e) + 1
    BY HeresAre
  <2>2. Len(e) \in Nat
    OBVIOUS
  <2> HIDE DEF D
  <2> QED BY <2>1, <2>2
<1>4. ASSUME NEW at \in D, NEW g \in [D -> Datas], NEW h \in [D -> Datas],
             \A to \in D: mu[to] < mu[at] => g[to] = h[to]
      PROVE  F[at][g] = F[at][h]
  <2>1. \A to \in D: to.i > at.i => g[to] = h[to]
    <3> HIDE DEF D, mu
    <3> QED BY <1>3, <1>4
  <2>2. Round2(e, at, g) = Round2(e, at, h)
    BY <2>1, Round2Down
  <2> HIDE DEF F, D
  <2> QED BY <1>2, <2>2
<1>5. Contracting(F, D, Datas, mu)
  <2> HIDE DEF F, D, mu
  <2> QED BY <1>2, <1>3, <1>4 DEF Contracting
<1>6. Datas # {}
  BY EmptySeq DEF Datas
<1>7. PICK g \in [D -> Datas]: g = [at \in D |-> F[at][g]]
  <2> HIDE DEF F, D, mu
  <2> QED BY <1>5, <1>6, Recursion
<1>8. g = [at \in D |-> Round2(e, at, g)]
  <2> HIDE DEF F, D
  <2> QED BY <1>2, <1>7
<1> QED BY <1>7, <1>8 DEF Loops

LEMMA LooperRound ==
  ASSUME NEW e \in Seq(Byte), NEW at \in Heres(e), NEW l, l = term_at(e, at.i)
  PROVE  /\ l > 0 => looper(e)[at] = looper(e)[Here(at.i + l, at.i + l, Collected(e, at))]
         /\ ~(l > 0) /\ at.i > Len(e) => looper(e)[at] = Collected(e, at)
         /\ ~(l > 0) /\ ~(at.i > Len(e)) =>
              looper(e)[at] = looper(e)[Here(at.i + 1, at.line_start, at.data)]
<1>1. Loops(e, looper(e))
  BY LooperExists DEF looper
<1>2. PICK g: g = looper(e)
  OBVIOUS
<1>3. g = [to \in Heres(e) |-> Round2(e, to, g)]
  BY <1>1, <1>2 DEF Loops
<1>4. g[at] = Round2(e, at, g)
  BY <1>3
<1>5. g[at] = IF l > 0 THEN g[Here(at.i + l, at.i + l, Collected(e, at))]
              ELSE IF at.i > Len(e) THEN Collected(e, at)
              ELSE g[Here(at.i + 1, at.line_start, at.data)]
  BY <1>4 DEF Round2
<1> QED BY <1>2, <1>5

(* What holds at a place of the loop if it holds at all places further on   *)
(* holds at all places.                                                     *)
LEMMA LoopInduction ==
  ASSUME NEW e \in Seq(Byte), NEW T,
         \A at \in Heres(e): (\A to \in Heres(e): to.i > at.i => to \in T) => at \in T
  PROVE  Heres(e) \subseteq T
<1> DEFINE U == {k \in Nat: \A at \in Heres(e): Len(e) + 1 - at.i = k => at \in T}
<1>0. Len(e) \in Nat /\ \A at \in Heres(e): at.i \in 1..Len(e) + 1
  BY HeresAre
<1>1. ASSUME NEW k \in Nat, \A m \in Nat: m < k => m \in U PROVE k \in U
  <2> SUFFICES ASSUME NEW at \in Heres(e), Len(e) + 1 - at.i = k PROVE at \in T
    OBVIOUS
  <2>1. ASSUME NEW to \in Heres(e), to.i > at.i PROVE to \in T
    <3>1. PICK m \in Nat: m = Len(e) + 1 - to.i /\ m < k
      BY <1>0, <2>1
    <3>2. m \in U
      BY <1>1, <3>1
    <3> QED BY <3>1, <3>2
  <2> QED BY <2>1
<1>2. Nat \subseteq U
  <2> HIDE DEF U
  <2> QED BY <1>1, Induction
<1>3. ASSUME NEW at \in Heres(e) PROVE at \in T
  <2>1. PICK m \in Nat: m = Len(e) + 1 - at.i
    BY <1>0
  <2>2. m \in U
    BY <1>2
  <2> QED BY <2>1, <2>2
<1> QED BY <1>3
-----------------------------------------------------------------------------
(* What joined payloads say, for payloads f given by the position of their  *)
(* line in the stream s.                                                    *)
Text(x) == {q \in DOMAIN x: x[q] # LF}

(* The text of x, line breaks left out, is what stands at the positions P   *)
(* of s, in the same order; g says where.                                   *)
StandsAt(s, P, x, g) ==
  /\ g \in [Text(x) -> P]
  /\ \A q, r \in Text(x): q < r => g[q] < g[r]
  /\ \A p \in P: \E q \in Text(x): g[q] = p
  /\ \A q \in Text(x): s[g[q]] = x[q]

Stands(s, P, x) == \E g: StandsAt(s, P, x, g)

LEMMA TextIs ==
  ASSUME NEW x \in Seq(Byte)
  PROVE  /\ Text(x) \subseteq Nat
         /\ \A q: q \in Text(x) <=> q \in 1..Len(x) /\ x[q] # LF
BY DEF Text

(* Text that stands somewhere reads the same there.                         *)
LEMMA StandsReads ==
  ASSUME NEW s, NEW P \in SUBSET Nat, NEW x \in Seq(Byte), Stands(s, P, x),
         NEW w, Len(w) \in Nat
  PROVE  Reads(x, Text(x), w) <=> Reads(s, P, w)
<1>1. PICK T, N: T = Text(x) /\ N = 1..Len(w) /\ T \subseteq Nat /\ N \subseteq Nat
  BY TextIs
<1>2. PICK g \in [T -> P]: /\ \A q, r \in T: q < r => g[q] < g[r]
                           /\ \A p \in P: \E q \in T: g[q] = p
                           /\ \A q \in T: s[g[q]] = x[q]
  BY <1>1 DEF Stands, StandsAt
<1>3. ASSUME Reads(x, Text(x), w) PROVE Reads(s, P, w)
  <2>1. PICK f \in [N -> T]: /\ \A i, j \in N: i < j => f[i] < f[j]
                             /\ \A q \in T: \E i \in N: f[i] = q
                             /\ \A i \in N: x[f[i]] = w[i]
    BY <1>1, <1>3 DEF Reads
  <2>2. PICK h: h = [i \in N |-> g[f[i]]]
    OBVIOUS
  <2>3. h \in [N -> P]
    BY <2>2
  <2>4. \A i, j \in N: i < j => h[i] < h[j]
    BY <1>2, <2>1, <2>2
  <2>5. \A p \in P: \E i \in N: h[i] = p
    BY <1>2, <2>1, <2>2
  <2>6. \A i \in N: s[h[i]] = w[i]
    BY <1>2, <2>1, <2>2
  <2> QED BY <1>1, <2>3, <2>4, <2>5, <2>6 DEF Reads
<1>4. ASSUME Reads(s, P, w) PROVE Reads(x, Text(x), w)
  <2>1. PICK f \in [N -> P]: /\ \A i, j \in N: i < j => f[i] < f[j]
                             /\ \A p \in P: \E i \in N: f[i] = p
                             /\ \A i \in N: s[f[i]] = w[i]
    BY <1>1, <1>4 DEF Reads
  <2>2. PICK h: h = [i \in N |-> CHOOSE q \in T: g[q] = f[i]]
    OBVIOUS
  <2>3. ASSUME NEW i \in N PROVE h[i] \in T /\ g[h[i]] = f[i]
    <3>1. \E q \in T: g[q] = f[i]
      BY <1>2, <2>1
    <3> QED BY <2>2, <3>1
  <2>4. h \in [N -> T]
    BY <2>2, <2>3
  <2>5. ASSUME NEW i \in N, NEW j \in N, i < j PROVE h[i] < h[j]
    <3>1. f[i] < f[j] /\ f[i] \in Nat /\ f[j] \in Nat
      BY <2>1, <2>5
    <3>2. h[i] \in Nat /\ h[j] \in Nat
      BY <1>1, <2>3
    <3>3. ~(h[j] < h[i])
      <4>1. h[j] < h[i] => f[j] < f[i]
        BY <1>2, <2>3
      <4> QED BY <3>1, <4>1
    <3>4. h[i] # h[j]
      <4>1. h[i] = h[j] => f[i] = f[j]
        BY <2>3
      <4> QED BY <3>1, <4>1
    <3> QED BY <3>2, <3>3, <3>4
  <2>6. ASSUME NEW q \in T PROVE \E i \in N: h[i] = q
    <3>1. g[q] \in P
      OBVIOUS
    <3>2. PICK i \in N: f[i] = g[q]
      BY <2>1, <3>1
    <3>3. h[i] \in T /\ g[h[i]] = g[q]
      BY <2>3, <3>2
    <3>4. ~(h[i] < q) /\ ~(q < h[i])
      <4>1. PICK v \in Nat: v = g[q]
        BY <3>1
      <4>2. ~(v < v)
        OBVIOUS
      <4> QED BY <1>2, <3>3, <4>1, <4>2
    <3>5. h[i] = q
      BY <1>1, <3>3, <3>4
    <3> QED BY <3>5
  <2>7. \A i \in N: x[h[i]] = w[i]
    BY <1>2, <2>1, <2>3
  <2> QED BY <1>1, <2>4, <2>5, <2>6, <2>7 DEF Reads
<1> QED BY <1>3, <1>4

Joined(s, f, x) ==
  /\ \/ \E a: DOMAIN f = {a} /\ x = f[a]
     \/ (\E q \in DOMAIN x: x[q] = LF) /\ (\E a, c \in DOMAIN f: a # c)
  /\ Stands(s, Places(f), x)

(* The payloads f stand before x, and d holds them.                         *)
Before(f, x) == \A q \in Places(f): q \in Nat /\ q < x

Holds(s, f, d) ==
  \/ DOMAIN f = {} /\ d = <<>>
  \/ DOMAIN f # {} /\ \E x \in Seq(Byte): d = <<x>> /\ Joined(s, f, x)

Says(s, f, d, x) == Before(f, x) /\ Holds(s, f, d)

(* A line of text.                                                          *)
LEMMA StandsOnce ==
  ASSUME NEW s, NEW c \in Nat, NEW t \in Seq(Byte), \A q \in 1..Len(t): t[q] # LF,
         \A q \in 1..Len(t): s[c + q] = t[q], NEW P, P = c + 1..c + Len(t)
  PROVE  Stands(s, P, t)
<1>1. PICK m \in Nat: m = Len(t)
  OBVIOUS
<1>2. Text(t) = 1..m
  BY <1>1, TextIs
<1>3. PICK g: g = [q \in 1..m |-> c + q]
  OBVIOUS
<1>4. g \in [1..m -> P]
  BY <1>1, <1>3
<1>5. \A q, r \in 1..m: q < r => g[q] < g[r]
  BY <1>3
<1>6. ASSUME NEW p \in P PROVE \E q \in 1..m: g[q] = p
  <2>1. p - c \in 1..m /\ c + (p - c) = p
    BY <1>1
  <2> QED BY <1>3, <2>1
<1>7. \A q \in 1..m: s[g[q]] = t[q]
  BY <1>1, <1>3
<1>8. StandsAt(s, P, t, g)
  BY <1>2, <1>4, <1>5, <1>6, <1>7 DEF StandsAt
<1> QED BY <1>8 DEF Stands

(* The joint of two texts.                                                  *)
Joint(x, t) == x \o <<LF>> \o t

IsJoint(x, t, y) ==
  /\ y \in Seq(Byte) /\ Len(y) = Len(x) + 1 + Len(t)
  /\ \A q \in 1..Len(x): y[q] = x[q]
  /\ y[Len(x) + 1] = LF
  /\ \A q \in 1..Len(t): y[Len(x) + 1 + q] = t[q]

LEMMA JointIs ==
  ASSUME NEW x \in Seq(Byte), NEW t \in Seq(Byte), NEW y, y = Joint(x, t)
  PROVE  IsJoint(x, t, y)
<1>1. LF \in Byte
  BY DEF Byte
<1>2. PICK z: z = x \o <<LF>>
  OBVIOUS
<1>3. /\ z \in Seq(Byte) /\ Len(z) = Len(x) + 1 /\ z[Len(x) + 1] = LF
      /\ \A q \in 1..Len(x): z[q] = x[q]
  BY <1>1, <1>2
<1>4. y = z \o t
  BY <1>2 DEF Joint
<1>5. /\ y \in Seq(Byte) /\ Len(y) = Len(z) + Len(t)
      /\ \A q \in 1..Len(z): y[q] = z[q]
      /\ \A q \in 1..Len(t): y[Len(z) + q] = t[q]
  <2>1. z \in Seq(Byte) /\ t \in Seq(Byte)
    BY <1>3
  <2> QED BY ONLY <1>4, <2>1
<1>6. Len(x) \in Nat /\ Len(t) \in Nat
  OBVIOUS
<1>7. Len(y) = Len(x) + 1 + Len(t)
  BY <1>3, <1>5, <1>6
<1>8. \A q \in 1..Len(x): y[q] = x[q]
  BY <1>3, <1>5, <1>6
<1>9. y[Len(x) + 1] = LF
  BY <1>3, <1>5, <1>6
<1>10. \A q \in 1..Len(t): y[Len(x) + 1 + q] = t[q]
  BY <1>3, <1>5
<1> QED BY <1>5, <1>7, <1>8, <1>9, <1>10 DEF IsJoint

LEMMA JointSplits ==
  ASSUME NEW x \in Seq(Byte), NEW t \in Seq(Byte), NEW y, y = Joint(x, t)
  PROVE  \A q \in 1..Len(y): \/ q \in 1..Len(x) /\ y[q] = x[q]
                             \/ q = Len(x) + 1 /\ y[q] = LF
                             \/ \E r \in 1..Len(t): q = Len(x) + 1 + r /\ y[q] = t[r]
<1> SUFFICES ASSUME NEW q \in 1..Len(y)
             PROVE  \/ q \in 1..Len(x) /\ y[q] = x[q]
                    \/ q = Len(x) + 1 /\ y[q] = LF
                    \/ \E r \in 1..Len(t): q = Len(x) + 1 + r /\ y[q] = t[r]
  OBVIOUS
<1>1. PICK n \in Nat, m \in Nat: n = Len(x) /\ m = Len(t)
  OBVIOUS
<1>2. /\ Len(y) = n + 1 + m
      /\ \A p \in 1..n: y[p] = x[p]
      /\ y[n + 1] = LF
      /\ \A p \in 1..m: y[n + 1 + p] = t[p]
  <2>1. IsJoint(x, t, y)
    BY JointIs
  <2> QED BY ONLY <1>1, <2>1 DEF IsJoint
<1>3. CASE q \in 1..n
  BY <1>1, <1>2, <1>3
<1>4. CASE q = n + 1
  BY <1>1, <1>2, <1>4
<1>5. CASE q > n + 1
  <2>1. PICK r \in 1..m: q = n + 1 + r
    <3>1. q - (n + 1) \in 1..m /\ q = n + 1 + (q - (n + 1))
      BY <1>2, <1>5
    <3> QED BY <3>1
  <2>2. y[q] = t[r]
    BY <1>2, <2>1
  <2> QED BY <1>1, <2>1, <2>2
<1> QED BY <1>2, <1>3, <1>4, <1>5

(* One more line behind it.                                                 *)
LEMMA StandsMore ==
  ASSUME NEW s, NEW P \in SUBSET Nat, NEW x \in Seq(Byte), Stands(s, P, x),
         NEW c \in Nat, \A p \in P: p < c,
         NEW t \in Seq(Byte), \A q \in 1..Len(t): t[q] # LF,
         \A q \in 1..Len(t): s[c + q] = t[q],
         NEW y, y = Joint(x, t), NEW Q, Q = P \cup (c + 1..c + Len(t))
  PROVE  Stands(s, Q, y)
<1>1. PICK n \in Nat, m \in Nat: n = Len(x) /\ m = Len(t)
  OBVIOUS
<1>2. /\ y \in Seq(Byte) /\ Len(y) = n + 1 + m
      /\ \A q \in 1..n: y[q] = x[q]
      /\ \A q \in 1..m: y[n + 1 + q] = t[q]
  <2>1. IsJoint(x, t, y)
    BY JointIs
  <2> QED BY ONLY <1>1, <2>1 DEF IsJoint
<1>3. \A q \in 1..Len(y): \/ q \in 1..n /\ y[q] = x[q]
                          \/ q = n + 1 /\ y[q] = LF
                          \/ \E r \in 1..m: q = n + 1 + r /\ y[q] = t[r]
  <2>1. \A q \in 1..Len(y): \/ q \in 1..Len(x) /\ y[q] = x[q]
                            \/ q = Len(x) + 1 /\ y[q] = LF
                            \/ \E r \in 1..Len(t): q = Len(x) + 1 + r /\ y[q] = t[r]
    BY JointSplits
  <2> QED BY ONLY <1>1, <2>1
<1>4. PICK T, U: T = Text(x) /\ U = Text(y)
  OBVIOUS
<1>5. ASSUME NEW q \in T PROVE q \in 1..n /\ q \in U
  <2>1. q \in 1..n /\ x[q] # LF
    BY <1>1, <1>4, TextIs
  <2>2. q \in 1..Len(y) /\ y[q] # LF
    BY <1>2, <2>1
  <2> QED BY <1>2, <1>4, <2>1, <2>2, TextIs
<1>6. ASSUME NEW r \in 1..m PROVE n + 1 + r \in U
  <2>1. n + 1 + r \in 1..n + 1 + m /\ y[n + 1 + r] # LF
    BY <1>1, <1>2
  <2> QED BY <1>2, <1>4, <2>1, TextIs
<1>7. ASSUME NEW q \in U
      PROVE  q \in T \/ \E r \in 1..m: q = n + 1 + r
  <2>1. q \in 1..Len(y) /\ y[q] # LF
    BY <1>2, <1>4, TextIs
  <2>2. CASE q \in 1..n /\ y[q] = x[q]
    BY <1>1, <1>4, <2>1, <2>2, TextIs
  <2> QED BY <1>3, <2>1, <2>2
<1>8. PICK g \in [T -> P]: /\ \A q, r \in T: q < r => g[q] < g[r]
                           /\ \A p \in P: \E q \in T: g[q] = p
                           /\ \A q \in T: s[g[q]] = x[q]
  BY <1>4 DEF Stands, StandsAt
<1>9. PICK h: h = [q \in U |-> IF q <= n THEN g[q] ELSE c + (q - (n + 1))]
  OBVIOUS
<1>10. \A q \in T: h[q] = g[q]
  BY <1>5, <1>9
<1>11. ASSUME NEW r \in 1..m PROVE h[n + 1 + r] = c + r
  <2>1. PICK q \in U: q = n + 1 + r
    BY <1>6
  <2>2. ~(q <= n) /\ c + (q - (n + 1)) = c + r
    BY <2>1
  <2> QED BY <1>9, <2>1, <2>2
<1>12. h \in [U -> Q]
  <2>1. ASSUME NEW q \in U PROVE h[q] \in Q
    <3>1. CASE q \in T
      BY <1>8, <1>10, <3>1
    <3>2. ASSUME NEW r \in 1..m, q = n + 1 + r PROVE h[q] \in Q
      <4>1. h[q] = c + r
        BY <1>11, <3>2
      <4>2. c + r \in c + 1..c + m
        OBVIOUS
      <4> QED BY <1>1, <4>1, <4>2
    <3> QED BY <1>7, <3>1, <3>2
  <2> QED BY <1>9, <2>1
<1>13. ASSUME NEW q \in U, NEW r \in U, q < r PROVE h[q] < h[r]
  <2>1. CASE q \in T /\ r \in T
    BY <1>8, <1>10, <1>13, <2>1
  <2>2. ASSUME q \in T, NEW j \in 1..m, r = n + 1 + j PROVE h[q] < h[r]
    <3>1. h[q] \in P /\ h[q] \in Nat /\ h[q] < c
      BY <1>8, <1>10, <2>2
    <3>2. h[r] = c + j
      BY <1>11, <2>2
    <3> QED BY <3>1, <3>2
  <2>3. ASSUME r \in T, NEW i \in 1..m, q = n + 1 + i PROVE FALSE
    <3>1. r \in 1..n
      BY <1>5, <2>3
    <3> QED BY <1>13, <2>3, <3>1
  <2>4. ASSUME NEW i \in 1..m, NEW j \in 1..m, q = n + 1 + i, r = n + 1 + j PROVE h[q] < h[r]
    <3>1. h[q] = c + i /\ h[r] = c + j
      BY <1>11, <2>4
    <3> QED BY <1>13, <2>4, <3>1
  <2> QED BY <1>7, <2>1, <2>2, <2>3, <2>4
<1>14. ASSUME NEW p \in Q PROVE \E q \in U: h[q] = p
  <2>1. CASE p \in P
    BY <1>5, <1>8, <1>10, <2>1
  <2>2. CASE p \in c + 1..c + m
    <3>1. PICK r \in 1..m: p = c + r
      <4>1. p - c \in 1..m /\ p = c + (p - c)
        BY <2>2
      <4> QED BY <4>1
    <3> QED BY <1>6, <1>11, <3>1
  <2> QED BY <1>1, <2>1, <2>2
<1>15. ASSUME NEW q \in U PROVE s[h[q]] = y[q]
  <2>1. CASE q \in T
    BY <1>2, <1>5, <1>8, <1>10, <2>1
  <2>2. ASSUME NEW r \in 1..m, q = n + 1 + r PROVE s[h[q]] = y[q]
    <3>1. h[q] = c + r /\ y[q] = t[r] /\ s[c + r] = t[r]
      BY <1>1, <1>2, <1>11, <2>2
    <3> QED BY <3>1
  <2> QED BY <1>7, <2>1, <2>2
<1> QED BY <1>4, <1>12, <1>13, <1>14, <1>15 DEF Stands, StandsAt

(* g is f with one more payload.                                            *)
OneMore(f, g, c) ==
  /\ c \notin DOMAIN f /\ DOMAIN g = DOMAIN f \cup {c}
  /\ \A a \in DOMAIN f: g[a] = f[a]

LEMMA PlacesMore ==
  ASSUME NEW f, NEW g, NEW c, OneMore(f, g, c)
  PROVE  Places(g) = Places(f) \cup (c + 1..c + Len(g[c]))
<1>1. \A q: q \in Places(g) <=> \E a \in DOMAIN g: q \in a + 1..a + Len(g[a])
  BY DEF Places
<1>2. \A q: q \in Places(f) <=> \E a \in DOMAIN f: q \in a + 1..a + Len(f[a])
  BY DEF Places
<1>3. \A a \in DOMAIN f: a + 1..a + Len(f[a]) = a + 1..a + Len(g[a])
  BY DEF OneMore
<1>4. \A q: q \in Places(g) <=> q \in Places(f) \/ q \in c + 1..c + Len(g[c])
  BY <1>1, <1>2, <1>3 DEF OneMore
<1> QED BY <1>4

LEMMA PlacesNone ==
  ASSUME NEW f, DOMAIN f = {}
  PROVE  Places(f) = {}
BY DEF Places

(* One more data: line, whose text goes up to x.                            *)
LEMMA SaysMore ==
  ASSUME NEW s, NEW f, NEW g, NEW c \in Nat, OneMore(f, g, c), NEW d, Says(s, f, d, c),
         NEW line \in Seq(Byte), line # <<>>, Head(line) = "data:", g[c] = Tail(line),
         NEW t \in Seq(Byte), t = g[c],
         \A q \in 1..Len(t): t[q] # LF, \A q \in 1..Len(t): s[c + q] = t[q],
         NEW x \in Nat, c + Len(t) < x
  PROVE  Says(s, g, collect_data_line(d, line), x)
<1>0. Len(t) \in Nat /\ t = Tail(line)
  OBVIOUS
<1>1. PICK P, Q: /\ P = Places(f) /\ Q = Places(g)
                 /\ Q = P \cup (c + 1..c + Len(t))
  BY PlacesMore
<1>2. \A p \in P: p \in Nat /\ p < c
  BY <1>1 DEF Says, Before
<1>3. \A q \in Q: q \in Nat /\ q < x
  BY <1>0, <1>1, <1>2
<1>4. DOMAIN g # {}
  BY DEF OneMore
<1>5. Holds(s, f, d)
  BY DEF Says
<1>6. Holds(s, g, collect_data_line(d, line))
  <2>1. CASE DOMAIN f = {}
    <3>1. d = <<>>
      BY <1>5, <2>1 DEF Holds
    <3>2. collect_data_line(d, line) = <<t>>
      BY <1>0, <3>1 DEF collect_data_line
    <3>3. DOMAIN g = {c} /\ g[c] = t
      BY <2>1 DEF OneMore
    <3>4. Q = c + 1..c + Len(t)
      BY <1>1, <2>1, PlacesNone
    <3>5. Stands(s, Q, t)
      BY <3>4, StandsOnce
    <3>6. Joined(s, g, t)
      BY <1>1, <3>3, <3>5 DEF Joined
    <3> QED BY <1>4, <3>2, <3>6 DEF Holds
  <2>2. CASE DOMAIN f # {}
    <3>1. PICK z \in Seq(Byte): d = <<z>> /\ Joined(s, f, z)
      BY <1>5, <2>2 DEF Holds
    <3>2. d # <<>> /\ d[1] = z
      BY <3>1
    <3>3. PICK y: y = Joint(z, t)
      OBVIOUS
    <3>4. collect_data_line(d, line) = <<y>>
      BY <1>0, <3>2, <3>3 DEF collect_data_line, Joint
    <3>5. IsJoint(z, t, y)
      BY <3>3, JointIs
    <3>6. y \in Seq(Byte) /\ \E q \in DOMAIN y: y[q] = LF
      <4>1. y \in Seq(Byte) /\ Len(y) = Len(z) + 1 + Len(t) /\ y[Len(z) + 1] = LF
        BY ONLY <3>5 DEF IsJoint
      <4>2. Len(z) \in Nat
        OBVIOUS
      <4>3. Len(z) + 1 \in DOMAIN y
        BY ONLY <1>0, <4>1, <4>2
      <4> QED BY <4>1, <4>3
    <3>7. \E a, b \in DOMAIN g: a # b
      BY <2>2 DEF OneMore
    <3>8. Stands(s, P, z) /\ P \in SUBSET Nat
      BY <1>1, <1>2, <3>1 DEF Joined
    <3>9. Stands(s, Q, y)
      BY <1>1, <1>2, <3>3, <3>8, StandsMore
    <3>10. Joined(s, g, y)
      BY <1>1, <3>6, <3>7, <3>9 DEF Joined
    <3> QED BY <1>4, <3>4, <3>6, <3>10 DEF Holds
  <2> QED BY <2>1, <2>2
<1> QED BY <1>1, <1>3, <1>6 DEF Says, Before

(* What the event then does.                                                *)
LEMMA SaysDone ==
  ASSUME NEW s, NEW f, NEW d, Holds(s, f, d)
  PROVE  d # <<>> /\ d[1] = <<"[DONE]">> <=> \E a: DOMAIN f = {a} /\ f[a] = <<"[DONE]">>
<1>1. CASE DOMAIN f = {}
  BY <1>1 DEF Holds
<1>2. CASE DOMAIN f # {}
  <2>1. PICK x \in Seq(Byte): d = <<x>> /\ Joined(s, f, x)
    BY <1>2 DEF Holds
  <2>2. d # <<>> /\ d[1] = x
    BY <2>1
  <2>3. CASE \E a: DOMAIN f = {a} /\ x = f[a]
    BY <2>2, <2>3
  <2>4. CASE (\E q \in DOMAIN x: x[q] = LF) /\ (\E a, c \in DOMAIN f: a # c)
    <3>1. LF # "[DONE]"
      BY DEF LF
    <3>2. x # <<"[DONE]">>
      BY <2>4, <3>1
    <3>3. ~\E a: DOMAIN f = {a}
      BY <2>4
    <3> QED BY <2>2, <3>2, <3>3
  <2> QED BY <2>1, <2>3, <2>4 DEF Joined
<1> QED BY <1>1, <1>2

(* An object has a part, and none of its parts is the mark.                 *)
LEMMA PiecesAre ==
  ASSUME NEW u \in Usages
  PROVE  /\ pieces[u] \in Seq(Parts) /\ Len(pieces[u]) \in Nat \ {0}
         /\ \A i \in 1..Len(pieces[u]): pieces[u][i] # "[DONE]"
<1>1. PICK w \in Seq(Parts): w = pieces[u] /\ w # <<>>
  BY ScannerAssumption
<1>2. Len(w) # 0
  BY <1>1, EmptySeq
<1>3. \A i \in 1..Len(w): w[i] \in Parts
  OBVIOUS
<1>4. "[DONE]" \notin Parts
  BY ScannerAssumption
<1> QED BY <1>1, <1>2, <1>3, <1>4

LEMMA NothingReads ==
  ASSUME NEW s, NEW u \in Usages
  PROVE  ~Reads(s, {}, pieces[u])
<1>1. PICK n \in Nat \ {0}: n = Len(pieces[u])
  BY PiecesAre
<1>2. 1 \in 1..n
  OBVIOUS
<1> QED BY <1>1, <1>2 DEF Reads

LEMMA SaysUsage ==
  ASSUME NEW s, NEW f, NEW d, NEW x \in Nat, Says(s, f, d, x), NEW u \in Usages
  PROVE  d # <<>> /\ d[1] # <<"[DONE]">> /\ is_object(d[1], u)
           <=> Reads(s, Places(f), pieces[u])
<1>0. Holds(s, f, d)
  BY DEF Says
<1>1. CASE DOMAIN f = {}
  BY <1>0, <1>1, PlacesNone, NothingReads DEF Holds
<1>2. CASE DOMAIN f # {}
  <2>1. PICK y \in Seq(Byte): d = <<y>> /\ Joined(s, f, y)
    BY <1>0, <1>2 DEF Holds
  <2>2. d # <<>> /\ d[1] = y
    BY <2>1
  <2>3. PICK P \in SUBSET Nat: P = Places(f) /\ Stands(s, P, y)
    BY <2>1 DEF Says, Before, Joined
  <2>4. PICK w: w = pieces[u] /\ Len(w) \in Nat /\ \A i \in 1..Len(w): w[i] # "[DONE]"
    BY PiecesAre
  <2>5. is_object(y, u) <=> Reads(y, Text(y), w)
    BY <2>4 DEF is_object, Text
  <2>6. Reads(y, Text(y), w) <=> Reads(s, P, w)
    BY <2>3, <2>4, StandsReads
  <2>7. ASSUME y = <<"[DONE]">>, Reads(y, Text(y), w) PROVE FALSE
    <3>1. 1 \in 1..Len(y) /\ y[1] = "[DONE]" /\ "[DONE]" # LF
      BY <2>7 DEF LF
    <3>2. 1 \in Text(y)
      BY <3>1, TextIs
    <3>3. PICK f1 \in [1..Len(w) -> Text(y)]:
             /\ \A q \in Text(y): \E i \in 1..Len(w): f1[i] = q
             /\ \A i \in 1..Len(w): y[f1[i]] = w[i]
      BY <2>7 DEF Reads
    <3>4. PICK i \in 1..Len(w): f1[i] = 1
      BY <3>2, <3>3
    <3> QED BY <2>4, <3>1, <3>3, <3>4
  <2> QED BY <2>2, <2>3, <2>4, <2>5, <2>6, <2>7
<1> QED BY <1>1, <1>2
-----------------------------------------------------------------------------
(* The data: lines of a stream between two positions, and their payloads.   *)
Starts(s, k, x) == {a \in LineStarts(s): k < a /\ a < x /\ s[a] = "data:"}

Payloads(s, k, x) == [a \in Starts(s, k, x) |-> Payload(s, a)]

StopsAt(s, a, q) ==
  /\ q = Len(s) + 1 \/ s[q] \in {LF, CR}
  /\ \A r \in a..q - 1: s[r] \notin {LF, CR}

Stop(s, a) == CHOOSE q \in a..Len(s) + 1: StopsAt(s, a, q)

LEMMA PayloadIs ==
  ASSUME NEW s \in Seq(Byte), NEW a \in 1..Len(s), NEW i \in a..Len(s),
         s[i] \in {LF, CR}, \A q \in a..i - 1: s[q] \notin {LF, CR}
  PROVE  Payload(s, a) = SubSeq(s, a + 1, i - 1)
<1>0. Len(s) \in Nat
  OBVIOUS
<1>1. Payload(s, a) = SubSeq(s, a + 1, Stop(s, a) - 1)
  BY DEF Payload, Stop, StopsAt
<1>2. i \in a..Len(s) + 1 /\ StopsAt(s, a, i)
  BY <1>0 DEF StopsAt
<1>3. Stop(s, a) \in a..Len(s) + 1 /\ StopsAt(s, a, Stop(s, a))
  BY <1>2 DEF Stop
<1>4. PICK q \in a..Len(s) + 1: q = Stop(s, a) /\ StopsAt(s, a, q)
  BY <1>3
<1>5. ~(i < q)
  <2>1. i < q => i \in a..q - 1
    BY <1>0
  <2> QED BY <1>4, <2>1 DEF StopsAt
<1>6. ~(q < i)
  <2>1. q < i => q \in a..i - 1 /\ q # Len(s) + 1
    BY <1>0
  <2> QED BY <1>4, <2>1 DEF StopsAt
<1>7. q = i
  BY <1>0, <1>5, <1>6
<1> QED BY <1>1, <1>4, <1>7

(* A line: its text from a to i - 1, its terminator at i.                   *)
LineAt(s, a, i) ==
  /\ a \in LineStarts(s) /\ i \in a..Len(s) /\ s[i] \in {LF, CR}
  /\ \A q \in a..i - 1: s[q] \notin {LF, CR}

LEMMA EndsAreBreaks ==
  ASSUME NEW s \in Seq(Byte), NEW p \in LineEnds(s)
  PROVE  p \in 1..Len(s) /\ s[p] \in {LF, CR}
BY DEF LineEnds

(* The data: lines up to the end of a line.                                 *)
LEMMA StartsMore ==
  ASSUME NEW s \in Seq(Byte), NEW k \in Nat, NEW a, NEW i, LineAt(s, a, i), k < a,
         NEW x \in i..Len(s) + 1, \A q \in i..x - 1: s[q] \in {LF, CR}
  PROVE  /\ s[a] = "data:" => Starts(s, k, x) = Starts(s, k, a) \cup {a}
         /\ s[a] # "data:" => Starts(s, k, x) = Starts(s, k, a)
         /\ a \notin Starts(s, k, a)
<1>0. Len(s) \in Nat /\ a \in 1..Len(s) /\ i \in a..Len(s)
  BY DEF LineAt, LineStarts
<1>1. "data:" \notin {LF, CR}
  BY DEF LF, CR
<1>2. ASSUME NEW c \in LineStarts(s), c > a, c < x, s[c] = "data:" PROVE FALSE
  <2>1. c \in 1..Len(s) /\ c - 1 \in LineEnds(s)
    BY <1>0, <1>2 DEF LineStarts
  <2>2. s[c - 1] \in {LF, CR}
    BY <2>1, EndsAreBreaks
  <2>3. CASE c < i + 1
    <3>1. c - 1 \in a..i - 1
      BY <1>0, <1>2, <2>1, <2>3
    <3> QED BY <2>2, <3>1 DEF LineAt
  <2>4. CASE c >= i
    <3>1. c \in i..x - 1
      BY <1>0, <1>2, <2>1, <2>4
    <3> QED BY <1>1, <1>2, <3>1
  <2> QED BY <1>0, <2>1, <2>3, <2>4
<1>3. \A c \in LineStarts(s): c \in 1..Len(s)
  BY DEF LineStarts
<1>4. a \in LineStarts(s)
  BY DEF LineAt
<1>5. s[a] = "data:" => a < x
  <2>1. s[a] = "data:" => a # i
    BY <1>1 DEF LineAt
  <2> QED BY <1>0, <2>1
<1>6. \A c \in Starts(s, k, x): c \in Starts(s, k, a) \/ (c = a /\ s[a] = "data:")
  BY <1>0, <1>2, <1>3 DEF Starts
<1>7. \A c \in Starts(s, k, a): c \in Starts(s, k, x)
  BY <1>0, <1>3 DEF Starts
<1>8. s[a] = "data:" => a \in Starts(s, k, x)
  BY <1>4, <1>5 DEF Starts
<1>9. a \notin Starts(s, k, a)
  BY <1>0 DEF Starts
<1> QED BY <1>6, <1>7, <1>8, <1>9

LEMMA CutIs ==
  ASSUME NEW s \in Seq(Byte), NEW a \in 1..Len(s) + 1, NEW i \in a..Len(s) + 1,
         NEW c, c = SubSeq(s, a, i - 1)
  PROVE  /\ c \in Seq(Byte) /\ Len(c) = i - a
         /\ \A q \in 1..i - a: c[q] = s[a + q - 1]
<1>1. Len(s) \in Nat
  OBVIOUS
<1>2. \A q \in a..i - 1: q \in 1..Len(s)
  BY <1>1
<1> QED BY <1>1, <1>2

LEMMA HeadIs ==
  ASSUME NEW line \in Seq(Byte), Len(line) # 0
  PROVE  line # <<>> /\ Head(line) = line[1]
OBVIOUS

LEMMA LineSays ==
  ASSUME NEW s \in Seq(Byte), NEW k \in Nat, NEW a, NEW i,
         LineAt(s, a, i), k < a,
         NEW x \in i..Len(s) + 1, \A q \in i..x - 1: s[q] \in {LF, CR},
         NEW d, Says(s, Payloads(s, k, a), d, a),
         NEW line, line = SubSeq(s, a, i - 1)
  PROVE  Says(s, Payloads(s, k, x), collect_data_line(d, line), x)
<1>0. Len(s) \in Nat /\ a \in 1..Len(s) /\ i \in a..Len(s)
  BY DEF LineAt, LineStarts
<1>1. /\ line \in Seq(Byte) /\ Len(line) = i - a
      /\ \A q \in 1..i - a: line[q] = s[a + q - 1]
  <2>1. a \in 1..Len(s) + 1 /\ i \in a..Len(s) + 1
    BY <1>0
  <2> QED BY <2>1, CutIs
<1>2. "data:" \notin {LF, CR}
  BY DEF LF, CR
<1>3. CASE s[a] # "data:"
  <2>1. Payloads(s, k, x) = Payloads(s, k, a)
    BY <1>3, StartsMore DEF Payloads
  <2>2. line = <<>> \/ Head(line) # "data:"
    <3>1. CASE a = i
      <4>1. Len(line) = 0
        BY <1>0, <1>1, <3>1
      <4> QED BY <1>1, <4>1, EmptySeq
    <3>2. CASE a < i
      <4>1. 1 \in 1..i - a /\ a + 1 - 1 = a
        BY <1>0, <3>2
      <4>2. line[1] = s[a]
        BY <1>1, <4>1
      <4>3. Len(line) # 0
        BY <1>0, <1>1, <3>2
      <4> QED BY <1>1, <1>3, <4>2, <4>3, HeadIs
    <3> QED BY <1>0, <3>1, <3>2
  <2>3. collect_data_line(d, line) = d
    BY <2>2 DEF collect_data_line
  <2>4. Before(Payloads(s, k, a), x)
    <3>1. ASSUME NEW q \in Places(Payloads(s, k, a)) PROVE q \in Nat /\ q < x
      <4>1. q \in Nat /\ q < a
        BY DEF Says, Before
      <4> QED BY <1>0, <4>1
    <3> QED BY <3>1 DEF Before
  <2> QED BY <2>1, <2>3, <2>4 DEF Says
<1>4. CASE s[a] = "data:"
  <2>1. a < i
    <3>1. a # i
      BY <1>2, <1>4 DEF LineAt
    <3> QED BY <1>0, <3>1
  <2>2. a + 1 \in 1..Len(s) + 1 /\ i \in a + 1..Len(s) + 1
    BY <1>0, <2>1
  <2>3. PICK t: t = SubSeq(s, (a + 1), i - 1)
    OBVIOUS
  <2>4. /\ t \in Seq(Byte) /\ Len(t) = i - (a + 1)
        /\ \A q \in 1..i - (a + 1): t[q] = s[(a + 1) + q - 1]
    BY <2>2, <2>3, CutIs
  <2>5. line # <<>> /\ Head(line) = "data:"
    <3>1. 1 \in 1..i - a /\ a + 1 - 1 = a /\ Len(line) # 0
      BY <1>0, <1>1, <2>1
    <3>2. line[1] = s[a]
      BY <1>1, <3>1
    <3>3. line # <<>> /\ Head(line) = line[1]
      BY <1>1, <3>1, HeadIs
    <3> QED BY <1>4, <3>2, <3>3
  <2>6. Tail(line) = t
    <3>1. /\ Tail(line) \in Seq(Byte) /\ Len(Tail(line)) = Len(line) - 1
          /\ \A q \in 1..Len(Tail(line)): Tail(line)[q] = line[q + 1]
      <4>1. line \in Seq(Byte) /\ line # <<>>
        BY <1>1, <2>5
      <4> QED BY ONLY <4>1, HeadTailProperties
    <3>2. PICK w \in Seq(Byte): w = Tail(line)
      BY <3>1
    <3>3. Len(w) = Len(line) - 1 /\ \A q \in 1..Len(w): w[q] = line[q + 1]
      BY <3>1, <3>2
    <3>4. Len(w) = i - (a + 1) /\ Len(t) = Len(w)
      BY <1>0, <1>1, <2>4, <3>3
    <3>5. ASSUME NEW q \in 1..Len(w) PROVE w[q] = t[q]
      <4>1. q + 1 \in 1..i - a /\ q \in 1..i - (a + 1) /\ a + (q + 1) - 1 = (a + 1) + q - 1
        BY <1>0, <3>4
      <4> QED BY ZenonT(30), <1>1, <2>4, <3>3, <4>1
    <3>6. w = t
      BY <2>4, <3>4, <3>5, SeqEqual
    <3> QED BY <3>2, <3>6
  <2>7. Payload(s, a) = t
    <3>1. Payload(s, a) = SubSeq(s, a + 1, i - 1)
      BY <1>0, PayloadIs DEF LineAt
    <3> QED BY <2>3, <3>1
  <2>8. ASSUME NEW q \in 1..Len(t) PROVE t[q] # LF
    <3>1. q \in 1..i - (a + 1) /\ (a + 1) + q - 1 \in a..i - 1
      BY <1>0, <2>4
    <3>2. s[(a + 1) + q - 1] \notin {LF, CR}
      BY <3>1 DEF LineAt
    <3> QED BY <2>4, <3>1, <3>2
  <2>9. PICK f, g: f = Payloads(s, k, a) /\ g = Payloads(s, k, x)
    OBVIOUS
  <2>10. OneMore(f, g, a) /\ g[a] = t
    <3>1. Starts(s, k, x) = Starts(s, k, a) \cup {a} /\ a \notin Starts(s, k, a)
      BY <1>4, StartsMore
    <3>2. /\ DOMAIN f = Starts(s, k, a) /\ DOMAIN g = Starts(s, k, x)
          /\ \A c \in Starts(s, k, a): f[c] = Payload(s, c)
          /\ \A c \in Starts(s, k, x): g[c] = Payload(s, c)
      BY <2>9 DEF Payloads
    <3> QED BY <2>7, <3>1, <3>2 DEF OneMore
  <2>11. Says(s, g, collect_data_line(d, line), x)
    <3>1. g[a] = Tail(line) /\ t = g[a] /\ \A q \in 1..Len(t): t[q] # LF
      BY <2>6, <2>8, <2>10
    <3>2. Says(s, f, d, a)
      BY <2>9
    <3>3. ASSUME NEW q \in 1..Len(t) PROVE s[a + q] = t[q]
      <4>1. q \in 1..i - (a + 1) /\ (a + 1) + q - 1 = a + q
        BY <1>0, <2>4
      <4> QED BY <2>4, <4>1
    <3>4. a \in Nat /\ x \in Nat /\ a + Len(t) < x
      BY <1>0, <2>1, <2>4
    <3> QED BY <1>1, <2>4, <2>5, <2>10, <3>1, <3>2, <3>3, <3>4, SaysMore
  <2> QED BY <2>9, <2>11
<1> QED BY <1>3, <1>4
-----------------------------------------------------------------------------
(* An event, in its place in the stream.                                    *)
InPlace(s, k, e) ==
  /\ k + Len(e) + 1 <= Len(s) /\ k + 1 \in LineStarts(s)
  /\ \A i \in 1..Len(e): e[i] = s[k + i]
  /\ s[k + Len(e) + 1] \in {LF, CR}
  /\ Len(e) = 0 \/ e[Len(e)] \notin {LF, CR}

LEMMA InPlaceTerm ==
  ASSUME NEW s \in Seq(Byte), NEW k \in Nat, NEW e \in Seq(Byte), InPlace(s, k, e),
         NEW i \in 1..Len(e), NEW l, l = term_at(e, i)
  PROVE  /\ l > 0 => l \in {1, 2} /\ Ends(s, k + i, l) /\ i + l <= Len(e)
         /\ ~(l > 0) => e[i] \notin {LF, CR}
<1>0. PICK n \in Nat, m \in Nat: n = Len(e) /\ m = Len(s) /\ k + n + 1 <= m
  BY DEF InPlace
<1>1. \A q \in 1..n: e[q] = s[k + q]
  BY <1>0 DEF InPlace
<1>2. e[n] \notin {LF, CR}
  BY <1>0 DEF InPlace
<1>3. l \in {-1, 0, 1, 2}
  BY TermRange
<1>4. LF # CR
  BY DEF LF, CR
<1>5. ASSUME l > 0 PROVE l \in {1, 2} /\ Ends(s, k + i, l) /\ i + l <= Len(e)
  <2>1. l \in {1, 2} /\ Ends(e, i, l)
    BY <1>3, <1>5, TermEnds
  <2>2. /\ i + l <= n + 1
        /\ \/ l = 1 /\ e[i] = LF
           \/ l = 1 /\ e[i] = CR /\ i < n /\ e[i + 1] # LF
           \/ l = 2 /\ e[i] = CR /\ i < n /\ e[i + 1] = LF
    BY <1>0, <2>1 DEF Ends
  <2>3. e[i] = s[k + i] /\ (i < n => e[i + 1] = s[k + i + 1])
    <3>1. i < n => i + 1 \in 1..n /\ k + (i + 1) = k + i + 1
      BY <1>0
    <3> QED BY <1>0, <1>1, <3>1
  <2>4. i + l <= n
    <3>1. i # n
      BY <1>2, <2>2
    <3>2. i < n
      BY <1>0, <3>1
    <3>3. CASE l = 1
      BY <1>0, <3>2, <3>3
    <3>4. CASE l = 2
      <4>1. e[i + 1] = LF
        BY <2>2, <3>4
      <4>2. i + 1 # n
        BY <1>2, <4>1
      <4> QED BY <1>0, <3>2, <3>4, <4>2
    <3> QED BY <2>1, <3>3, <3>4
  <2>5. k + i + l <= m + 1 /\ k + i < m
    BY <1>0, <2>1, <2>4
  <2>6. \/ l = 1 /\ s[k + i] = LF
        \/ l = 1 /\ s[k + i] = CR /\ k + i < m /\ s[k + i + 1] # LF
        \/ l = 2 /\ s[k + i] = CR /\ k + i < m /\ s[k + i + 1] = LF
    BY <2>2, <2>3, <2>5
  <2>7. Ends(s, k + i, l)
    BY <1>0, <2>1, <2>5, <2>6 DEF Ends
  <2> QED BY <1>0, <2>1, <2>4, <2>7
<1>6. ASSUME ~(l > 0) PROVE e[i] \notin {LF, CR}
  <2>1. CASE l = 0
    BY <2>1, TermEnds
  <2>2. CASE l = -1
    <3>1. i = n
      BY <1>0, <2>2, TermEnds
    <3> QED BY <1>2, <3>1
  <2> QED BY <1>3, <1>6, <2>1, <2>2
<1> QED BY <1>5, <1>6

LEMMA InPlaceCut ==
  ASSUME NEW s \in Seq(Byte), NEW k \in Nat, NEW e \in Seq(Byte), InPlace(s, k, e),
         NEW a \in 1..Len(e) + 1, NEW i \in a..Len(e) + 1
  PROVE  SubSeq(e, a, i - 1) = SubSeq(s, k + a, (k + i) - 1)
<1>0. PICK n \in Nat, m \in Nat: n = Len(e) /\ m = Len(s) /\ k + n + 1 <= m
  BY DEF InPlace
<1>1. \A q \in 1..n: e[q] = s[k + q]
  BY <1>0 DEF InPlace
<1>2. PICK c, d: c = SubSeq(e, a, i - 1) /\ d = SubSeq(s, k + a, (k + i) - 1)
  OBVIOUS
<1>3. /\ c \in Seq(Byte) /\ Len(c) = i - a
      /\ \A q \in 1..i - a: c[q] = e[a + q - 1]
  BY <1>2, CutIs
<1>4. /\ d \in Seq(Byte) /\ Len(d) = (k + i) - (k + a)
      /\ \A q \in 1..(k + i) - (k + a): d[q] = s[(k + a) + q - 1]
  <2>1. k + a \in 1..Len(s) + 1 /\ k + i \in k + a..Len(s) + 1
    BY <1>0
  <2> QED BY <1>2, <2>1, CutIs
<1>5. Len(c) = Len(d) /\ Len(c) = i - a
  BY <1>0, <1>3, <1>4
<1>6. ASSUME NEW q \in 1..Len(c) PROVE c[q] = d[q]
  <2>1. /\ q \in 1..i - a /\ q \in 1..(k + i) - (k + a) /\ a + q - 1 \in 1..n
        /\ k + (a + q - 1) = (k + a) + q - 1
    BY <1>0, <1>5
  <2> QED BY <1>1, <1>3, <1>4, <2>1
<1>7. c = d
  BY <1>3, <1>4, <1>5, <1>6, SeqEqual
<1> QED BY <1>2, <1>7

(* What the loop has read, and what it will have read in the end.           *)
HasRead(s, k, e, at) ==
  /\ at.line_start <= at.i /\ k + at.line_start \in LineStarts(s)
  /\ \A q \in at.line_start..at.i - 1: e[q] \notin {LF, CR}
  /\ Says(s, Payloads(s, k, k + at.line_start), at.data, k + at.line_start)

LEMMA LineIsRead ==
  ASSUME NEW s \in Seq(Byte), NEW k \in Nat, NEW e \in Seq(Byte), InPlace(s, k, e),
         NEW a \in 1..Len(e) + 1, NEW i \in a..Len(e) + 1, k + a \in LineStarts(s),
         s[k + i] \in {LF, CR}, \A q \in a..i - 1: e[q] \notin {LF, CR}
  PROVE  LineAt(s, k + a, k + i)
<1>0. PICK n \in Nat, m \in Nat: n = Len(e) /\ m = Len(s) /\ k + n + 1 <= m
  BY DEF InPlace
<1>1. \A q \in 1..n: e[q] = s[k + q]
  BY <1>0 DEF InPlace
<1>2. k + i \in k + a..Len(s)
  BY <1>0
<1>3. ASSUME NEW q \in k + a..(k + i) - 1 PROVE s[q] \notin {LF, CR}
  <2>1. q - k \in a..i - 1 /\ q - k \in 1..n /\ k + (q - k) = q
    BY <1>0
  <2> QED BY <1>1, <2>1
<1> QED BY <1>2, <1>3 DEF LineAt

LEMMA LoopReads ==
  ASSUME NEW s \in Seq(Byte), NEW k \in Nat, NEW e \in Seq(Byte),
         InPlace(s, k, e)
  PROVE  \A at \in Heres(e):
           HasRead(s, k, e, at) =>
             Says(s, Payloads(s, k, k + Len(e) + 1), looper(e)[at], k + Len(e) + 1)
<1> DEFINE T == {at \in Heres(e): HasRead(s, k, e, at) =>
                   Says(s, Payloads(s, k, k + Len(e) + 1), looper(e)[at], k + Len(e) + 1)}
<1>0. PICK n \in Nat, m \in Nat: n = Len(e) /\ m = Len(s) /\ k + n + 1 <= m
  BY DEF InPlace
<1>1. ASSUME NEW at \in Heres(e), \A to \in Heres(e): to.i > at.i => to \in T PROVE at \in T
  <2> SUFFICES ASSUME HasRead(s, k, e, at)
               PROVE  Says(s, Payloads(s, k, k + Len(e) + 1), looper(e)[at], k + Len(e) + 1)
    OBVIOUS
  <2>0. \A to \in Heres(e): to.i > at.i /\ HasRead(s, k, e, to) =>
          Says(s, Payloads(s, k, k + Len(e) + 1), looper(e)[to], k + Len(e) + 1)
    BY <1>1
  <2> HIDE DEF T
  <2>1. PICK i \in 1..Len(e) + 1, a \in 1..Len(e) + 1, d \in Datas:
          i = at.i /\ a = at.line_start /\ d = at.data
    BY HeresAre
  <2>2. /\ a <= i /\ k + a \in LineStarts(s)
        /\ \A q \in a..i - 1: e[q] \notin {LF, CR}
        /\ Says(s, Payloads(s, k, k + a), d, k + a)
    BY <2>1 DEF HasRead
  <2>3. i \in a..Len(e) + 1 /\ k < k + a
    BY <1>0, <2>2
  <2>4. PICK line, data: line = SubSeq(e, a, i - 1) /\ data = Collected(e, at)
    OBVIOUS
  <2>5. data = collect_data_line(d, line) /\ line = SubSeq(s, k + a, (k + i) - 1)
    <3>1. data = collect_data_line(d, line)
      BY <2>1, <2>4 DEF Collected
    <3>2. SubSeq(e, a, i - 1) = SubSeq(s, k + a, (k + i) - 1)
      BY <2>3, InPlaceCut
    <3> QED BY <2>4, <3>1, <3>2
  <2>6. PICK l: l = term_at(e, i)
    OBVIOUS
  <2>7. CASE i = n + 1
    <3>1. ~(l > 0) /\ at.i > Len(e)
      <4>1. i > Len(e)
        BY <1>0, <2>7
      <4>2. l = 0
        BY <2>6, <4>1, TermIs
      <4> QED BY <2>1, <4>1, <4>2
    <3>2. looper(e)[at] = data
      BY <2>1, <2>4, <2>6, <3>1, LooperRound
    <3>3. s[k + i] \in {LF, CR} /\ k + i = k + Len(e) + 1
      <4>1. k + i = k + Len(e) + 1
        BY <1>0, <2>7
      <4> QED BY <4>1 DEF InPlace
    <3>4. LineAt(s, k + a, k + i)
      BY <2>2, <2>3, <3>3, LineIsRead
    <3>5. k + i \in k + i..Len(s) + 1 /\ \A q \in k + i..(k + i) - 1: s[q] \in {LF, CR}
      BY <1>0, <2>7
    <3>6. Says(s, Payloads(s, k, k + i), collect_data_line(d, line), k + i)
      BY <2>2, <2>3, <2>5, <3>4, <3>5, LineSays
    <3> QED BY <2>5, <3>2, <3>3, <3>6
  <2>8. CASE i <= n /\ l > 0
    <3>1. i \in 1..Len(e)
      BY <1>0, <2>8
    <3>2. l \in {1, 2} /\ Ends(s, k + i, l) /\ i + l <= Len(e)
      BY <2>6, <2>8, <3>1, InPlaceTerm
    <3>3. s[k + i] \in {LF, CR} /\ k + i \in 1..Len(s)
      BY <1>0, <3>1, <3>2 DEF Ends
    <3>4. LineAt(s, k + a, k + i)
      BY <2>2, <2>3, <3>3, LineIsRead
    <3>5. PICK j \in 1..Len(e): j = i + l /\ j > i /\ k + j = k + i + l
      <4>1. l \in Nat /\ l > 0 /\ i \in Nat /\ i > 0
        BY <3>1, <3>2
      <4>2. i + l \in 1..Len(e) /\ i + l > i /\ k + (i + l) = k + i + l
        BY <1>0, <3>2, <4>1
      <4> QED BY <4>2
    <3>6. k + j \in k + i..Len(s) + 1
      BY <1>0, <3>5
    <3>7. ASSUME NEW q \in k + i..(k + j) - 1 PROVE s[q] \in {LF, CR}
      <4>1. q = k + i \/ (l = 2 /\ q = k + i + 1)
        BY <1>0, <3>1, <3>2, <3>5
      <4>2. l = 2 => s[k + i + 1] = LF
        BY <3>2 DEF Ends
      <4> QED BY <3>3, <4>1, <4>2
    <3>8. Says(s, Payloads(s, k, k + j), data, k + j)
      <4>1. Says(s, Payloads(s, k, k + j), collect_data_line(d, line), k + j)
        BY <2>2, <2>3, <2>5, <3>4, <3>6, <3>7, LineSays
      <4> QED BY <2>5, <4>1
    <3>9. k + j \in LineStarts(s)
      <4>1. k + i + l - 1 \in LineEnds(s)
        BY <3>2, <3>3, EndsLine
      <4>2. k + j \in 1..Len(s)
        BY <1>0, <3>5
      <4>3. (k + j) - 1 = k + i + l - 1
        BY <3>1, <3>2, <3>5
      <4> QED BY <4>1, <4>2, <4>3 DEF LineStarts
    <3>10. PICK to: to = Here(j, j, data)
      OBVIOUS
    <3>11. to.i = j /\ to.line_start = j /\ to.data = data /\ to \in Heres(e)
      <4>1. data \in Datas /\ j \in 1..Len(e) + 1
        BY <1>0, <2>4, CollectedType
      <4> QED BY <3>10, <4>1, HeresAre
    <3>12. HasRead(s, k, e, to)
      <4>1. \A q \in j..j - 1: e[q] \notin {LF, CR}
        OBVIOUS
      <4>2. j <= j
        OBVIOUS
      <4> QED BY <3>8, <3>9, <3>11, <4>1, <4>2 DEF HasRead
    <3>13. looper(e)[at] = looper(e)[to]
      BY <2>1, <2>4, <2>6, <2>8, <3>5, <3>10, LooperRound
    <3> QED BY <2>0, <2>1, <3>5, <3>11, <3>12, <3>13
  <2>9. CASE i <= n /\ ~(l > 0)
    <3>1. i \in 1..Len(e) /\ ~(at.i > Len(e))
      BY <1>0, <2>1, <2>9
    <3>2. e[i] \notin {LF, CR}
      BY <2>6, <2>9, <3>1, InPlaceTerm
    <3>3. PICK to: to = Here(i + 1, a, d)
      OBVIOUS
    <3>4. to.i = i + 1 /\ to.line_start = a /\ to.data = d /\ to \in Heres(e)
      <4>1. i + 1 \in 1..Len(e) + 1
        BY <3>1
      <4> QED BY <3>3, <4>1, HeresAre
    <3>5. \A q \in a..(i + 1) - 1: e[q] \notin {LF, CR}
      BY <2>2, <3>1, <3>2
    <3>6. a <= i + 1
      BY <2>2
    <3>7. HasRead(s, k, e, to)
      BY <2>2, <3>4, <3>5, <3>6 DEF HasRead
    <3>8. looper(e)[at] = looper(e)[to]
      BY <2>1, <2>6, <2>9, <3>1, <3>3, LooperRound
    <3>9. to.i > at.i
      BY <2>1, <3>4
    <3> QED BY <2>0, <3>4, <3>7, <3>8, <3>9
  <2> QED BY <1>0, <2>7, <2>8, <2>9
<1>2. Heres(e) \subseteq T
  <2> HIDE DEF T
  <2> QED BY <1>1, LoopInduction
<1> QED BY <1>2

(* The event says what its data: lines in the stream say.                   *)
LEMMA EventSays ==
  ASSUME NEW s \in Seq(Byte), NEW k \in Nat, NEW e \in Seq(Byte),
         InPlace(s, k, e)
  PROVE  Says(s, Payloads(s, k, k + Len(e) + 1), event_data(e), k + Len(e) + 1)
<1>1. PICK at: at = Here(1, 1, <<>>)
  OBVIOUS
<1>2. Len(e) \in Nat /\ <<>> \in Datas
  BY EmptySeq DEF Datas
<1>3. at.i = 1 /\ at.line_start = 1 /\ at.data = <<>> /\ at \in Heres(e)
  <2>1. 1 \in 1..Len(e) + 1
    BY <1>2
  <2> QED BY <1>1, <1>2, <2>1, HeresAre
<1>4. Starts(s, k, k + 1) = {}
  BY DEF Starts, LineStarts
<1>5. Says(s, Payloads(s, k, k + 1), <<>>, k + 1)
  <2>1. DOMAIN Payloads(s, k, k + 1) = {}
    BY <1>4 DEF Payloads
  <2>2. Places(Payloads(s, k, k + 1)) = {}
    BY <2>1, PlacesNone
  <2> QED BY <2>1, <2>2 DEF Says, Before, Holds
<1>6. HasRead(s, k, e, at)
  <2>1. \A q \in 1..1 - 1: e[q] \notin {LF, CR}
    OBVIOUS
  <2> QED BY <1>3, <1>5, <2>1 DEF HasRead, InPlace
<1>7. event_data(e) = looper(e)[at]
  BY <1>1, EventDataIs
<1> QED BY <1>3, <1>6, <1>7, LoopReads
-----------------------------------------------------------------------------
(* A place where an event ends, and the bytes behind it.                    *)
CutAt(s, k) == k = 0 \/ k \in BlankEnds(s)

Behind(s, k) == SubSeq(s, k + 1, Len(s))

LEMMA BehindIs ==
  ASSUME NEW s \in Seq(Byte), NEW k \in 0..Len(s), NEW b, b = Behind(s, k)
  PROVE  /\ b \in Seq(Byte) /\ Len(b) = Len(s) - k
         /\ \A i \in 1..Len(b): b[i] = s[k + i]
<1>1. Len(s) \in Nat /\ k + 1 \in 1..Len(s) + 1 /\ b = SubSeq(s, k + 1, Len(s))
  BY DEF Behind
<1>2. /\ b \in Seq(Byte) /\ Len(b) = Len(s) + 1 - (k + 1)
      /\ \A i \in 1..Len(b): b[i] = s[(k + 1) + i - 1]
  BY <1>1, SubSeqFrom
<1>3. Len(b) = Len(s) - k
  BY <1>1, <1>2
<1>4. ASSUME NEW i \in 1..Len(b) PROVE b[i] = s[k + i]
  <2>1. (k + 1) + i - 1 = k + i
    BY <1>1, <1>3
  <2>2. b[i] = s[(k + 1) + i - 1]
    BY <1>2
  <2> QED BY <2>1, <2>2
<1> QED BY <1>2, <1>3, <1>4

LEMMA BehindEnds ==
  ASSUME NEW s \in Seq(Byte), NEW k \in 0..Len(s), NEW b, b = Behind(s, k),
         NEW i \in 1..Len(b), NEW l \in {1, 2}
  PROVE  /\ Ends(b, i, l) <=> Ends(s, k + i, l)
         /\ Clean(s, k + i) => Clean(b, i)
<1>00. Len(s) \in Nat /\ Len(b) \in Nat /\ Len(b) = Len(s) - k
  BY BehindIs
<1>0. PICK n \in Nat, m \in Nat: n = Len(s) /\ m = Len(b) /\ m = n - k
  BY <1>00
<1>1. \A q \in 1..m: b[q] = s[k + q]
  BY SMTT(30), <1>0, BehindIs
<1>2. b[i] = s[k + i] /\ (i < m => b[i + 1] = s[k + i + 1])
  <2>1. i < m => i + 1 \in 1..m /\ k + (i + 1) = k + i + 1
    BY <1>0
  <2> QED BY <1>0, <1>1, <2>1
<1>3. /\ i + l <= m + 1 <=> k + i + l <= n + 1
      /\ i < m <=> k + i < n
  BY <1>0
<1>4. Ends(b, i, l) <=> Ends(s, k + i, l)
  BY <1>0, <1>2, <1>3 DEF Ends
<1>5. ASSUME ~Clean(b, i) PROVE ~Clean(s, k + i)
  <2>1. i \in 2..m /\ b[i - 1] = CR /\ b[i] = LF
    BY <1>0, <1>5 DEF Clean
  <2>2. i - 1 \in 1..m /\ k + (i - 1) = (k + i) - 1 /\ k + i \in 2..n
    BY <1>0, <2>1
  <2>3. s[(k + i) - 1] = CR /\ s[k + i] = LF
    <3>1. b[i - 1] = s[k + (i - 1)]
      BY <1>1, <2>2
    <3> QED BY <1>2, <2>1, <2>2, <3>1
  <2> QED BY <1>0, <2>2, <2>3 DEF Clean
<1> QED BY <1>4, <1>5

LEMMA CutIsClean ==
  ASSUME NEW s \in Seq(Byte), NEW k \in 0..Len(s), CutAt(s, k)
  PROVE  /\ Clean(s, k + 1)
         /\ k + 1 <= Len(s) => k + 1 \in LineStarts(s)
<1>0. Len(s) \in Nat
  OBVIOUS
<1>1. CASE k = 0
  <2>1. k + 1 = 1
    BY <1>1
  <2> QED BY <1>0, <2>1 DEF Clean, LineStarts
<1>2. CASE k # 0
  <2>1. k \in LineEnds(s)
    BY <1>2 DEF CutAt, BlankEnds
  <2>2. PICK x \in 1..Len(s), l \in {1, 2}: Ends(s, x, l) /\ x + l = k + 1
    BY <2>1, LineEndIs
  <2>3. Clean(s, x + l)
    BY <2>2, CleanAfter
  <2>4. k + 1 <= Len(s) => k + 1 \in 1..Len(s) /\ (k + 1) - 1 = k
    BY <1>0
  <2>5. k + 1 <= Len(s) => k + 1 \in LineStarts(s)
    BY <2>1, <2>4 DEF LineStarts
  <2> QED BY <2>2, <2>3, <2>5
<1> QED BY <1>1, <1>2

LEMMA BlankIs ==
  ASSUME NEW s \in Seq(Byte), NEW p \in BlankEnds(s)
  PROVE  \E y \in 1..Len(s), m \in {1, 2}:
           y \in LineStarts(s) /\ Ends(s, y, m) /\ y + m = p + 1
<1>0. Len(s) \in Nat /\ LF # CR /\ p \in LineEnds(s) /\ p \in 1..Len(s)
  BY DEF BlankEnds, LineEnds, LF, CR
<1>1. PICK y \in 1..Len(s), m \in {1, 2}: Ends(s, y, m) /\ Clean(s, y) /\ y + m = p + 1
  BY <1>0, LineEndIs
<1>2. \/ p \in LineStarts(s)
      \/ p - 1 \in LineStarts(s) /\ s[p - 1] = CR /\ s[p] = LF
  BY DEF BlankEnds
<1>3. CASE m = 1
  <2>1. y = p
    BY <1>0, <1>1, <1>3
  <2>2. ASSUME p - 1 \in LineStarts(s), s[p - 1] = CR, s[p] = LF PROVE FALSE
    <3>1. p \in 2..Len(s)
      BY <1>0, <2>2 DEF LineStarts
    <3> QED BY <1>1, <2>1, <2>2, <3>1 DEF Clean
  <2> QED BY <1>1, <1>2, <2>1, <2>2
<1>4. CASE m = 2
  <2>1. y = p - 1 /\ p = y + 1
    BY <1>0, <1>1, <1>4
  <2>2. s[y] = CR /\ s[y + 1] = LF
    BY <1>1, <1>4 DEF Ends
  <2>3. p \notin LineStarts(s)
    <3>1. p # 1
      BY <1>1, <2>1
    <3>2. y \notin LineEnds(s)
      BY <1>0, <2>2 DEF LineEnds
    <3> QED BY <2>1, <3>1, <3>2 DEF LineStarts
  <2> QED BY <1>1, <1>2, <2>1, <2>3
<1> QED BY <1>3, <1>4

(* A blank line behind a cut either comes first there, or is at or behind   *)
(* the boundary that the scanner finds.                                     *)
Leading(s, k, p) == \E m \in {1, 2}: Ends(s, k + 1, m) /\ p = k + m

LEMMA BlankBehind ==
  ASSUME NEW s \in Seq(Byte), NEW k \in 0..Len(s), CutAt(s, k), NEW b, b = Behind(s, k),
         NEW p \in BlankEnds(s), p > k
  PROVE  \/ Leading(s, k, p)
         \/ find_event_boundary(b) # NoBoundary /\ k + find_event_boundary(b)[2] - 1 <= p
<1>0. PICK n \in Nat, c \in Nat: n = Len(s) /\ c = Len(b) /\ c = n - k /\ b \in Seq(Byte)
  BY BehindIs
<1>00. p \in 1..n
  BY <1>0 DEF BlankEnds, LineEnds
<1>1. PICK y \in 1..Len(s), m \in {1, 2}:
        y \in LineStarts(s) /\ Ends(s, y, m) /\ y + m = p + 1
  BY BlankIs
<1>2. y >= k + 1
  <2>1. y < k + 1 => y + m <= k + 1
    BY <1>0, <1>1, CutIsClean, CleanAfter
  <2> QED BY <1>0, <1>00, <1>1, <2>1
<1>3. CASE y = k + 1
  <2>1. p = k + m
    BY <1>0, <1>00, <1>1, <1>3
  <2> QED BY <1>1, <1>3, <2>1 DEF Leading
<1>4. CASE y > k + 1
  <2>1. y - 1 \in LineEnds(s)
    <3>1. y # 1
      BY <1>4
    <3> QED BY <1>1, <3>1 DEF LineStarts
  <2>2. PICK x \in 1..Len(s), l \in {1, 2}: Ends(s, x, l) /\ Clean(s, x) /\ x + l = (y - 1) + 1
    BY <2>1, LineEndIs
  <2>3. x + l = y
    BY <1>1, <2>2
  <2>4. x >= k + 1
    <3>1. x < k + 1 => x + l <= k + 1
      BY <1>0, <2>2, CutIsClean, CleanAfter
    <3> QED BY <1>0, <1>4, <2>3, <3>1
  <2>5. PICK x1 \in 1..c, y1 \in 1..c: x = k + x1 /\ y = k + y1
    <3>1. x - k \in 1..c /\ y - k \in 1..c /\ x = k + (x - k) /\ y = k + (y - k)
      BY <1>0, <1>2, <2>4
    <3> QED BY <3>1
  <2>6. Ends(b, x1, l) /\ Ends(b, y1, m) /\ Clean(b, x1)
    <3>1. Ends(b, x1, l) /\ Clean(b, x1)
      <4>1. x1 \in 1..Len(b) /\ Ends(s, k + x1, l) /\ Clean(s, k + x1)
        BY <1>0, <2>2, <2>5
      <4> QED BY <4>1, BehindEnds
    <3>2. Ends(b, y1, m)
      <4>1. y1 \in 1..Len(b) /\ Ends(s, k + y1, m)
        BY <1>0, <1>1, <2>5
      <4> QED BY <4>1, BehindEnds
    <3> QED BY <3>1, <3>2
  <2>7. y1 = x1 + l
    BY <2>3, <2>5
  <2>8. PICK at: at = find_event_boundary(b)
    OBVIOUS
  <2>9. at = search(b)[1]
    BY <2>8, BoundaryIsSearched
  <2>10. 1 \in 1..Len(b) + 1 /\ 1 <= x1 /\ x1 \in 1..Len(b) /\ y1 \in 1..Len(b)
    BY <1>0
  <2>11. at # NoBoundary /\ at[2] <= y1 + m
    <3>1. b \in Seq(Byte)
      BY <1>0
    <3>2. \A i \in 1..Len(b) + 1:
            i <= x1 => search(b)[i] # NoBoundary /\ search(b)[i][2] <= y1 + m
      <4>1. x1 \in 1..Len(b) /\ y1 \in 1..Len(b) /\ l \in {1, 2} /\ m \in {1, 2}
        BY <2>10
      <4>2. Clean(b, x1) /\ Ends(b, x1, l) /\ y1 = x1 + l /\ Ends(b, y1, m)
        BY <2>6, <2>7
      <4> QED BY ONLY <3>1, <4>1, <4>2, WalkFinds
    <3> QED BY <2>9, <2>10, <3>2
  <2>12. PICK j \in 1..Len(b), l1 \in {1, 2}, l2 \in {1, 2}: at = <<j, j + l1 + l2>>
    BY SMTT(30), <1>0, <2>8, <2>11, BoundaryFinds DEF Found
  <2>13. PICK z \in Nat: z = at[2]
    BY <2>12
  <2>14. k + z - 1 <= p
    BY SMTT(30), <1>1, <1>00, <2>5, <2>11, <2>13
  <2> QED BY <2>8, <2>11, <2>13, <2>14
<1> QED BY <1>2, <1>3, <1>4

(* The boundary that is found behind a cut: the event before it, in its     *)
(* place, and the next cut.                                                 *)
NextCut(s, k) == k + find_event_boundary(Behind(s, k))[2] - 1

LEMMA BoundaryIn ==
  ASSUME NEW s \in Seq(Byte), NEW k \in 0..Len(s), CutAt(s, k), NEW b, b = Behind(s, k),
         find_event_boundary(b) # NoBoundary
  PROVE  /\ EventOf(b) \in Seq(Byte) /\ InPlace(s, k, EventOf(b))
         /\ NextCut(s, k) \in 0..Len(s) /\ NextCut(s, k) > k + Len(EventOf(b)) + 1
         /\ NextCut(s, k) \in BlankEnds(s)
         /\ \A q \in k + Len(EventOf(b)) + 1..NextCut(s, k): s[q] \in {LF, CR}
         /\ Rest(b) = Behind(s, NextCut(s, k))
<1>00. Len(s) \in Nat /\ Len(b) \in Nat /\ Len(b) = Len(s) - k /\ b \in Seq(Byte)
  BY BehindIs
<1>0. PICK n \in Nat, c \in Nat: n = Len(s) /\ c = Len(b) /\ c = n - k
  BY <1>00
<1>1. \A q \in 1..c: b[q] = s[k + q]
  <2>1. \A q \in 1..Len(b): b[q] = s[k + q]
    BY BehindIs
  <2> QED BY <1>0, <2>1
<1>2. PICK at: at = find_event_boundary(b)
  OBVIOUS
<1>3. PICK j \in 1..Len(b), l1 \in {1, 2}, l2 \in {1, 2}:
        /\ at = <<j, j + l1 + l2>> /\ j + l1 + l2 <= Len(b) + 1
        /\ l1 = term_at(b, j) /\ l2 = term_at(b, j + l1)
  <2>1. Found(b, 1, at)
    BY <1>00, <1>2, BoundaryFinds
  <2> QED BY <2>1 DEF Found
<1>4. PICK y \in 1..c: y = j + l1
  BY <1>0, <1>3
<1>5. Ends(b, j, l1) /\ Ends(b, y, l2)
  <2>1. l1 > 0 /\ l2 > 0
    OBVIOUS
  <2>2. Ends(b, j, l1)
    BY <1>00, <1>3, <2>1, TermEnds
  <2>3. l2 = term_at(b, y) /\ y \in 1..Len(b)
    BY <1>0, <1>3, <1>4
  <2>4. Ends(b, y, l2)
    BY <1>00, <2>1, <2>3, TermEnds
  <2> QED BY <2>2, <2>4
<1>6. Ends(s, k + j, l1) /\ Ends(s, k + y, l2)
  <2>1. Ends(s, k + j, l1)
    BY <1>5, BehindEnds
  <2>2. y \in 1..Len(b)
    BY <1>0
  <2>3. Ends(s, k + y, l2)
    BY <1>5, <2>2, BehindEnds
  <2> QED BY <2>1, <2>3
<1>7. PICK e, p: e = EventOf(b) /\ p = NextCut(s, k)
  OBVIOUS
<1>8. e = SubSeq(b, 1, j - 1) /\ p = k + (j + l1 + l2) - 1
  <2>1. at[1] = j /\ at[2] = j + l1 + l2
    BY <1>3
  <2>2. e = SubSeq(b, 1, at[1] - 1) /\ p = k + at[2] - 1
    BY <1>2, <1>7 DEF EventOf, NextCut
  <2> QED BY <2>1, <2>2
<1>9. /\ e \in Seq(Byte) /\ Len(e) = j - 1
      /\ \A q \in 1..j - 1: e[q] = b[q]
  <2>1. 1 \in 1..Len(b) + 1 /\ j \in 1..Len(b) + 1
    BY <1>00
  <2>2. /\ e \in Seq(Byte) /\ Len(e) = j - 1
        /\ \A q \in 1..j - 1: e[q] = b[1 + q - 1]
    BY <1>00, <1>8, <2>1, CutIs
  <2>3. ASSUME NEW q \in 1..j - 1 PROVE e[q] = b[q]
    <3>1. 1 + q - 1 = q
      OBVIOUS
    <3> QED BY <2>2, <3>1
  <2> QED BY <2>2, <2>3
<1>10. p = k + y + l2 - 1 /\ p \in 0..n /\ k + Len(e) + 1 = k + j /\ p > k + j /\ k + j <= n
  <2>0. /\ k \in Nat /\ j \in Nat /\ y \in Nat /\ l1 \in {1, 2} /\ l2 \in {1, 2}
        /\ j + l1 + l2 <= c + 1 /\ y = j + l1 /\ c = n - k /\ p = k + (j + l1 + l2) - 1
        /\ Len(e) = j - 1 /\ j >= 1
    BY <1>0, <1>3, <1>4, <1>8, <1>9
  <2>1. p = k + y + l2 - 1
    BY ONLY <2>0
  <2>2. p \in 0..n
    BY ONLY <2>0, n \in Nat
  <2>3. k + Len(e) + 1 = k + j
    BY ONLY <2>0
  <2>4. p > k + j /\ k + j <= n
    BY ONLY <2>0, n \in Nat
  <2> QED BY <2>1, <2>2, <2>3, <2>4
<1>11. InPlace(s, k, e)
  <2>1. k + Len(e) + 1 <= Len(s) /\ k + 1 <= Len(s)
    BY <1>0, <1>10
  <2>2. k + 1 \in LineStarts(s)
    BY <2>1, CutIsClean
  <2>3. ASSUME NEW i \in 1..Len(e) PROVE e[i] = s[k + i]
    <3>1. i \in 1..c /\ i \in 1..j - 1
      BY <1>0, <1>9
    <3> QED BY <1>1, <1>9, <3>1
  <2>4. s[k + Len(e) + 1] \in {LF, CR}
    <3>1. s[k + j] \in {LF, CR}
      BY <1>6 DEF Ends
    <3> QED BY <1>10, <3>1
  <2>5. Len(e) = 0 \/ e[Len(e)] \notin {LF, CR}
    <3>1. at = search(b)[1] /\ 1 \in 1..Len(b) + 1 /\ at[1] = j
      <4>1. at = search(b)[1]
        BY <1>2, BoundaryIsSearched
      <4>2. at[1] = j
        BY <1>3
      <4> QED BY <1>00, <4>1, <4>2
    <3>2. j = 1 \/ b[j - 1] \notin {LF, CR}
      BY <1>00, <1>2, <3>1, WalkStops
    <3>3. CASE j = 1
      BY <1>9, <3>3
    <3>4. CASE j # 1 /\ b[j - 1] \notin {LF, CR}
      <4>1. j - 1 \in 1..j - 1
        BY <3>4
      <4>2. e[j - 1] = b[j - 1]
        BY <1>9, <4>1
      <4> QED BY <1>9, <3>4, <4>2
    <3> QED BY <3>2, <3>3, <3>4
  <2> QED BY <2>1, <2>2, <2>3, <2>4, <2>5 DEF InPlace
<1>12. k + y \in LineStarts(s)
  <2>1. k + j \in 1..Len(s) /\ k + y \in 1..Len(s)
    BY <1>0
  <2>2. k + j + l1 - 1 \in LineEnds(s)
    BY <1>6, <2>1, EndsLine
  <2>3. (k + y) - 1 = k + j + l1 - 1
    BY <1>4
  <2> QED BY <2>1, <2>2, <2>3 DEF LineStarts
<1>13. p \in BlankEnds(s)
  <2>1. k + y \in 1..Len(s)
    BY <1>0
  <2>2. k + y + l2 - 1 \in LineEnds(s)
    BY <1>6, <2>1, EndsLine
  <2>3. p \in LineEnds(s)
    BY <1>10, <2>2
  <2>4. CASE l2 = 1
    <3>1. p = k + y
      BY <1>10, <2>4
    <3> QED BY <1>12, <2>3, <3>1 DEF BlankEnds
  <2>5. CASE l2 = 2
    <3>1. p - 1 = k + y /\ p = k + y + 1
      BY <1>10, <2>5
    <3>2. s[k + y] = CR /\ s[k + y + 1] = LF
      BY <1>6, <2>5 DEF Ends
    <3> QED BY <1>12, <2>3, <3>1, <3>2 DEF BlankEnds
  <2> QED BY <2>4, <2>5
<1>14. ASSUME NEW q \in k + Len(e) + 1..p PROVE s[q] \in {LF, CR}
  <2>1. \/ q = k + j \/ (l1 = 2 /\ q = k + j + 1)
        \/ q = k + y \/ (l2 = 2 /\ q = k + y + 1)
    BY <1>4, <1>10
  <2>2. /\ s[k + j] \in {LF, CR} /\ (l1 = 2 => s[k + j + 1] = LF)
        /\ s[k + y] \in {LF, CR} /\ (l2 = 2 => s[k + y + 1] = LF)
    BY SMTT(30), <1>6 DEF Ends
  <2> QED BY <2>1, <2>2
<1>15. Rest(b) = Behind(s, p)
  <2>1. PICK z \in 1..c + 1: z = j + l1 + l2 /\ z = at[2] /\ p + 1 = k + z
    <3>1. at[2] = j + l1 + l2
      BY <1>3
    <3>2. j + l1 + l2 \in 1..c + 1 /\ p + 1 = k + (j + l1 + l2)
      <4>1. /\ k \in Nat /\ j \in Nat /\ l1 \in {1, 2} /\ l2 \in {1, 2} /\ c \in Nat
            /\ j + l1 + l2 <= c + 1 /\ p = k + (j + l1 + l2) - 1 /\ j >= 1
        BY <1>0, <1>3, <1>8
      <4> QED BY ONLY <4>1
    <3> QED BY <3>1, <3>2
  <2>2. PICK u, v: u = Rest(b) /\ v = Behind(s, p)
    OBVIOUS
  <2>3. u = SubSeq(b, z, Len(b))
    BY <1>2, <2>1, <2>2 DEF Rest
  <2>4. u \in Seq(Byte) /\ Len(u) = c + 1 - z /\ \A i \in 1..Len(u): u[i] = b[z + i - 1]
    <3>1. b \in Seq(Byte) /\ z \in 1..Len(b) + 1
      BY <1>0, <1>00
    <3>2. u \in Seq(Byte) /\ Len(u) = Len(b) + 1 - z /\ \A i \in 1..Len(u): u[i] = b[z + i - 1]
      BY ONLY <2>3, <3>1, SubSeqFrom
    <3> QED BY <1>0, <3>2
  <2>5. v \in Seq(Byte) /\ Len(v) = n - p /\ \A i \in 1..Len(v): v[i] = s[p + i]
    BY ZenonT(30), <1>0, <1>10, <2>2, BehindIs
  <2>6. Len(u) = Len(v)
    BY SMTT(30), <1>0, <1>10, <2>1, <2>4, <2>5
  <2>7. ASSUME NEW i \in 1..Len(u) PROVE u[i] = v[i]
    <3>1. z + i - 1 \in 1..c /\ k + (z + i - 1) = p + i
      BY SMTT(30), <1>0, <1>10, <2>1, <2>4
    <3>2. b[z + i - 1] = s[k + (z + i - 1)]
      BY <1>1, <3>1
    <3> QED BY <2>4, <2>5, <2>6, <3>1, <3>2
  <2>8. u = v
    BY <2>4, <2>5, <2>6, <2>7, SeqEqual
  <2> QED BY <2>2, <2>8
<1>16. p \in 0..Len(s) /\ p > k + Len(e) + 1
  BY <1>0, <1>10
<1> QED BY <1>7, <1>9, <1>11, <1>13, <1>14, <1>15, <1>16

(* The data: lines of the event that a blank line ends.                     *)
LEMMA DataOf ==
  ASSUME NEW s \in Seq(Byte), NEW p
  PROVE  /\ DOMAIN Data(s, p) = {a \in LineStarts(s): /\ a < p /\ s[a] = "data:"
                                                      /\ \A q \in BlankEnds(s): q < p => q < a}
         /\ \A a \in DOMAIN Data(s, p): Data(s, p)[a] = Payload(s, a)
BY DEF Data

LEMMA DataOfLeading ==
  ASSUME NEW s \in Seq(Byte), NEW k \in 0..Len(s), CutAt(s, k), NEW p, Leading(s, k, p)
  PROVE  DOMAIN Data(s, p) = {}
<1>0. Len(s) \in Nat
  OBVIOUS
<1>1. PICK m \in {1, 2}: Ends(s, k + 1, m) /\ p = k + m
  BY DEF Leading
<1>2. "data:" \notin {LF, CR}
  BY DEF LF, CR
<1>3. ASSUME NEW a \in LineStarts(s), a < p, s[a] = "data:",
             \A q \in BlankEnds(s): q < p => q < a
      PROVE  FALSE
  <2>1. k < a /\ a \in 1..Len(s)
    <3>1. a \in 1..Len(s)
      BY DEF LineStarts
    <3>2. k < p
      BY <1>1
    <3> QED BY <1>3, <3>1, <3>2 DEF CutAt
  <2>2. a = k + 1
    BY <1>1, <1>3, <2>1
  <2> QED BY <1>1, <1>2, <1>3, <2>2 DEF Ends
<1> QED BY <1>3, DataOf

LEMMA DataOfNext ==
  ASSUME NEW s \in Seq(Byte), NEW k \in 0..Len(s), CutAt(s, k), NEW b, b = Behind(s, k),
         find_event_boundary(b) # NoBoundary
  PROVE  Data(s, NextCut(s, k)) = Payloads(s, k, k + Len(EventOf(b)) + 1)
<1>0. PICK n \in Nat: n = Len(s)
  OBVIOUS
<1>01. PICK x: x = k + Len(EventOf(b)) + 1
  OBVIOUS
<1>1. PICK p \in 0..n: p = NextCut(s, k) /\ x = k + Len(EventOf(b)) + 1
  <2>1. NextCut(s, k) \in 0..Len(s)
    BY BoundaryIn
  <2> QED BY <1>0, <1>01, <2>1
<1>2. /\ p > x /\ p \in BlankEnds(s) /\ \A q \in x..p: s[q] \in {LF, CR}
      /\ EventOf(b) \in Seq(Byte)
  BY <1>1, BoundaryIn
<1>3. x \in Nat /\ k < x /\ k < p
  <2>1. Len(EventOf(b)) \in Nat
    BY <1>2
  <2> QED BY <1>1, <1>2, <2>1
<1>4. "data:" \notin {LF, CR}
  BY DEF LF, CR
<1>5. \A a \in LineStarts(s): a \in 1..n
  BY <1>0 DEF LineStarts
<1>6. ASSUME NEW a \in LineStarts(s), a < p, s[a] = "data:",
             \A q \in BlankEnds(s): q < p => q < a
      PROVE  a \in Starts(s, k, x)
  <2>1. k < a
    BY <1>3, <1>5, <1>6 DEF CutAt
  <2>2. ~(a >= x)
    <3>1. a >= x => a \in x..p
      BY <1>3, <1>5, <1>6
    <3> QED BY <1>2, <1>4, <1>6, <3>1
  <2>3. a < x
    BY <1>3, <1>5, <2>2
  <2> QED BY <1>6, <2>1, <2>3 DEF Starts
<1>7. ASSUME NEW a \in Starts(s, k, x)
      PROVE  /\ a \in LineStarts(s) /\ a < p /\ s[a] = "data:"
             /\ \A q \in BlankEnds(s): q < p => q < a
  <2>1. a \in LineStarts(s) /\ k < a /\ a < x /\ s[a] = "data:" /\ a \in 1..n
    BY <1>5 DEF Starts
  <2>2. a < p
    BY <1>2, <1>3, <2>1
  <2>3. ASSUME NEW q \in BlankEnds(s), q < p PROVE q < a
    <3>0. q \in 1..n
      BY <1>0 DEF BlankEnds, LineEnds
    <3>1. CASE q > k
      <4>1. Leading(s, k, q)
        <5>1. \/ Leading(s, k, q)
              \/ /\ find_event_boundary(b) # NoBoundary
                 /\ k + find_event_boundary(b)[2] - 1 <= q
          BY <3>1, BlankBehind
        <5>2. ~(p <= q)
          BY <2>3, <3>0
        <5>3. k + find_event_boundary(b)[2] - 1 = p
          BY <1>1 DEF NextCut
        <5> QED BY <5>1, <5>2, <5>3
      <4>2. PICK m \in {1, 2}: Ends(s, k + 1, m) /\ q = k + m
        BY <4>1 DEF Leading
      <4>3. /\ s[k + 1] \in {LF, CR}
            /\ m = 2 => s[k + 1 + 1] = LF
        BY <4>2 DEF Ends
      <4>4. a # k + 1 /\ (m = 2 => a # k + 1 + 1)
        BY <1>4, <2>1, <4>3
      <4> QED BY <2>1, <4>2, <4>4
    <3>2. CASE q <= k
      BY <2>1, <3>0, <3>2
    <3> QED BY <3>0, <3>1, <3>2
  <2> QED BY <2>1, <2>2, <2>3
<1>8. {a \in LineStarts(s): /\ a < p /\ s[a] = "data:"
                            /\ \A q \in BlankEnds(s): q < p => q < a} = Starts(s, k, x)
  BY <1>6, <1>7
<1>9. Data(s, p) = Payloads(s, k, x)
  BY <1>8 DEF Data, Payloads
<1> QED BY <1>1, <1>9

(* What an event does, in terms of the blank line that ends it.             *)
LEMMA UsageOfIs ==
  ASSUME NEW s, NEW p, NEW u
  PROVE  u \in UsageOf(s, p) <=> u \in Usages /\ Reads(s, Places(Data(s, p)), pieces[u])
BY DEF UsageOf

LEMMA IsDoneIs ==
  ASSUME NEW s \in Seq(Byte), NEW p \in Nat
  PROVE  IsDone(s, p) <=> \E a: DOMAIN Data(s, p) = {a} /\ Data(s, p)[a] = <<"[DONE]">>
<1>1. PICK f: f = Data(s, p)
  OBVIOUS
<1>2. ASSUME NEW a \in 1..p, f = [x \in {a} |-> <<"[DONE]">>]
      PROVE  DOMAIN f = {a} /\ f[a] = <<"[DONE]">>
  BY <1>2
<1>3. ASSUME NEW a, DOMAIN f = {a}, f[a] = <<"[DONE]">>
      PROVE  a \in 1..p /\ f = [x \in {a} |-> <<"[DONE]">>]
  <2>1. a \in LineStarts(s) /\ a < p
    BY <1>1, <1>3, DataOf
  <2>2. a \in 1..p
    BY <2>1 DEF LineStarts
  <2>3. f = [x \in DOMAIN f |-> f[x]]
    BY <1>1 DEF Data
  <2> QED BY <1>3, <2>2, <2>3
<1> QED BY <1>1, <1>2, <1>3 DEF IsDone

LEMMA NothingSaid ==
  ASSUME NEW s \in Seq(Byte), NEW p \in Nat, DOMAIN Data(s, p) = {}
  PROVE  UsageOf(s, p) = {} /\ ~IsDone(s, p)
<1>1. \A u: u \notin UsageOf(s, p)
  BY UsageOfIs, PlacesNone, NothingReads
<1>2. ~IsDone(s, p)
  BY IsDoneIs
<1> QED BY <1>1, <1>2

LEMMA EventEffect ==
  ASSUME NEW s \in Seq(Byte), NEW k \in 0..Len(s), CutAt(s, k), NEW b, b = Behind(s, k),
         find_event_boundary(b) # NoBoundary, NEW p, p = NextCut(s, k)
  PROVE  /\ \A u: UsageOf(s, p) = {} => UsageAfter(EventOf(b), u) = u
         /\ \A u: UsageOf(s, p) # {} => UsageAfter(EventOf(b), u) \in UsageOf(s, p)
         /\ \A d \in BOOLEAN: DoneAfter(EventOf(b), d) <=> d \/ IsDone(s, p)
<1>1. PICK e \in Seq(Byte): e = EventOf(b) /\ InPlace(s, k, e) /\ p \in Nat
  <2>1. EventOf(b) \in Seq(Byte) /\ InPlace(s, k, EventOf(b)) /\ NextCut(s, k) \in 0..Len(s)
    BY BoundaryIn
  <2> QED BY <2>1
<1>2. PICK f, d: f = Data(s, p) /\ d = event_data(e)
  OBVIOUS
<1>3. f = Payloads(s, k, k + Len(e) + 1)
  BY <1>1, <1>2, DataOfNext
<1>4. PICK x \in Nat: Says(s, f, d, x)
  <2>1. k \in Nat /\ k + Len(e) + 1 \in Nat
    BY <1>1
  <2> QED BY <1>1, <1>2, <1>3, <2>1, EventSays
<1>5. \A u \in Usages:
        d # <<>> /\ d[1] # <<"[DONE]">> /\ is_object(d[1], u) <=> u \in UsageOf(s, p)
  BY <1>2, <1>4, SaysUsage, UsageOfIs
<1>6. UsageOf(s, p) \subseteq Usages
  BY UsageOfIs
<1>7. ASSUME UsageOf(s, p) = {}, NEW u PROVE UsageAfter(e, u) = u
  <2>1. ~(d # <<>> /\ d[1] # <<"[DONE]">> /\ IsUsage(e))
    BY <1>2, <1>5, <1>7 DEF IsUsage
  <2> QED BY <1>2, <2>1 DEF UsageAfter
<1>8. ASSUME UsageOf(s, p) # {}, NEW u PROVE UsageAfter(e, u) \in UsageOf(s, p)
  <2>1. PICK v \in Usages: v \in UsageOf(s, p)
    BY <1>6, <1>8
  <2>2. d # <<>> /\ d[1] # <<"[DONE]">> /\ is_object(d[1], v)
    BY <1>5, <2>1
  <2>3. IsUsage(e)
    BY <1>2, <2>2 DEF IsUsage
  <2>4. Object(e) \in Usages /\ is_object(d[1], Object(e))
    BY <1>2, <2>2 DEF Object
  <2>5. UsageAfter(e, u) = Object(e)
    BY <1>2, <2>2, <2>3 DEF UsageAfter
  <2> QED BY <1>5, <2>2, <2>4, <2>5
<1>9. ASSUME NEW c \in BOOLEAN PROVE DoneAfter(e, c) <=> c \/ IsDone(s, p)
  <2>0. Holds(s, f, d)
    BY <1>4 DEF Says
  <2>1. d # <<>> /\ d[1] = <<"[DONE]">> <=> IsDone(s, p)
    <3>1. d # <<>> /\ d[1] = <<"[DONE]">> <=> \E a: DOMAIN f = {a} /\ f[a] = <<"[DONE]">>
      BY <2>0, SaysDone
    <3>2. IsDone(s, p) <=> \E a: DOMAIN f = {a} /\ f[a] = <<"[DONE]">>
      BY <1>1, <1>2, IsDoneIs
    <3> QED BY <3>1, <3>2
  <2> QED BY <1>2, <2>1 DEF DoneAfter
<1> QED BY <1>1, <1>7, <1>8, <1>9

(* The last usage, and whether there was a mark, up to position k.          *)
LastUsage(s, k, u) ==
  \/ u = NoUsage /\ \A p \in BlankEnds(s): p <= k => UsageOf(s, p) = {}
  \/ \E p \in BlankEnds(s):
       /\ p <= k /\ u \in UsageOf(s, p)
       /\ \A q \in BlankEnds(s): p < q /\ q <= k => UsageOf(s, q) = {}

HadMark(s, k) == \E p \in BlankEnds(s): p <= k /\ IsDone(s, p)

(* The scanner t, having consumed s up to k, has found what s says up to k. *)
Correct(s, k, t) ==
  /\ k \in 0..Len(s) /\ CutAt(s, k)
  /\ t.buf = Behind(s, k)
  /\ LastUsage(s, k, t.last_usage)
  /\ t.saw_done <=> HadMark(s, k)

LEMMA NextIsCorrect ==
  ASSUME NEW s \in Seq(Byte), NEW k, NEW t \in Scanners, Correct(s, k, t),
         find_event_boundary(t.buf) # NoBoundary
  PROVE  Correct(s, NextCut(s, k), AfterOne(t))
<1>0. k \in 0..Len(s) /\ CutAt(s, k) /\ t.buf = Behind(s, k) /\ t.saw_done \in BOOLEAN
  BY ScannersAre DEF Correct
<1>1. PICK b, p, r: b = Behind(s, k) /\ p = NextCut(s, k) /\ r = AfterOne(t)
  OBVIOUS
<1>2. find_event_boundary(b) # NoBoundary
  BY <1>0, <1>1
<1>3. p \in 0..Len(s) /\ p \in BlankEnds(s) /\ p > k /\ Rest(b) = Behind(s, p)
  <2>1. /\ EventOf(b) \in Seq(Byte) /\ NextCut(s, k) \in 0..Len(s)
        /\ NextCut(s, k) > k + Len(EventOf(b)) + 1
        /\ NextCut(s, k) \in BlankEnds(s)
        /\ Rest(b) = Behind(s, NextCut(s, k))
    BY <1>0, <1>1, <1>2, BoundaryIn
  <2>2. Len(EventOf(b)) \in Nat
    BY <2>1
  <2> QED BY <1>0, <1>1, <2>1, <2>2
<1>4. /\ \A u: UsageOf(s, p) = {} => UsageAfter(EventOf(b), u) = u
      /\ \A u: UsageOf(s, p) # {} => UsageAfter(EventOf(b), u) \in UsageOf(s, p)
      /\ \A d \in BOOLEAN: DoneAfter(EventOf(b), d) <=> d \/ IsDone(s, p)
  BY <1>0, <1>1, <1>2, EventEffect
<1>5. /\ r.buf = Rest(b) /\ r.last_usage = UsageAfter(EventOf(b), t.last_usage)
      /\ r.saw_done = DoneAfter(EventOf(b), t.saw_done)
  BY <1>0, <1>1, ScannerFields DEF AfterOne
<1>6. \A q \in BlankEnds(s): q \in Nat
  BY DEF BlankEnds, LineEnds
<1>60. p \in Nat /\ k \in Nat
  BY <1>0, <1>3
<1>7. ASSUME NEW q \in BlankEnds(s), k < q, q < p PROVE UsageOf(s, q) = {} /\ ~IsDone(s, q)
  <2>1. \/ Leading(s, k, q)
        \/ find_event_boundary(b) # NoBoundary /\ k + find_event_boundary(b)[2] - 1 <= q
    <3>1. q > k
      BY <1>0, <1>6, <1>7
    <3> QED BY <1>0, <1>1, <3>1, BlankBehind
  <2>2. k + find_event_boundary(b)[2] - 1 = p
    BY <1>1 DEF NextCut
  <2>3. ~(p <= q)
    BY <1>6, <1>60, <1>7
  <2>4. Leading(s, k, q)
    BY <2>1, <2>2, <2>3
  <2>5. DOMAIN Data(s, q) = {}
    BY <1>0, <2>4, DataOfLeading
  <2> QED BY <1>6, <2>5, NothingSaid
<1>8. \A q \in BlankEnds(s): q <= p => q <= k \/ (k < q /\ q < p) \/ q = p
  BY <1>6, <1>60
<1>9. LastUsage(s, p, r.last_usage)
  <2>1. CASE UsageOf(s, p) # {}
    <3>1. r.last_usage \in UsageOf(s, p)
      BY <1>4, <1>5, <2>1
    <3>2. p <= p /\ \A q \in BlankEnds(s): p < q /\ q <= p => UsageOf(s, q) = {}
      BY <1>6, <1>60
    <3> QED BY <1>3, <3>1, <3>2 DEF LastUsage
  <2>2. CASE UsageOf(s, p) = {}
    <3>1. r.last_usage = t.last_usage
      BY <1>4, <1>5, <2>2
    <3>2. \A q \in BlankEnds(s): q <= p => q <= k \/ UsageOf(s, q) = {}
      BY <1>7, <1>8, <2>2
    <3>3. CASE t.last_usage = NoUsage /\ \A q \in BlankEnds(s): q <= k => UsageOf(s, q) = {}
      BY <3>1, <3>2, <3>3 DEF LastUsage
    <3>4. ASSUME NEW o \in BlankEnds(s), o <= k, t.last_usage \in UsageOf(s, o),
                 \A q \in BlankEnds(s): o < q /\ q <= k => UsageOf(s, q) = {}
          PROVE  LastUsage(s, p, r.last_usage)
      <4>1. o <= p
        <5>1. o \in Nat /\ k < p
          BY <1>0, <1>3, <1>6, <1>60
        <5> QED BY <1>60, <3>4, <5>1
      <4>2. \A q \in BlankEnds(s): o < q /\ q <= p => UsageOf(s, q) = {}
        BY <3>2, <3>4
      <4> QED BY <3>1, <3>4, <4>1, <4>2 DEF LastUsage
    <3>5. LastUsage(s, k, t.last_usage)
      BY DEF Correct
    <3> QED BY <3>3, <3>4, <3>5 DEF LastUsage
  <2> QED BY <2>1, <2>2
<1>10. r.saw_done <=> HadMark(s, p)
  <2>1. r.saw_done <=> t.saw_done \/ IsDone(s, p)
    BY <1>0, <1>4, <1>5
  <2>2. t.saw_done <=> HadMark(s, k)
    BY DEF Correct
  <2>3. HadMark(s, k) => HadMark(s, p)
    <3>1. \A q \in BlankEnds(s): q <= k => q <= p
      BY <1>0, <1>3, <1>6
    <3> QED BY <3>1 DEF HadMark
  <2>4. IsDone(s, p) => HadMark(s, p)
    <3>1. p <= p
      BY <1>3
    <3> QED BY <1>3, <3>1 DEF HadMark
  <2>5. HadMark(s, p) => HadMark(s, k) \/ IsDone(s, p)
    BY <1>7, <1>8 DEF HadMark
  <2> QED BY <2>1, <2>2, <2>3, <2>4, <2>5
<1>11. Correct(s, p, r)
  BY <1>3, <1>5, <1>9, <1>10 DEF Correct, CutAt
<1> QED BY <1>1, <1>11

LEMMA DrainIsCorrect ==
  ASSUME NEW s \in Seq(Byte)
  PROVE  \A t \in Scanners:
           (\E k: Correct(s, k, t)) => /\ \E k: Correct(s, k, Drain(t))
                                       /\ find_event_boundary(Drain(t).buf) = NoBoundary
<1> DEFINE T == {t \in Scanners: (\E k: Correct(s, k, t)) =>
                   /\ \E k: Correct(s, k, Drain(t))
                   /\ find_event_boundary(Drain(t).buf) = NoBoundary}
<1>1. ASSUME NEW t \in Scanners, \A r \in Scanners: Len(r.buf) < Len(t.buf) => r \in T
      PROVE  t \in T
  <2> SUFFICES ASSUME NEW k, Correct(s, k, t)
               PROVE  /\ \E m: Correct(s, m, Drain(t))
                      /\ find_event_boundary(Drain(t).buf) = NoBoundary
    OBVIOUS
  <2>1. CASE find_event_boundary(t.buf) = NoBoundary
    <3>1. Drain(t) = t
      BY <2>1, DrainRound
    <3> QED BY <2>1, <3>1
  <2>2. CASE find_event_boundary(t.buf) # NoBoundary
    <3>1. PICK a \in Scanners: a = AfterOne(t) /\ Len(a.buf) < Len(t.buf)
      BY <2>2, AfterOneType
    <3>2. Drain(t) = Drain(a)
      BY <2>2, <3>1, DrainRound
    <3>3. Correct(s, NextCut(s, k), a)
      BY <2>2, <3>1, NextIsCorrect
    <3>4. a \in T
      BY <1>1, <3>1
    <3> QED BY <3>2, <3>3, <3>4
  <2> QED BY <2>1, <2>2
<1>2. Scanners \subseteq T
  <2> HIDE DEF T
  <2> QED BY <1>1, ScannerInduction
<1> QED BY <1>2

(* Where no boundary is left, all that the stream says has been found.      *)
LEMMA CorrectInTheEnd ==
  ASSUME NEW s \in Seq(Byte), NEW k, NEW t, Correct(s, k, t),
         find_event_boundary(t.buf) = NoBoundary
  PROVE  /\ t.last_usage \in RefUsage(s)
         /\ t.saw_done <=> \E p \in BlankEnds(s): IsDone(s, p)
<1>0. k \in 0..Len(s) /\ CutAt(s, k) /\ t.buf = Behind(s, k)
  BY DEF Correct
<1>1. \A q \in BlankEnds(s): q \in Nat
  BY DEF BlankEnds, LineEnds
<1>2. ASSUME NEW q \in BlankEnds(s), ~(q <= k) PROVE UsageOf(s, q) = {} /\ ~IsDone(s, q)
  <2>1. q > k
    BY <1>0, <1>1, <1>2
  <2>2. PICK b: b = Behind(s, k)
    OBVIOUS
  <2>3. \/ Leading(s, k, q)
        \/ find_event_boundary(b) # NoBoundary /\ k + find_event_boundary(b)[2] - 1 <= q
    BY <1>0, <2>1, <2>2, BlankBehind
  <2>4. Leading(s, k, q)
    BY <1>0, <2>2, <2>3
  <2>5. DOMAIN Data(s, q) = {}
    BY <1>0, <2>4, DataOfLeading
  <2> QED BY <1>1, <2>5, NothingSaid
<1>3. PICK found: found = {p \in BlankEnds(s): UsageOf(s, p) # {}}
  OBVIOUS
<1>4. RefUsage(s) = IF found = {} THEN {NoUsage}
                    ELSE UNION {UsageOf(s, p): p \in {p \in found: \A q \in found: q <= p}}
  BY <1>3 DEF RefUsage
<1>5. t.last_usage \in RefUsage(s)
  <2>1. CASE t.last_usage = NoUsage /\ \A p \in BlankEnds(s): p <= k => UsageOf(s, p) = {}
    <3>1. found = {}
      BY <1>2, <1>3, <2>1
    <3> QED BY <1>4, <2>1, <3>1
  <2>2. ASSUME NEW p \in BlankEnds(s), p <= k, t.last_usage \in UsageOf(s, p),
               \A q \in BlankEnds(s): p < q /\ q <= k => UsageOf(s, q) = {}
        PROVE  t.last_usage \in RefUsage(s)
    <3>1. p \in found
      BY <1>3, <2>2
    <3>2. \A q \in found: q <= p
      BY <1>1, <1>2, <1>3, <2>2
    <3> QED BY <1>4, <2>2, <3>1, <3>2
  <2>3. LastUsage(s, k, t.last_usage)
    BY DEF Correct
  <2> QED BY <2>1, <2>2, <2>3 DEF LastUsage
<1>6. t.saw_done <=> \E p \in BlankEnds(s): IsDone(s, p)
  BY <1>2 DEF Correct, HadMark
<1> QED BY <1>5, <1>6

LEMMA FreshIsCorrect ==
  ASSUME NEW s \in Seq(Byte)
  PROVE  Correct(s, 0, Scanner(s, NoUsage, FALSE))
<1>0. Len(s) \in Nat
  OBVIOUS
<1>1. PICK t: t = Scanner(s, NoUsage, FALSE)
  OBVIOUS
<1>2. t.buf = s /\ t.last_usage = NoUsage /\ t.saw_done = FALSE
  BY <1>1 DEF Scanner
<1>3. Behind(s, 0) = s
  BY SubSeqFull DEF Behind
<1>4. \A q \in BlankEnds(s): ~(q <= 0)
  BY DEF BlankEnds, LineEnds
<1>5. LastUsage(s, 0, NoUsage) /\ ~HadMark(s, 0)
  BY <1>4 DEF LastUsage, HadMark
<1>6. t.saw_done <=> HadMark(s, 0)
  <2>1. ~t.saw_done
    BY <1>1 DEF Scanner
  <2> QED BY <1>5, <2>1
<1>7. 0 \in 0..Len(s) /\ CutAt(s, 0)
  BY <1>0 DEF CutAt
<1>8. t.buf = Behind(s, 0) /\ LastUsage(s, 0, t.last_usage)
  BY <1>2, <1>3, <1>5
<1>9. Correct(s, 0, t)
  BY <1>6, <1>7, <1>8 DEF Correct
<1> QED BY <1>1, <1>9

(* For every stream, every way to cut it into chunks and every mix of line  *)
(* terminators, the scanner that has not given up holds the usage object of *)
(* the last event that is one, and has seen [DONE] if and only if some      *)
(* event says so: what find_event_boundary and process_event make of the    *)
(* bytes is what the positions of the stream's blank lines say.             *)
THEOREM ChunkingIsIrrelevant == ScannerSpec => []ChunkingIrrelevant
<1>1. StreamInv => ChunkingIrrelevant
  <2> SUFFICES ASSUME StreamInv, ~overflowed
               PROVE  /\ last_usage \in RefUsage(fed)
                      /\ saw_done <=> \E p \in BlankEnds(fed): IsDone(fed, p)
    BY DEF ChunkingIrrelevant
  <2>1. PICK s \in Seq(Byte): s = fed
    BY DEF StreamInv, ScannerTypeOK
  <2>2. PICK t: t = Scanner(buf, last_usage, saw_done)
    OBVIOUS
  <2>3. t.last_usage = last_usage /\ t.saw_done = saw_done
    BY <2>2 DEF Scanner
  <2>4. t = Drain(Scanner(s, NoUsage, FALSE))
    BY <2>1, <2>2 DEF StreamInv, AsIfAtOnce
  <2>5. PICK f \in Scanners: f = Scanner(s, NoUsage, FALSE)
    BY FreshScanner
  <2>6. Correct(s, 0, f)
    BY <2>5, FreshIsCorrect
  <2>7. PICK k: Correct(s, k, t)
    BY <2>4, <2>5, <2>6, ScannerAssumption, DrainIsCorrect
  <2>8. find_event_boundary(t.buf) = NoBoundary
    BY <2>4, <2>5, <2>6, ScannerAssumption, DrainIsCorrect
  <2>9. /\ t.last_usage \in RefUsage(s)
        /\ t.saw_done <=> \E p \in BlankEnds(s): IsDone(s, p)
    BY <2>7, <2>8, CorrectInTheEnd
  <2>10. last_usage \in RefUsage(fed)
    BY <2>1, <2>3, <2>9
  <2>11. saw_done <=> \E p \in BlankEnds(fed): IsDone(fed, p)
    BY <2>1, <2>3, <2>9
  <2> QED BY <2>10, <2>11
<1> QED BY <1>1, StreamAlways, PTL
=============================================================================
