---------------------------- MODULE UsageScanner ----------------------------
(***************************************************************************)
(* The usage scanner of the relay (upstream.rs): it is fed a copy of the   *)
(* byte stream, in chunks cut anywhere, finds the SSE events in it, and    *)
(* remembers the last usage object and the [DONE] marker.                  *)
(*                                                                         *)
(* A byte is a line terminator or a piece of text that contains none: the  *)
(* field name "data:", "[DONE]", a part of a JSON object with a usage in   *)
(* it, or anything else. The object may go over several data: lines; it is *)
(* divided into parts where JSON allows white space.                       *)
(***************************************************************************)
EXTENDS Usage, Integers, Sequences, SequencesExt

CONSTANTS Parts,           \* the parts of the objects
          pieces,          \* usage -> the parts of an object with that usage
          Chunks,          \* the chunks that may arrive
          MaxEventBuffer,  \* MAX_EVENT_BUFFER
          MaxFed           \* bound: bytes fed in all

LF == "\n"
CR == "\r"
Byte == Parts \cup {LF, CR, "data:", "[DONE]", "text"}

ASSUME ScannerAssumption ==
  /\ Chunks \subseteq Seq(Byte)
  /\ NoUsage \notin Usages
  /\ Parts \cap {LF, CR, "data:", "[DONE]", "text"} = {}
  /\ pieces \in [Usages -> Seq(Parts) \ {<<>>}]
  /\ MaxEventBuffer \in Nat /\ MaxFed \in Nat

VARIABLES fed,        \* all bytes fed so far (history)
          buf, last_usage, saw_done, overflowed

scannerVars == <<fed, buf, last_usage, saw_done, overflowed>>

ScannerTypeOK ==
  /\ fed \in Seq(Byte) /\ buf \in Seq(Byte)
  /\ last_usage \in Usages \cup {NoUsage}
  /\ saw_done \in BOOLEAN /\ overflowed \in BOOLEAN

-----------------------------------------------------------------------------
(* Term: the length of a complete terminator, or one of these.              *)
Not == 0
Incomplete == -1

(* Mutant of term_at: a CR at the end of the buffer is taken for complete.  *)
term_at_eager(b, i) ==
  IF i > Len(b) THEN Not
  ELSE CASE b[i] = LF -> 1
         [] b[i] = CR -> IF i < Len(b) /\ b[i + 1] = LF THEN 2 ELSE 1
         [] OTHER     -> Not

(* The length of the terminator at position i; Incomplete for a CR that     *)
(* may turn out to be the first half of a CR LF.                            *)
term_at(b, i) ==
  IF i > Len(b) THEN Not
  ELSE CASE b[i] = LF -> 1
         [] b[i] = CR -> IF i = Len(b) THEN Incomplete
                         ELSE IF b[i + 1] = LF THEN 2 ELSE 1
         [] OTHER     -> Not

NoBoundary == <<>>

(* <<first position after the event's text, first position after its blank  *)
(* line>> for the first complete event of b.                                *)
find_event_boundary(b) ==
  LET from[i \in 1..Len(b) + 1] ==
        LET l1 == term_at(b, i)
            l2 == term_at(b, i + l1)
        IN  IF i > Len(b) THEN NoBoundary
            ELSE IF l1 = Not THEN from[i + 1]
            ELSE IF l1 = Incomplete THEN NoBoundary
            ELSE IF l2 = Not THEN from[i + l1]
            ELSE IF l2 = Incomplete THEN NoBoundary
            ELSE <<i, i + l1 + l2>>
  IN  from[1]

(* collect_data_line, over data = <<joined payloads>> or <<>> for none yet. *)
(* The field name alone, with or without its colon, is a line with an empty *)
(* payload.                                                                 *)
collect_data_line(data, line) ==
  IF line = <<>> \/ Head(line) # "data:" THEN data
  ELSE IF data = <<>> THEN <<Tail(line)>>
  ELSE <<data[1] \o <<LF>> \o Tail(line)>>

(* The payloads of the event's data: lines, joined, by the loop over its    *)
(* bytes; at the end of the event an incomplete terminator is none.         *)
event_data(event) ==
  LET loop[at \in [i: 1..Len(event) + 1, line_start: 1..Len(event) + 1,
                   data: Seq(Seq(Byte))]] ==
        LET l    == term_at(event, at.i)
            data == collect_data_line(at.data,
                                      SubSeq(event, at.line_start, at.i - 1))
        IN  IF l > 0 THEN loop[[i |-> at.i + l, line_start |-> at.i + l,
                                data |-> data]]
            ELSE IF at.i > Len(event) THEN data
            ELSE loop[[i |-> at.i + 1, line_start |-> at.line_start,
                       data |-> at.data]]
  IN  loop[[i |-> 1, line_start |-> 1, data |-> <<>>]]

(* The positions P of s, in their order, read w.                            *)
Reads(s, P, w) ==
  \E f \in [1..Len(w) -> P]:
    /\ \A i, j \in 1..Len(w): i < j => f[i] < f[j]
    /\ \A q \in P: \E i \in 1..Len(w): f[i] = q
    /\ \A i \in 1..Len(w): s[f[i]] = w[i]

(* The text is a JSON object with usage u; JSON does not mind line breaks   *)
(* around and between its parts.                                            *)
is_object(text, u) ==
  Reads(text, {q \in DOMAIN text: text[q] # LF}, pieces[u])

(* Mutant of process_event: whatever the event says is taken for a usage.   *)
process_event_unparsed(s, event) ==
  LET data == event_data(event)
  IN  IF data = <<>> THEN s
      ELSE IF data[1] = <<"[DONE]">> THEN [s EXCEPT !.saw_done = TRUE]
      ELSE IF data[1] # <<>> THEN [s EXCEPT !.last_usage = data[1][1]]
      ELSE s

process_event(s, event) ==
  LET data == event_data(event)
  IN  IF data = <<>> THEN s
      ELSE IF data[1] = <<"[DONE]">> THEN [s EXCEPT !.saw_done = TRUE]
      ELSE IF \E u \in Usages: is_object(data[1], u)
           THEN [s EXCEPT !.last_usage = CHOOSE u \in Usages:
                                           is_object(data[1], u)]
      ELSE s

(* The while loop of feed: complete events leave the buffer one by one.     *)
Drain(scanner) ==
  LET drain[s \in [buf: Seq(Byte), last_usage: Byte \cup Usages \cup {NoUsage},
                   saw_done: BOOLEAN]] ==
        LET at == find_event_boundary(s.buf)
        IN  IF at = NoBoundary THEN s
            ELSE drain[process_event(
                         [s EXCEPT !.buf = SubSeq(s.buf, at[2], Len(s.buf))],
                         SubSeq(s.buf, 1, at[1] - 1))]
  IN  drain[scanner]

ScannerInit ==
  /\ fed = <<>> /\ buf = <<>>
  /\ last_usage = NoUsage /\ saw_done = FALSE /\ overflowed = FALSE

(* Mutant of feed: the cap is applied to the buffer as it was before.       *)
feed_late_cap(chunk) ==
  /\ Len(fed) + Len(chunk) <= MaxFed
  /\ fed' = fed \o chunk
  /\ IF overflowed THEN UNCHANGED <<buf, last_usage, saw_done, overflowed>>
     ELSE LET s == Drain([buf |-> buf \o chunk, last_usage |-> last_usage,
                          saw_done |-> saw_done])
          IN  /\ last_usage' = s.last_usage /\ saw_done' = s.saw_done
              /\ overflowed' = (Len(buf) > MaxEventBuffer)
              /\ buf' = IF overflowed' THEN <<>> ELSE s.buf

feed(chunk) ==
  /\ Len(fed) + Len(chunk) <= MaxFed
  /\ fed' = fed \o chunk
  /\ IF overflowed THEN UNCHANGED <<buf, last_usage, saw_done, overflowed>>
     ELSE LET s == Drain([buf |-> buf \o chunk, last_usage |-> last_usage,
                          saw_done |-> saw_done])
          IN  /\ last_usage' = s.last_usage /\ saw_done' = s.saw_done
              /\ overflowed' = (Len(s.buf) > MaxEventBuffer)
              /\ buf' = IF overflowed' THEN <<>> ELSE s.buf

ScannerNext == \E chunk \in Chunks: feed(chunk)

ScannerSpec == ScannerInit /\ [][ScannerNext]_scannerVars

-----------------------------------------------------------------------------
(* Reference: the events of a byte stream, by position. A line ends with    *)
(* CR LF, LF or CR; a CR at the very end of the stream is left undecided.   *)
LineEnds(s) == {p \in 1..Len(s): \/ s[p] = LF
                                 \/ s[p] = CR /\ p < Len(s) /\ s[p + 1] # LF}

LineStarts(s) == {a \in 1..Len(s): a = 1 \/ a - 1 \in LineEnds(s)}

(* A blank line is a terminator at the start of a line; it ends an event.   *)
BlankEnds(s) ==
  {p \in LineEnds(s): \/ p \in LineStarts(s)
                      \/ p - 1 \in LineStarts(s) /\ s[p - 1] = CR /\ s[p] = LF}

(* Text of the line that starts at a, without its field name.               *)
Payload(s, a) ==
  LET stop == CHOOSE q \in a..Len(s) + 1:
                /\ q = Len(s) + 1 \/ s[q] \in {LF, CR}
                /\ \A r \in a..q - 1: s[r] \notin {LF, CR}
  IN  SubSeq(s, a + 1, stop - 1)

(* Payloads of the data lines of the event that ends at p: position ->      *)
(* payload.                                                                 *)
Data(s, p) ==
  [a \in {a \in LineStarts(s): /\ a < p /\ s[a] = "data:"
                               /\ \A q \in BlankEnds(s): q < p => q < a}
     |-> Payload(s, a)]

IsDone(s, p) == \E a \in 1..p: Data(s, p) = [x \in {a} |-> <<"[DONE]">>]

(* Where the payloads stand in the stream.                                  *)
Places(payloads) ==
  UNION {a + 1..a + Len(payloads[a]): a \in DOMAIN payloads}

(* The usage objects of the event: its payloads, read one after the other,  *)
(* are the parts of one object and nothing else.                            *)
UsageOf(s, p) == {u \in Usages: Reads(s, Places(Data(s, p)), pieces[u])}

RefUsage(s) ==
  LET found == {p \in BlankEnds(s): UsageOf(s, p) # {}}
  IN  IF found = {} THEN {NoUsage}
      ELSE UNION {UsageOf(s, p): p \in {p \in found: \A q \in found: q <= p}}

(* However the stream was cut into chunks, the scanner has found what the   *)
(* stream says, unless it gave up.                                          *)
ChunkingIrrelevant ==
  ~overflowed => /\ last_usage \in RefUsage(fed)
                 /\ saw_done <=> \E p \in BlankEnds(fed): IsDone(fed, p)

(* Between two chunks the scanner holds at most MAX_EVENT_BUFFER bytes, all *)
(* of them the end of the stream and part of a single unfinished event.     *)
BufferBounded ==
  /\ Len(buf) <= MaxEventBuffer
  /\ ~overflowed => /\ IsSuffix(buf, fed)
                    /\ find_event_boundary(buf) = NoBoundary
=============================================================================
