--------------------------- MODULE RelayContract ---------------------------
(***************************************************************************)
(* What the SSE relay promises the server's accounting task, whatever the  *)
(* upstream and the client do: it observes usage objects one after the     *)
(* other and then delivers, once, how the stream ended together with the   *)
(* last usage it had observed (upstream.rs, RelaySummary).                 *)
(***************************************************************************)
CONSTANTS Usages,    \* the usage objects an upstream can report
          NoUsage    \* Option::None

VARIABLES usage,     \* the last usage object observed
          summary    \* the summaries delivered on the channel, oldest first

vars == <<usage, summary>>

Outcomes == {"Completed", "UpstreamError", "Stalled", "ClientDisconnected"}

Init == /\ usage = NoUsage
        /\ summary = <<>>

Scan == /\ summary = <<>>
        /\ usage' \in Usages
        /\ UNCHANGED summary

End == /\ summary = <<>>
       /\ \E o \in Outcomes: summary' = <<[outcome |-> o, usage |-> usage]>>
       /\ UNCHANGED usage

Next == Scan \/ End

Spec == Init /\ [][Next]_vars

(* A relay cannot stay live for ever: the consumer is always told.          *)
FairSpec == Spec /\ WF_vars(End)
=============================================================================
