--------------------------- MODULE MCUsageScanner ---------------------------
(* UsageScanner for TLC: chunks that cut lines, terminators and events in   *)
(* every way that find_event_boundary tells apart, and an object with usage *)
(* u2 that has two parts, on one data: line or on two.                      *)
EXTENDS UsageScanner

CONSTANTS u1, u2, whole, head, tail

MCPieces == u1 :> <<whole>> @@ u2 :> <<head, tail>>

MCChunks ==
  { <<LF>>, <<CR>>, <<"data:">>, <<"text">>, <<tail, LF, LF>>, <<"data:", whole>>,
    <<"data:", head>>, <<"data:", "[DONE]">>, <<LF, CR>>, <<LF, LF, "data:">> }
=============================================================================
