----------------------------- MODULE MCSseRelay -----------------------------
(* SseRelay for TLC: the constants are given in MCSseRelay.cfg.             *)
EXTENDS SseRelay
=============================================================================
