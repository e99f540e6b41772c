------------------------------- MODULE Usage --------------------------------
(* What the relay and its scanner have in common: the usage objects that an *)
(* upstream can report, and their absence.                                  *)
CONSTANTS Usages,    \* the usage objects
          NoUsage    \* Option::None
=============================================================================
