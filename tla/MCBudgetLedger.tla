--------------------------- MODULE MCBudgetLedger ---------------------------
(* BudgetLedger for TLC.                                                     *)
EXTENDS BudgetLedger, TLC

(* The total is limited to a single token.                                  *)
MCLimits == [d \in Dims |-> IF d = "total" THEN 1 ELSE Unlimited]

(* Every request is expected to need one token of each kind...              *)
OneToken == {[d \in Dims |-> 1]}

(* ...and needs one or two.                                                 *)
OneOrTwoTokens == {[d \in Dims |-> n]: n \in {1, 2}}

Symmetry == Permutations(Workers)
=============================================================================
