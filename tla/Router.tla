------------------------------- MODULE Router -------------------------------
(***************************************************************************)
(* Privacy routing (router.rs).  A backend is a position of the            *)
(* configuration's backend table; a candidate list is the set of positions *)
(* that passed the filter, in config order because positions are.          *)
(*                                                                         *)
(* The policy is a parameter: choose(C) is the set of answers the policy   *)
(* may give for the candidate list C, each an index into the list (from 0) *)
(* or NoIndex.  Nothing is assumed of it, so an index may be out of range. *)
(***************************************************************************)
EXTENDS Naturals, Sequences, FiniteSets

CONSTANTS BackendTable,  \* sequence of [privacy, models, capability_tags]
          choose(_),     \* the active Policy
          NoIndex,       \* Option::None of choose
          NoBackend      \* Option::None of select

Positions == 1..Len(BackendTable)

ASSUME RouterAssumption ==
  /\ Len(BackendTable) \in Nat
  /\ \A i \in Positions: BackendTable[i].privacy \in {"Local", "External"}
  /\ NoIndex \notin Nat
  /\ NoBackend \notin Positions

-----------------------------------------------------------------------------
(* PrivacyClass::admits of the two marker types.                            *)
admits(class, privacy) == class = "Private" => privacy = "Local"

(* ClassifiedQuery::classify, the one place where privacy is decided.       *)
classify(mark_private) == IF mark_private THEN "Private" ELSE "Shareable"

(* Candidates::gather.                                                      *)
gather(class, query) ==
  {i \in Positions: /\ admits(class, BackendTable[i].privacy)
                    /\ query.model \in BackendTable[i].models
                    /\ query.required_tags \subseteq
                         BackendTable[i].capability_tags}

(* items.get(idx): the candidate with idx candidates before it, if any.     *)
item(candidates, idx) ==
  {c \in candidates: Cardinality({d \in candidates: d < c}) = idx}

(* Mutant of select: the index is applied to the whole table.               *)
selectFromTable(candidates) ==
  UNION {IF item(Positions, idx) = {} THEN {NoBackend} ELSE item(Positions, idx):
            idx \in choose(candidates)}

(* Candidates::select: the backends the policy may end up with; an answer   *)
(* outside the list selects nothing.                                        *)
select(candidates) ==
  UNION {IF item(candidates, idx) = {} THEN {NoBackend} ELSE item(candidates, idx):
            idx \in choose(candidates)}

(* Router::route and Router::resolve.                                       *)
route(query, mark_private) ==
  select(gather(classify(mark_private), query))

-----------------------------------------------------------------------------
(* Mutant of StaticPriority: the last candidate, counted from one.          *)
LastPriority(candidates) == {Cardinality(candidates)}

(* StaticPriority::choose. EwmaLatency answers the same as long as no       *)
(* latency was observed, which is all the server ever lets it see.          *)
StaticPriority(candidates) == {IF candidates = {} THEN NoIndex ELSE 0}
=============================================================================
