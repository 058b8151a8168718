----------------------------- MODULE MCCombine -----------------------------
(* Combine on rank 0 of two with two local experts: four groups.           *)
EXTENDS Combine

\* One group has more rows than sub-warps, some have none.
MCLayouts == {[g \in Groups |-> IF g = 0 THEN 3 ELSE IF g = 2 THEN 1 ELSE 0],
              [g \in Groups |-> 0]}
MCNeeds == [t \in TokenIds |-> IF t = 0 THEN {0, NumExperts - 1} ELSE {1}]
=============================================================================
