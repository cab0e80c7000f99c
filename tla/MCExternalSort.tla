--------------------------- MODULE MCExternalSort ---------------------------
(* Calls of external_sort over values {1, 2} (distinct from the zeros a     *)
(* resized file or fresh memory holds).  Every input is checked for:        *)
(*   mem_size 24 (m = 3), 0 .. 13 values: no values, in memory, a full      *)
(*     2-way merge (4 .. 6), one 2-way pass with an odd number of runs      *)
(*     (7 .. 9, 13) or an even one (10 .. 12), buffers of one value;        *)
(*   mem_size 32 (m = 4), 13 values: four runs, an output buffer of two;    *)
(*   mem_size 56 (m = 7), 12 values: a 2-way merge with buffers of two      *)
(*     values, a partial last load (7 = 2 + 2 + 2 + 1) and a short last run. *)
(* The layout of the runs depends on m and n alone, so longer inputs are    *)
(* the ones with at most two positions holding the other value:             *)
(*   m = 3 with 16, 19 and 22 values: 6, 7 and 8 runs, two and three passes, *)
(*     the last run longer than RUN_SIZE when a pass starts.                *)
EXTENDS ExternalSort

MCVals == {1, 2}

Words(v) == [1 .. v -> MCVals]
Sparse(v) == {[i \in 1 .. v |-> IF i \in {x, y} THEN a ELSE 3 - a] :
                 x \in 1 .. v, y \in 1 .. v, a \in MCVals}

MCCalls ==
    {<<3, s>> : s \in UNION {Words(v) : v \in 0 .. 13}}
    \cup {<<4, s>> : s \in Words(13)}
    \cup {<<7, s>> : s \in Words(12)}
    \cup {<<3, s>> : s \in UNION {Sparse(v) : v \in {16, 19, 22}}}
=============================================================================
