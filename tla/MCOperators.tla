---------------------------- MODULE MCOperators ----------------------------
(* The operators over inputs of up to three left and two right tuples of  *)
(* two registers, each holding 1 or 2: enough for duplicates within and  *)
(* across the inputs, ties on one attribute and not on the other, and a   *)
(* join key that repeats on either side.                                   *)
EXTENDS Operators

MCVals == {1, 2}
MCMaxLeft == 3
MCMaxRight == 2
MCOps == {"Select", "Projection", "Sort", "HashJoin", "HashAggregation", "Union",
          "UnionAll", "Intersect", "IntersectAll", "Except", "ExceptAll"}
MCJoinOps == {"HashJoin"}
(* Projections onto a prefix of the columns, as the tests build them      *)
(* ({0}); attr_indexes such as {1} meet the Projection hazard the README  *)
(* describes.                                                              *)
MCProjs == {<<1>>, <<1, 2>>}
====
