----------------------------- MODULE BTreeNode -----------------------------
(***************************************************************************)
(* The node operations of the B+-tree of task-btree                        *)
(* (src/task-btree/include/moderndbs/btree.h), as operators on node        *)
(* values.  A node is a record with the header's level, and two sequences *)
(* of length count: keys, and ptrs (the values of a leaf, the child page   *)
(* ids of an inner node).  Code index i is sequence position i+1.          *)
(*                                                                         *)
(* An inner node stores count keys of which the first count-1 separate its *)
(* children; the last one is the padding key, which the code still        *)
(* writes, copies on split and compares in lower_bound's found check, so  *)
(* it is kept.  Bytes beyond count are dead in the code and are left out. *)
(***************************************************************************)
EXTENDS Naturals, Sequences, SequencesExt

CONSTANTS
    LeafCap,    \* LeafNode::kCapacity
    InnerCap,   \* InnerNode::kCapacity
    NoValue     \* std::nullopt of lookup

(* A fresh page is zero-filled: level 0, count 0, an empty leaf.          *)
EmptyPage == [level |-> 0, keys |-> <<>>, ptrs |-> <<>>]

Count(n) == Len(n.ptrs)
IsLeaf(n) == n.level = 0

(* The loop of lower_bound: binary search for the first of cnt keys from  *)
(* index first on that is not less than k.                                 *)
RECURSIVE LowerBoundLoop(_, _, _, _)
LowerBoundLoop(ks, k, first, cnt) ==
    IF cnt = 0 THEN first
    ELSE LET step == cnt \div 2
             idx == first + step
         IN  IF ks[idx + 1] < k
             THEN LowerBoundLoop(ks, k, idx + 1, cnt - (step + 1))
             ELSE LowerBoundLoop(ks, k, first, step)

(* LeafNode::lower_bound searches all count keys; InnerNode::lower_bound  *)
(* the count-1 separators.  Both report found by comparing the key at the *)
(* result index, which for an inner node may be the padding key.          *)
LeafLowerBound(n, k) ==
    IF Count(n) = 0 THEN 0 ELSE LowerBoundLoop(n.keys, k, 0, Count(n))
InnerLowerBound(n, k) ==
    IF Count(n) = 0 THEN 0 ELSE LowerBoundLoop(n.keys, k, 0, Count(n) - 1)
FoundAt(n, i, k) == i < Count(n) /\ n.keys[i + 1] = k

(* InnerNode::lookup: the child to descend to for k.                       *)
InnerChild(n, k) ==
    LET i == InnerLowerBound(n, k) IN
    IF i = Count(n) THEN n.ptrs[i] ELSE n.ptrs[i + 1]

(* LeafNode::lookup.                                                       *)
LeafGet(n, k) ==
    LET i == LeafLowerBound(n, k) IN
    IF FoundAt(n, i, k) THEN n.ptrs[i + 1] ELSE NoValue

(* LeafNode::insert: overwrite a present key, else shift the tail right.  *)
LeafInsert(n, k, v) ==
    LET i == LeafLowerBound(n, k) IN
    IF Count(n) # 0 /\ FoundAt(n, i, k)
    THEN [n EXCEPT !.ptrs[i + 1] = v]
    ELSE [n EXCEPT !.keys = InsertAt(@, i + 1, k), !.ptrs = InsertAt(@, i + 1, v)]

(* Mutant: erase removes the entry at the lower bound without checking    *)
(* that it holds k.                                                        *)
LeafEraseUnchecked(n, k) ==
    LET i == LeafLowerBound(n, k) IN
    IF i >= Count(n) THEN n
    ELSE [n EXCEPT !.keys = RemoveAt(@, i + 1), !.ptrs = RemoveAt(@, i + 1)]

(* LeafNode::erase: no-op when absent, else shift the tail left.          *)
LeafErase(n, k) ==
    LET i == LeafLowerBound(n, k) IN
    IF Count(n) = 0 \/ ~FoundAt(n, i, k) THEN n
    ELSE [n EXCEPT !.keys = RemoveAt(@, i + 1), !.ptrs = RemoveAt(@, i + 1)]

(* Mutant: the separator is the first key moved to the new page.          *)
LeafSplitSepRight(n) ==
    LET l == Count(n) \div 2 + 1 IN
    [left  |-> [n EXCEPT !.keys = SubSeq(@, 1, l), !.ptrs = SubSeq(@, 1, l)],
     right |-> [level |-> 0, keys |-> SubSeq(n.keys, l + 1, Count(n)),
                ptrs |-> SubSeq(n.ptrs, l + 1, Count(n))],
     sep   |-> n.keys[l + 1]]

(* LeafNode::split: the left keeps count/2+1 entries, the separator is its *)
(* last key, the rest moves to the new page (level set by the caller).     *)
LeafSplit(n) ==
    LET l == Count(n) \div 2 + 1 IN
    [left  |-> [n EXCEPT !.keys = SubSeq(@, 1, l), !.ptrs = SubSeq(@, 1, l)],
     right |-> [level |-> 0, keys |-> SubSeq(n.keys, l + 1, Count(n)),
                ptrs |-> SubSeq(n.ptrs, l + 1, Count(n))],
     sep   |-> n.keys[l]]

(* InnerNode::init_insert on a fresh page: one separator, written twice.  *)
InitInsert(lvl, k, l, r) == [level |-> lvl, keys |-> <<k, k>>, ptrs |-> <<l, r>>]

(* InnerNode::insert of the separator k of a split child l with new right *)
(* sibling r.  At the last index the separator replaces the padding key   *)
(* and is written again as the new padding; elsewhere keys from index on  *)
(* (padding included) and children after index move right by one.         *)
InnerInsert(n, k, l, r) ==
    LET i == InnerLowerBound(n, k) IN
    IF i = Count(n) - 1
    THEN [n EXCEPT !.keys = SubSeq(@, 1, i) \o <<k, k>>, !.ptrs = Append(@, r)]
    ELSE [n EXCEPT !.keys = InsertAt(@, i + 1, k), !.ptrs = InsertAt(@, i + 2, r)]

(* The assertions of InnerNode::insert: the node is not full and has two  *)
(* children, the separator is not found and the child at its index is the *)
(* split child.                                                            *)
InnerInsertAsserts(n, k, l) ==
    LET i == InnerLowerBound(n, k) IN
    /\ 2 <= Count(n) /\ Count(n) < InnerCap
    /\ ~FoundAt(n, i, k) /\ n.ptrs[i + 1] = l

(* InnerNode::split: the left keeps (count-1)/2+1 children; the separator *)
(* is the key at (count-1)/2, which becomes the left's padding key.        *)
InnerSplit(n) ==
    LET l == (Count(n) - 1) \div 2 + 1 IN
    [left  |-> [n EXCEPT !.keys = SubSeq(@, 1, l), !.ptrs = SubSeq(@, 1, l)],
     right |-> [n EXCEPT !.keys = SubSeq(@, l + 1, Count(n)),
                         !.ptrs = SubSeq(@, l + 1, Count(n))],
     sep   |-> n.keys[l]]
=============================================================================
