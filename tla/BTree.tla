------------------------------- MODULE BTree --------------------------------
(***************************************************************************)
(* BTree::lookup, insert and erase of task-btree                           *)
(* (src/task-btree/include/moderndbs/btree.h) with the lock-coupled       *)
(* descent of get_leaf_page, run by client threads over a buffer pool     *)
(* whose fix_page latches a page shared or exclusive and whose unfix_page *)
(* drops the latch, as spec.md 4.2 and 4.3 require.                        *)
(*                                                                         *)
(* One action covers the code between two fixes: the thread blocks only   *)
(* in fix_page.  root and next_page_id are plain members, read and        *)
(* written without a latch.  An unfix of a page the thread does not hold   *)
(* (get_leaf_page and its callers both unfix the parent) leaves the latch  *)
(* as it is, one outcome of unlocking a shared_mutex one does not hold.    *)
(***************************************************************************)
EXTENDS Naturals, Sequences, FiniteSets, BTreeNode

CONSTANTS
    Threads,    \* client threads
    Keys,       \* keys, a finite set of naturals (std::less)
    Vals,       \* values
    MaxPages,   \* page ids 0 .. MaxPages-1 of the segment
    NoPage,     \* root == std::nullopt, or no page
    NoThread    \* latch not held exclusively

Pages == 0 .. MaxPages - 1
Ops == {"lookup", "insert", "erase"}

VARIABLES
    nodes,      \* page -> node stored on it
    root,       \* BTree::root
    nextPage,   \* BTree::next_page_id
    latch,      \* the page latches: [x |-> holder, s |-> shared holders]
    pc, op, key, val,
    par,        \* get_leaf_page's parent_id
    chd,        \* its child_page_id
    ret,        \* result of each thread's last lookup
    badAssert   \* some assert of the code would fail

vars == <<nodes, root, nextPage, latch, pc, op, key, val, par, chd, ret,
          badAssert>>

-----------------------------------------------------------------------------
(* fix_page(p, exclusive) can latch p; the latch it then holds.            *)
CanFix(p, ex) == latch[p].x = NoThread /\ (ex => latch[p].s = {})
Fix(L, p, t, ex) ==
    IF ex THEN [L EXCEPT ![p].x = t] ELSE [L EXCEPT ![p].s = @ \cup {t}]
HoldsIn(L, p, t) == L[p].x = t \/ t \in L[p].s

(* unfix_page(p) by t: drop t's latch; unfixing an unheld page is misuse. *)
Unfix(L, p, t) ==
    IF L[p].x = t THEN [L EXCEPT ![p].x = NoThread]
    ELSE [L EXCEPT ![p].s = @ \ {t}]

(* The fix mode of the child (CHILD_FIX_MODE): exclusive for insert, and   *)
(* for erase when the parent is at level 1, so the child is the leaf.      *)
ChildExclusive(t, parent) ==
    op[t] = "insert" \/ (op[t] = "erase" /\ parent.level = 1)

(* Mutant: split only a full node.                                        *)
MustSplitOnlyWhenFull(n) == Count(n) >= InnerCap

(* An inner node is not safe for an insert when it has kCapacity-1       *)
(* children: one more separator from below could fill it.                 *)
MustSplit(n) == Count(n) >= InnerCap - 1

(* Page allocations one insert may need: a root split (two pages), one    *)
(* split per level below it and a leaf split, or a leaf split and a new    *)
(* root above a root leaf; one more in case another insert adds a level.   *)
InsertPages == IF root = NoPage THEN 2 ELSE nodes[root].level + 3

-----------------------------------------------------------------------------
Init ==
    /\ nodes = [p \in Pages |-> EmptyPage]
    /\ root = NoPage
    /\ nextPage = 0
    /\ latch = [p \in Pages |-> [x |-> NoThread, s |-> {}]]
    /\ pc = [t \in Threads |-> "idle"]
    /\ op = [t \in Threads |-> "lookup"]
    /\ key = [t \in Threads |-> CHOOSE k \in Keys : TRUE]
    /\ val = [t \in Threads |-> CHOOSE v \in Vals : TRUE]
    /\ par = [t \in Threads |-> NoPage]
    /\ chd = [t \in Threads |-> NoPage]
    /\ ret = [t \in Threads |-> NoValue]
    /\ badAssert = FALSE

(* A client calls lookup, insert or erase.  Inserts are admitted only     *)
(* while every running insert can still allocate its pages.                *)
Call(t, o, k, v) ==
    /\ pc[t] = "idle"
    /\ o = "insert" =>
         nextPage + InsertPages
           * (1 + Cardinality({u \in Threads : pc[u] # "idle" /\ op[u] = "insert"}))
           <= MaxPages
    /\ pc' = [pc EXCEPT ![t] = "start"]
    /\ op' = [op EXCEPT ![t] = o]
    /\ key' = [key EXCEPT ![t] = k]
    /\ val' = [val EXCEPT ![t] = v]
    /\ UNCHANGED <<nodes, root, nextPage, latch, par, chd, ret, badAssert>>

(* The `if (!root)` of lookup, erase and insert, and get_leaf_page's read  *)
(* of root.  lookup and erase of an empty tree return at once.             *)
Start(t) ==
    /\ pc[t] = "start"
    /\ IF root = NoPage
       THEN /\ pc' = [pc EXCEPT ![t] = IF op[t] = "insert" THEN "newroot" ELSE "idle"]
            /\ ret' = IF op[t] = "lookup" THEN [ret EXCEPT ![t] = NoValue] ELSE ret
            /\ UNCHANGED par
       ELSE /\ par' = [par EXCEPT ![t] = root]
            /\ pc' = [pc EXCEPT ![t] = "fixroot"]
            /\ UNCHANGED ret
    /\ UNCHANGED <<nodes, root, nextPage, latch, op, key, val, chd, badAssert>>

(* Mutant: root = next_page_id without the increment.                     *)
NewRootNoIncrement(t) ==
    /\ pc[t] = "newroot"
    /\ nextPage < MaxPages
    /\ root' = nextPage
    /\ pc' = [pc EXCEPT ![t] = "fixnewroot"]
    /\ UNCHANGED <<nodes, nextPage, latch, op, key, val, par, chd, ret, badAssert>>

(* insert into an empty tree: root = next_page_id++, with no latch.       *)
NewRoot(t) ==
    /\ pc[t] = "newroot"
    /\ nextPage < MaxPages
    /\ root' = nextPage
    /\ nextPage' = nextPage + 1
    /\ pc' = [pc EXCEPT ![t] = "fixnewroot"]
    /\ UNCHANGED <<nodes, latch, op, key, val, par, chd, ret, badAssert>>

(* Then fix_page of *root, exclusive, which reads root again, set level 0, insert *)
(* the entry and unfix (the Defer).                                        *)
FixNewRoot(t) ==
    /\ pc[t] = "fixnewroot"
    /\ CanFix(root, TRUE)
    /\ nodes' = [nodes EXCEPT ![root] = LeafInsert([@ EXCEPT !.level = 0], key[t], val[t])]
    /\ pc' = [pc EXCEPT ![t] = "idle"]
    /\ UNCHANGED <<root, nextPage, latch, op, key, val, par, chd, ret, badAssert>>

(* get_leaf_page: fix the page read from root, exclusive only for insert. *)
FixRoot(t) ==
    /\ pc[t] = "fixroot"
    /\ CanFix(par[t], op[t] = "insert")
    /\ latch' = Fix(latch, par[t], t, op[t] = "insert")
    /\ pc' = [pc EXCEPT ![t] = "visitroot"]
    /\ UNCHANGED <<nodes, root, nextPage, op, key, val, par, chd, ret, badAssert>>

(* get_leaf_page after fixing the root page.  A root leaf is returned as  *)
(* both parent and leaf; erase first unfixes it and fixes *root again,     *)
(* exclusively, reading root anew.  An inner root is asserted to still be *)
(* root; an insert splits it when it has kCapacity-1 children, under a new *)
(* root page, and goes on in the half that holds the key, asserted safe.  *)
(* Then the child for the key is looked up.                                *)
VisitRoot(t) ==
    LET p == par[t]
        n == nodes[p]
        split == op[t] = "insert" /\ MustSplit(n)
        q == nextPage
        r == nextPage + 1
        s == InnerSplit(n)
        goRight == split /\ s.sep < key[t]
        p2 == IF goRight THEN q ELSE p
        nodes2 == IF split
                  THEN [nodes EXCEPT ![p] = s.left, ![q] = s.right,
                                     ![r] = InitInsert(n.level + 1, s.sep, p, q)]
                  ELSE nodes
    IN
    /\ pc[t] = "visitroot"
    /\ IF IsLeaf(n)
       THEN IF op[t] = "erase"
            THEN /\ latch' = Unfix(latch, p, t)
                 /\ par' = [par EXCEPT ![t] = root]
                 /\ pc' = [pc EXCEPT ![t] = "refix"]
                 /\ UNCHANGED <<nodes, root, nextPage, chd, badAssert>>
            ELSE /\ chd' = [chd EXCEPT ![t] = p]
                 /\ pc' = [pc EXCEPT ![t] = "leaf"]
                 /\ UNCHANGED <<nodes, root, nextPage, latch, par, badAssert>>
       ELSE /\ split => nextPage + 2 <= MaxPages /\ CanFix(q, TRUE) /\ CanFix(r, TRUE)
            /\ nodes' = nodes2
            /\ root' = IF split THEN r ELSE root
            /\ nextPage' = IF split THEN nextPage + 2 ELSE nextPage
            /\ latch' = IF goRight THEN [Unfix(latch, p, t) EXCEPT ![q].x = t] ELSE latch
            /\ par' = [par EXCEPT ![t] = p2]
            /\ chd' = [chd EXCEPT ![t] = InnerChild(nodes2[p2], key[t])]
            /\ badAssert' = (badAssert \/ root # p
                               \/ (op[t] = "insert" /\ Count(nodes2[p2]) >= InnerCap - 1))
            /\ pc' = [pc EXCEPT ![t] = "fixchild"]
    /\ UNCHANGED <<op, key, val, ret>>

(* fix_page(child_page_id, CHILD_FIX_MODE).                                *)
FixChild(t) ==
    LET ex == ChildExclusive(t, nodes[par[t]]) IN
    /\ pc[t] = "fixchild"
    /\ CanFix(chd[t], ex)
    /\ latch' = Fix(latch, chd[t], t, ex)
    /\ pc' = [pc EXCEPT ![t] = "visit"]
    /\ UNCHANGED <<nodes, root, nextPage, op, key, val, par, chd, ret, badAssert>>

(* One turn of the descent loop, or its exit.  The child's level is       *)
(* asserted one below the parent's.  An inner child with kCapacity-1       *)
(* children is split by an insert and the separator inserted into the     *)
(* parent, and the half that holds the key is asserted safe; then the     *)
(* parent is unfixed and the child becomes the parent.                     *)
(* At a leaf the parent is unfixed (line 510) and both pages returned.     *)
Visit(t) ==
    LET p == par[t]
        c == chd[t]
        pn == nodes[p]
        cn == nodes[c]
        split == op[t] = "insert" /\ MustSplit(cn)
        q == nextPage
        s == InnerSplit(cn)
        goRight == split /\ s.sep < key[t]
        c2 == IF goRight THEN q ELSE c
        nodes2 == IF split
                  THEN [nodes EXCEPT ![c] = s.left, ![q] = s.right,
                                     ![p] = InnerInsert(pn, s.sep, c, q)]
                  ELSE nodes
        latch2 == IF goRight THEN [Unfix(latch, c, t) EXCEPT ![q].x = t] ELSE latch
    IN
    /\ pc[t] = "visit"
    /\ split => nextPage < MaxPages /\ CanFix(q, TRUE)
    /\ latch' = Unfix(latch2, p, t)
    /\ IF IsLeaf(cn)
       THEN /\ pc' = [pc EXCEPT ![t] = "leaf"]
            /\ badAssert' = (badAssert \/ cn.level + 1 # pn.level)
            /\ UNCHANGED <<nodes, nextPage, par, chd>>
       ELSE /\ nodes' = nodes2
            /\ nextPage' = IF split THEN nextPage + 1 ELSE nextPage
            /\ par' = [par EXCEPT ![t] = c2]
            /\ chd' = [chd EXCEPT ![t] = InnerChild(nodes2[c2], key[t])]
            /\ badAssert' = (badAssert \/ cn.level + 1 # pn.level
                               \/ (split /\ ~InnerInsertAsserts(pn, s.sep, c))
                               \/ (op[t] = "insert" /\ Count(nodes2[c2]) >= InnerCap - 1))
            /\ pc' = [pc EXCEPT ![t] = "fixchild"]
    /\ UNCHANGED <<root, op, key, val, ret>>

(* erase's second fix of the root leaf, exclusive.                         *)
Refix(t) ==
    /\ pc[t] = "refix"
    /\ CanFix(par[t], TRUE)
    /\ latch' = Fix(latch, par[t], t, TRUE)
    /\ chd' = [chd EXCEPT ![t] = par[t]]
    /\ pc' = [pc EXCEPT ![t] = "leaf"]
    /\ UNCHANGED <<nodes, root, nextPage, op, key, val, par, ret, badAssert>>

(* lookup and erase, after get_leaf_page: unfix the parent page, which    *)
(* for a root leaf is the leaf itself and otherwise was unfixed already.  *)
UnfixParent(t) ==
    /\ pc[t] = "leaf"
    /\ op[t] # "insert"
    /\ latch' = Unfix(latch, par[t], t)
    /\ pc' = [pc EXCEPT ![t] = "read"]
    /\ UNCHANGED <<nodes, root, nextPage, op, key, val, par, chd, ret, badAssert>>

(* Then assert the page is a leaf, LeafNode::lookup or LeafNode::erase on *)
(* it, and unfix the leaf page.                                            *)
LeafOp(t) ==
    LET c == chd[t] IN
    /\ pc[t] = "read"
    /\ IF op[t] = "lookup"
       THEN /\ ret' = [ret EXCEPT ![t] = LeafGet(nodes[c], key[t])]
            /\ UNCHANGED nodes
       ELSE /\ nodes' = [nodes EXCEPT ![c] = LeafErase(@, key[t])]
            /\ UNCHANGED ret
    /\ latch' = Unfix(latch, c, t)
    /\ badAssert' = (badAssert \/ ~IsLeaf(nodes[c]))
    /\ pc' = [pc EXCEPT ![t] = "idle"]
    /\ UNCHANGED <<root, nextPage, op, key, val, par, chd>>

(* insert, after get_leaf_page.  A full leaf is split into a fresh page;  *)
(* a root leaf gets a new level-1 root above it, otherwise the separator  *)
(* goes into the parent, which is then unfixed; the entry goes into the   *)
(* half the key belongs to and both leaves are unfixed.  A leaf with room *)
(* takes the entry after the parent (if another page) is unfixed.         *)
InsertLeaf(t) ==
    LET p == par[t]
        c == chd[t]
        n == nodes[c]
        q == nextPage
        s == LeafSplit(n)
        goRight == s.sep < key[t]
        left == IF goRight THEN s.left ELSE LeafInsert(s.left, key[t], val[t])
        right == IF goRight THEN LeafInsert(s.right, key[t], val[t]) ELSE s.right
        latch2 == IF p # c THEN Unfix(latch, p, t) ELSE latch
    IN
    /\ pc[t] = "leaf"
    /\ op[t] = "insert"
    /\ IF Count(n) = LeafCap
       THEN IF p = c
            THEN /\ nextPage + 2 <= MaxPages /\ CanFix(q, TRUE) /\ CanFix(q + 1, TRUE)
                 /\ nodes' = [nodes EXCEPT ![c] = left, ![q] = right,
                                           ![q + 1] = InitInsert(1, s.sep, c, q)]
                 /\ root' = q + 1
                 /\ nextPage' = nextPage + 2
                 /\ badAssert' = (badAssert \/ root # c)
            ELSE /\ nextPage < MaxPages /\ CanFix(q, TRUE)
                 /\ nodes' = [nodes EXCEPT ![c] = left, ![q] = right,
                                           ![p] = InnerInsert(@, s.sep, c, q)]
                 /\ nextPage' = nextPage + 1
                 /\ badAssert' = (badAssert \/ nodes[p].level # 1
                                    \/ ~InnerInsertAsserts(nodes[p], s.sep, c))
                 /\ UNCHANGED root
       ELSE /\ nodes' = [nodes EXCEPT ![c] = LeafInsert(n, key[t], val[t])]
            /\ UNCHANGED <<root, nextPage, badAssert>>
    /\ latch' = Unfix(latch2, c, t)
    /\ pc' = [pc EXCEPT ![t] = "idle"]
    /\ UNCHANGED <<op, key, val, par, chd, ret>>

Next ==
    \E t \in Threads :
        \/ \E o \in Ops, k \in Keys, v \in Vals : Call(t, o, k, v)
        \/ Start(t) \/ NewRoot(t) \/ FixNewRoot(t) \/ FixRoot(t)
        \/ VisitRoot(t) \/ FixChild(t) \/ Visit(t) \/ Refix(t)
        \/ UnfixParent(t) \/ LeafOp(t) \/ InsertLeaf(t)

Spec == Init /\ [][Next]_vars

-----------------------------------------------------------------------------
TypeOK ==
    /\ \A p \in Pages :
         /\ nodes[p].level \in 0 .. MaxPages
         /\ nodes[p].keys \in Seq(Keys)
         /\ nodes[p].ptrs \in Seq(Pages \cup Vals)
         /\ Len(nodes[p].keys) = Len(nodes[p].ptrs)
    /\ root \in Pages \cup {NoPage}
    /\ nextPage \in 0 .. MaxPages
    /\ \A p \in nextPage .. MaxPages - 1 : nodes[p] = EmptyPage
    /\ latch \in [Pages -> [x : Threads \cup {NoThread}, s : SUBSET Threads]]
    /\ pc \in [Threads -> {"idle", "start", "newroot", "fixnewroot", "fixroot",
                           "visitroot", "fixchild", "visit", "refix", "leaf", "read"}]
    /\ op \in [Threads -> Ops] /\ key \in [Threads -> Keys] /\ val \in [Threads -> Vals]
    /\ par \in [Threads -> Pages \cup {NoPage}] /\ chd \in [Threads -> Pages \cup {NoPage}]
    /\ ret \in [Threads -> Vals \cup {NoValue}]
    /\ badAssert \in BOOLEAN

(* The pages below page p, down at most d levels (d bounds the recursion  *)
(* should the pages not form a tree).                                      *)
RECURSIVE Subtree(_, _)
Subtree(p, d) ==
    {p} \cup IF IsLeaf(nodes[p]) \/ d = 0 THEN {}
             ELSE UNION {Subtree(nodes[p].ptrs[j], d - 1) : j \in 1 .. Count(nodes[p])}

TreePages == IF root = NoPage THEN {} ELSE Subtree(root, MaxPages)
(* The value lookup would find for k in a quiescent tree: the descent of  *)
(* InnerNode::lookup from root, then LeafNode::lookup.                    *)
RECURSIVE Find(_, _, _)
Find(p, k, d) ==
    IF IsLeaf(nodes[p]) \/ d = 0 THEN LeafGet(nodes[p], k)
    ELSE Find(InnerChild(nodes[p], k), k, d - 1)
TreeGet(k) == IF root = NoPage THEN NoValue ELSE Find(root, k, MaxPages)

(* Page p is a well-formed subtree whose keys k all lie in the bounds lo  *)
(* < k <= hi (sets of at most one key each; empty is unbounded): a leaf   *)
(* holds at most kCapacity strictly increasing keys; an inner node holds  *)
(* 2 .. kCapacity-1 children one level below it, its separators increase  *)
(* strictly, and child j holds only keys k with key[j-1] < k <= key[j],    *)
(* the bounds lower_bound and the split code maintain.                     *)
RECURSIVE WellFormedBelow(_, _, _, _)
WellFormedBelow(p, lo, hi, d) ==
    LET n == nodes[p]
        within(k, l, h) == (\A x \in l : x < k) /\ (\A x \in h : k <= x)
    IN
    IF IsLeaf(n)
    THEN Count(n) <= LeafCap /\ IsSorted(n.keys, <) /\ \A j \in 1 .. Count(n) : within(n.keys[j], lo, hi)
    ELSE /\ d > 0
         /\ Count(n) \in 2 .. InnerCap - 1
         /\ IsSorted(SubSeq(n.keys, 1, Count(n) - 1), <)
         /\ \A j \in 1 .. Count(n) :
              /\ n.ptrs[j] \in Pages
              /\ nodes[n.ptrs[j]].level = n.level - 1
              /\ WellFormedBelow(n.ptrs[j],
                                 IF j > 1 THEN lo \cup {n.keys[j - 1]} ELSE lo,
                                 IF j < Count(n) THEN hi \cup {n.keys[j]} ELSE hi, d - 1)

(* The pages reachable from root form a B+-tree: each is well formed as   *)
(* above, and no page is the child of two nodes or of the same node twice *)
(* (as many pages are reachable as there are child pointers, plus root).  *)
WellFormedTree ==
    root # NoPage =>
        /\ WellFormedBelow(root, {}, {}, MaxPages)
        /\ Cardinality(TreePages)
             = 1 + MapThenSumSet(LAMBDA p : IF IsLeaf(nodes[p]) THEN 0 ELSE Count(nodes[p]),
                                 TreePages)

(* The code's assertions hold: root is still the page get_leaf_page fixed *)
(* as root, a fixed child is one level below its parent, erase and lookup *)
(* reach a leaf, and InnerNode::insert finds room and the split child.    *)
NoFailedAssert == ~badAssert

(* No step writes a page while another thread has it fixed: every writer  *)
(* holds the exclusive latch.  erase writes a root leaf after unfixing it  *)
(* and insert writes the separator into a parent that get_leaf_page has   *)
(* already unfixed.                                                        *)
NoWriteUnderOthersFix ==
    [][\A p \in Pages, u \in Threads :
          nodes'[p] # nodes[p] /\ HoldsIn(latch, p, u) => pc'[u] # pc[u]]_vars

(* The tree implements the key -> value map: each lookup, insert or erase *)
(* takes effect on the map lookup would read from root in the step that   *)
(* ends it, and no other step changes that map.                            *)
KV == INSTANCE KVMap WITH dict <- [k \in Keys |-> TreeGet(k)],
                          busy <- [t \in Threads |-> pc[t] # "idle"]
KVSpec == KV!Spec
=============================================================================
