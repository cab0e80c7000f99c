------------------------------- MODULE KVMap --------------------------------
(***************************************************************************)
(* What the B+-tree promises (spec.md 4.3): an ordered key -> value map   *)
(* whose operations each take effect once, between their call and their  *)
(* return.  insert upserts, erase is a no-op when the key is absent, and  *)
(* lookup returns the value last inserted for the key, or nothing.  Each  *)
(* client thread runs one operation at a time.                             *)
(***************************************************************************)
CONSTANTS Threads, Keys, Vals, NoValue

Ops == {"lookup", "insert", "erase"}

VARIABLES
    dict,   \* key -> value, or NoValue
    busy,   \* the thread has called an operation that has not returned
    op, key, val,
    ret     \* result of each thread's last lookup

Init ==
    /\ dict = [k \in Keys |-> NoValue]
    /\ busy = [t \in Threads |-> FALSE]
    /\ op \in [Threads -> Ops] /\ key \in [Threads -> Keys] /\ val \in [Threads -> Vals]
    /\ ret = [t \in Threads |-> NoValue]

Call(t, o, k, v) ==
    /\ ~busy[t]
    /\ busy' = [busy EXCEPT ![t] = TRUE]
    /\ op' = [op EXCEPT ![t] = o]
    /\ key' = [key EXCEPT ![t] = k]
    /\ val' = [val EXCEPT ![t] = v]
    /\ UNCHANGED <<dict, ret>>

(* The operation takes effect and returns in one step.                     *)
Complete(t) ==
    /\ busy[t]
    /\ busy' = [busy EXCEPT ![t] = FALSE]
    /\ CASE op[t] = "insert" -> dict'[key[t]] = val[t]
                                /\ dict' = [dict EXCEPT ![key[t]] = val[t]] /\ UNCHANGED ret
         [] op[t] = "erase"  -> dict'[key[t]] = NoValue
                                /\ dict' = [dict EXCEPT ![key[t]] = NoValue] /\ UNCHANGED ret
         [] op[t] = "lookup" -> ret' = [ret EXCEPT ![t] = dict[key[t]]] /\ UNCHANGED dict
    /\ UNCHANGED <<op, key, val>>

Next ==
    \E t \in Threads :
        \/ \E o \in Ops, k \in Keys, v \in Vals : Call(t, o, k, v)
        \/ Complete(t)

Spec == Init /\ [][Next]_<<dict, busy, op, key, val, ret>>
=============================================================================
