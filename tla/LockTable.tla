---------------------------- MODULE LockTable -----------------------------
(***************************************************************************)
(* What the lock manager promises its transactions (spec.md 4.5): strict  *)
(* two-phase locking over shared and exclusive locks.  A transaction       *)
(* acquires locks on data items while it grows, never holds a lock that    *)
(* conflicts with another transaction's, and once it starts releasing it   *)
(* acquires nothing until it has released everything and a new            *)
(* transaction begins.                                                     *)
(***************************************************************************)
CONSTANTS Txns, Items

VARIABLES held, phase

Modes == {"Shared", "Exclusive"}
Entry == [item: Items, mode: Modes]

(* Lock e does not conflict with any lock another transaction holds.       *)
Compatible(t, e) ==
    \A u \in Txns \ {t} : \A f \in held[u] :
        f.item = e.item => e.mode = "Shared" /\ f.mode = "Shared"

Init ==
    /\ held = [t \in Txns |-> {}]
    /\ phase = [t \in Txns |-> "growing"]

Acquire(t, e) ==
    /\ phase[t] = "growing"
    /\ \A f \in held[t] : f.item # e.item
    /\ Compatible(t, e)
    /\ held' = [held EXCEPT ![t] = @ \cup {e}]
    /\ UNCHANGED phase

Shrink(t) ==
    /\ phase[t] = "growing"
    /\ phase' = [phase EXCEPT ![t] = "shrinking"]
    /\ UNCHANGED held

Release(t, e) ==
    /\ phase[t] = "shrinking"
    /\ e \in held[t]
    /\ held' = [held EXCEPT ![t] = @ \ {e}]
    /\ UNCHANGED phase

NewTransaction(t) ==
    /\ phase[t] = "shrinking"
    /\ held[t] = {}
    /\ phase' = [phase EXCEPT ![t] = "growing"]
    /\ UNCHANGED held

Next ==
    \E t \in Txns :
        \/ \E e \in Entry : Acquire(t, e) \/ Release(t, e)
        \/ Shrink(t) \/ NewTransaction(t)

Spec == Init /\ [][Next]_<<held, phase>>
=============================================================================
