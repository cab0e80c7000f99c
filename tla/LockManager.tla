--------------------------- MODULE LockManager ----------------------------
(***************************************************************************)
(* The lock manager of task-lock-manager                                   *)
(* (src/task-lock-manager/src/lock_manager.cc).                            *)
(*                                                                         *)
(* Each element of Txns is a client thread that runs transactions one      *)
(* after another, as the tests do with a Transaction object local to a     *)
(* loop body: successive transactions of a thread have the same identity   *)
(* (the same address, which is what the waits-for graph keys on).  A       *)
(* transaction locks distinct items under strict two-phase locking and     *)
(* releases everything in ~Transaction, after a commit or after catching   *)
(* DeadLockError.                                                          *)
(*                                                                         *)
(* A Lock record carries the reader/writer lock (rw), ownership, owners    *)
(* and waiters.  Records live in a hash chain and are recreated once every *)
(* shared_ptr to them is gone (lazy deletion of expired records).  The     *)
(* waits-for graph is a set of edges, waiter -> owner.                     *)
(***************************************************************************)
EXTENDS Naturals, Sequences, FiniteSets, Graphs

CONSTANTS
    Txns,      \* client threads, each running one transaction at a time
    Items,     \* data items
    MaxLocks,  \* locks a transaction requests at most
    NoTxn,     \* rwlock not held exclusively
    Reuse      \* a thread's next transaction reuses its identity (address)

ASSUME MaxLocks \in Nat /\ Reuse \in BOOLEAN

VARIABLES
    rw,         \* Lock::lock, the std::shared_mutex of each item's record
    ownership,  \* Lock::ownership
    owners,     \* Lock::owners
    waiters,    \* Lock::waiters
    edges,      \* WaitsForGraph::graph as a set of edges
    pc,         \* where each thread is
    req,        \* the item and mode of the thread's current acquireLock
    locks       \* Transaction::locks, in acquisition order

vars == <<rw, ownership, owners, waiters, edges, pc, req, locks>>

Modes == {"Shared", "Exclusive"}
FreeRw == [x |-> NoTxn, s |-> {}]
(* The states of a std::shared_mutex: one writer and no readers, or no    *)
(* writer and any readers.                                                 *)
RwStates == {[x |-> NoTxn, s |-> S] : S \in SUBSET Txns}
            \cup {[x |-> u, s |-> {}] : u \in Txns}
Pcs == {"idle", "active", "meta", "blocked", "relatch", "end", "release",
        "done"}

(* The waits-for graph over the threads.                                   *)
WFG(E) == [node |-> Txns, edge |-> E]

(* findDuplicate(graph, node): a depth-first search from n that revisits a *)
(* node on its current path, i.e. a cycle reachable from n.                *)
CycleReachable(E, n) ==
    \E m \in {n} \cup Descendants(WFG(E), n) : m \in Descendants(WFG(E), m)

(* Fault variant: only an acquireLock in progress keeps a record alive,    *)
(* as if Transaction::locks held weak references.                          *)
ReferencingInFlight(i) ==
    {t \in Txns : pc[t] \in {"meta", "blocked", "relatch"} /\ req[t].item = i}

(* Threads holding a shared_ptr to item i's record: the locks vectors of  *)
(* running transactions and the local of an acquireLock in progress.  A   *)
(* record nobody holds has expired.                                        *)
Referencing(i) ==
    {t \in Txns : \/ \E k \in 1..Len(locks[t]) : locks[t][k].item = i
                  \/ pc[t] \in {"meta", "blocked", "relatch"} /\ req[t].item = i}

(* Fault variant: try_lock succeeding over readers.                       *)
CanTakeIgnoringReaders(r, m) == r.x = NoTxn

(* try_lock_shared / try_lock of std::shared_mutex.                        *)
CanTake(r, m) ==
    /\ r.x = NoTxn
    /\ m = "Exclusive" => r.s = {}

Take(r, t, m) ==
    IF m = "Shared" THEN [r EXCEPT !.s = @ \cup {t}] ELSE [r EXCEPT !.x = t]

-----------------------------------------------------------------------------
(* Fault variant: edges from the new owner to the waiters.                 *)
AddWaitersReversed(E, owner, ws) == E \cup ({owner} \X ws)

(* WaitsForGraph::addWaiters(owner, ws): edges from every waiter to the    *)
(* new owner; a cycle reachable from the owner raises DeadLockError and   *)
(* leaves the graph as it is.                                              *)
AddWaiters(E, owner, ws) == E \cup (ws \X {owner})

(* WaitsForGraph::addWaitsFor(t, lock): edges from t to every owner; a     *)
(* cycle reachable from an owner erases t's node and raises DeadLockError. *)
AddWaitsFor(E, t, os) == E \cup ({t} \X os)
WaitsForDeadlock(E, t, os) == \E o \in os : CycleReachable(AddWaitsFor(E, t, os), o)
EraseNode(E, t) == {e \in E : e[1] # t}

(* WaitsForGraph::removeTransaction: t's node and every edge into t.       *)
RemoveTransaction(E, t) == {e \in E : t \notin {e[1], e[2]}}

-----------------------------------------------------------------------------
Init ==
    /\ rw = [i \in Items |-> FreeRw]
    /\ ownership = [i \in Items |-> "Unlocked"]
    /\ owners = [i \in Items |-> {}]
    /\ waiters = [i \in Items |-> {}]
    /\ edges = {}
    /\ pc = [t \in Txns |-> "idle"]
    /\ req = [t \in Txns |-> [item |-> CHOOSE i \in Items : TRUE,
                               mode |-> "Shared"]]
    /\ locks = [t \in Txns |-> <<>>]

(* A thread constructs a new Transaction.                                  *)
Begin(t) ==
    /\ pc[t] = "idle"
    /\ pc' = [pc EXCEPT ![t] = "active"]
    /\ UNCHANGED <<rw, ownership, owners, waiters, edges, req, locks>>

(* Transaction::addLock calls acquireLock for an item it has not locked.   *)
(* Under the chain latch the record is looked up; an expired one is        *)
(* deleted and a fresh record (unlocked, no owners or waiters) prepended.  *)
Request(t, i, m) ==
    /\ pc[t] = "active"
    /\ Len(locks[t]) < MaxLocks
    /\ \A k \in 1..Len(locks[t]) : locks[t][k].item # i
    /\ req' = [req EXCEPT ![t] = [item |-> i, mode |-> m]]
    /\ pc' = [pc EXCEPT ![t] = "meta"]
    /\ IF Referencing(i) = {}
       THEN /\ rw' = [rw EXCEPT ![i] = FreeRw]
            /\ ownership' = [ownership EXCEPT ![i] = "Unlocked"]
            /\ owners' = [owners EXCEPT ![i] = {}]
            /\ waiters' = [waiters EXCEPT ![i] = {}]
       ELSE UNCHANGED <<rw, ownership, owners, waiters>>
    /\ UNCHANGED <<edges, locks>>

(* The transaction ends: commit, or the client caught DeadLockError.       *)
Finish(t) ==
    /\ pc[t] = "active"
    /\ pc' = [pc EXCEPT ![t] = "end"]
    /\ UNCHANGED <<rw, ownership, owners, waiters, edges, req, locks>>

(* Under the record's metadata latch: try the rwlock without blocking.    *)
(* Taken: publish the mode, become an owner and add edges from the current *)
(* waiters (addWaiters); the lock is recorded in Transaction::locks only   *)
(* if addWaiters does not throw.  Not taken: add edges to the owners       *)
(* (addWaitsFor); on a cycle the transaction's node is erased and          *)
(* DeadLockError ends the transaction, otherwise it becomes a waiter and   *)
(* blocks on the rwlock.                                                   *)
TryAcquire(t) ==
    LET i == req[t].item
        m == req[t].mode
        E == AddWaiters(edges, t, waiters[i])
    IN
    /\ pc[t] = "meta"
    /\ IF CanTake(rw[i], m)
       THEN /\ rw' = [rw EXCEPT ![i] = Take(@, t, m)]
            /\ ownership' = [ownership EXCEPT ![i] = m]
            /\ owners' = [owners EXCEPT ![i] = @ \cup {t}]
            /\ edges' = E
            /\ IF CycleReachable(E, t)
               THEN /\ pc' = [pc EXCEPT ![t] = "end"]
                    /\ UNCHANGED locks
               ELSE /\ pc' = [pc EXCEPT ![t] = "active"]
                    /\ locks' = [locks EXCEPT ![t] = Append(@, req[t])]
            /\ UNCHANGED waiters
       ELSE /\ IF WaitsForDeadlock(edges, t, owners[i])
               THEN /\ edges' = EraseNode(AddWaitsFor(edges, t, owners[i]), t)
                    /\ pc' = [pc EXCEPT ![t] = "end"]
                    /\ UNCHANGED waiters
               ELSE /\ edges' = AddWaitsFor(edges, t, owners[i])
                    /\ waiters' = [waiters EXCEPT ![i] = @ \cup {t}]
                    /\ pc' = [pc EXCEPT ![t] = "blocked"]
            /\ UNCHANGED <<rw, ownership, owners, locks>>
    /\ UNCHANGED req

(* The blocking lock_shared / lock returns.                                *)
Wake(t) ==
    LET i == req[t].item IN
    /\ pc[t] = "blocked"
    /\ CanTake(rw[i], req[t].mode)
    /\ rw' = [rw EXCEPT ![i] = Take(@, t, req[t].mode)]
    /\ pc' = [pc EXCEPT ![t] = "relatch"]
    /\ UNCHANGED <<ownership, owners, waiters, edges, req, locks>>

(* Relock the metadata latch: leave the waiters, publish the mode, become *)
(* an owner and add edges from the remaining waiters (addWaiters).  The    *)
(* transaction's own edges from its wait are left in the graph.            *)
Relatch(t) ==
    LET i == req[t].item
        ws == waiters[i] \ {t}
        E == AddWaiters(edges, t, ws)
    IN
    /\ pc[t] = "relatch"
    /\ waiters' = [waiters EXCEPT ![i] = ws]
    /\ ownership' = [ownership EXCEPT ![i] = req[t].mode]
    /\ owners' = [owners EXCEPT ![i] = @ \cup {t}]
    /\ edges' = E
    /\ IF CycleReachable(E, t)
       THEN /\ pc' = [pc EXCEPT ![t] = "end"]
            /\ UNCHANGED locks
       ELSE /\ pc' = [pc EXCEPT ![t] = "active"]
            /\ locks' = [locks EXCEPT ![t] = Append(@, req[t])]
    /\ UNCHANGED <<rw, req>>

(* ~Transaction starts with WaitsForGraph::removeTransaction.              *)
EndTxn(t) ==
    /\ pc[t] = "end"
    /\ edges' = RemoveTransaction(edges, t)
    /\ pc' = [pc EXCEPT ![t] = "release"]
    /\ UNCHANGED <<rw, ownership, owners, waiters, req, locks>>

(* Fault variant: a lock is released while the transaction still runs.  *)
ReleaseLockEarly(t) ==
    LET i == Head(locks[t]).item IN
    /\ pc[t] \in {"active", "release"}
    /\ locks[t] # <<>>
    /\ owners' = [owners EXCEPT ![i] = @ \ {t}]
    /\ rw' = [rw EXCEPT ![i] = IF ownership[i] = "Shared"
                                THEN [@ EXCEPT !.s = @ \ {t}]
                                ELSE [@ EXCEPT !.x = NoTxn]]
    /\ locks' = [locks EXCEPT ![t] = Tail(@)]
    /\ UNCHANGED <<ownership, waiters, edges, pc, req>>

(* ~Transaction, for the next lock of Transaction::locks: erase itself     *)
(* from the owners under the metadata latch, then unlock the rwlock in the *)
(* mode the record's ownership shows at that moment.                       *)
ReleaseLock(t) ==
    LET i == Head(locks[t]).item IN
    /\ pc[t] = "release"
    /\ locks[t] # <<>>
    /\ owners' = [owners EXCEPT ![i] = @ \ {t}]
    /\ rw' = [rw EXCEPT ![i] = IF ownership[i] = "Shared"
                                THEN [@ EXCEPT !.s = @ \ {t}]
                                ELSE [@ EXCEPT !.x = NoTxn]]
    /\ locks' = [locks EXCEPT ![t] = Tail(@)]
    /\ UNCHANGED <<ownership, waiters, edges, pc, req>>

(* The destructor returns and the locks vector, with its shared_ptrs, is  *)
(* gone.  Without Reuse, the thread runs no further transaction.           *)
Ended(t) ==
    /\ pc[t] = "release"
    /\ locks[t] = <<>>
    /\ pc' = [pc EXCEPT ![t] = IF Reuse THEN "idle" ELSE "done"]
    /\ UNCHANGED <<rw, ownership, owners, waiters, edges, req, locks>>

-----------------------------------------------------------------------------
Next ==
    \E t \in Txns :
        \/ Begin(t) \/ Finish(t)
        \/ \E i \in Items, m \in Modes : Request(t, i, m)
        \/ TryAcquire(t) \/ Wake(t) \/ Relatch(t)
        \/ EndTxn(t) \/ ReleaseLock(t) \/ Ended(t)

Spec == Init /\ [][Next]_vars

-----------------------------------------------------------------------------
TypeOK ==
    /\ rw \in [Items -> RwStates]
    /\ ownership \in [Items -> Modes \cup {"Unlocked"}]
    /\ owners \in [Items -> SUBSET Txns]
    /\ waiters \in [Items -> SUBSET Txns]
    /\ edges \subseteq Txns \X Txns
    /\ pc \in [Txns -> Pcs]
    /\ req \in [Txns -> [item: Items, mode: Modes]]
    /\ \A t \in Txns : locks[t] \in Seq([item: Items, mode: Modes])

(* Holders of the rwlock of item i.                                        *)
Holders(i) == rw[i].s \cup ({rw[i].x} \ {NoTxn})

(* LockManager::getLockMode: Unlocked for a missing or expired record,     *)
(* else the record's ownership.                                            *)
GetLockMode(i) == IF Referencing(i) = {} THEN "Unlocked" ELSE ownership[i]

(* The holders whose lock keeps t's request from being granted, and the    *)
(* waits-for relation as it really is: a blocked thread waits for them.    *)
Blockers(t) ==
    LET i == req[t].item IN
    (IF req[t].mode = "Exclusive" THEN Holders(i) ELSE {rw[i].x} \ {NoTxn})
        \ {t}
RealWaits == {e \in Txns \X Txns : pc[e[1]] = "blocked" /\ e[2] \in Blockers(e[1])}

(* Every lock a transaction has recorded is held by it on the rwlock in   *)
(* the recorded mode, it is listed as an owner, and the record's ownership *)
(* shows that mode, so the destructor unlocks the rwlock the way it was    *)
(* locked even though ownership is one field written by every acquirer.    *)
RecordedLocksHeld ==
    \A t \in Txns : \A k \in 1..Len(locks[t]) :
        LET i == locks[t][k].item
            m == locks[t][k].mode
        IN  /\ t \in owners[i]
            /\ GetLockMode(i) = m
            /\ IF m = "Shared" THEN t \in rw[i].s ELSE rw[i].x = t

(* Every holder of an rwlock will release it: it has recorded the lock in *)
(* Transaction::locks or is between the acquisition and the recording.    *)
NoLeakedLock ==
    \A i \in Items : \A t \in Holders(i) :
        \/ \E k \in 1..Len(locks[t]) : locks[t][k].item = i
        \/ pc[t] \in {"meta", "relatch"} /\ req[t].item = i

(* No set of threads is blocked on the rwlocks in a cycle: addWaitsFor and  *)
(* addWaiters together record enough edges that the thread closing a cycle *)
(* of waits sees it and throws DeadLockError instead of blocking.          *)
NoWaitCycle == \A t \in Txns : t \notin Descendants(WFG(RealWaits), t)

(* DeadLockError is raised only when the transaction would really wait, in *)
(* the waits-for relation of blocked threads and holders, for itself       *)
(* (spec.md glossary: an edge goes from a waiting transaction to each      *)
(* current owner of the lock it wants).                                    *)
NoFalseDeadlock ==
    [][\A t \in Txns :
        pc[t] \in {"meta", "relatch"} /\ pc'[t] = "end" =>
            \E u \in Blockers(t) : t \in {u} \cup Descendants(WFG(RealWaits), u)]_vars

(* The recorded locks implement the abstract lock table: strict two-phase  *)
(* locking without conflicts.  A transaction shrinks from ~Transaction on. *)
LT == INSTANCE LockTable WITH
        held <- [t \in Txns |-> {locks[t][k] : k \in 1..Len(locks[t])}],
        phase <- [t \in Txns |-> IF pc[t] \in {"release", "done"}
                                   THEN "shrinking" ELSE "growing"]
LockTableSpec == LT!Spec
=============================================================================
