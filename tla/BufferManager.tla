--------------------------- MODULE BufferManager ---------------------------
(***************************************************************************)
(* The concurrent buffer manager of task-buffer-manager                    *)
(* (src/task-buffer-manager/src/buffer_manager.cc).                        *)
(*                                                                         *)
(* Threads call fix_page / unfix_page on a small set of pages.  The page   *)
(* table (bufferframes), the FIFO and LRU lists and the frame states are   *)
(* guarded by one global mutex; every frame carries its own reader/writer  *)
(* latch.  The code releases the global mutex around disk I/O and while it *)
(* waits for a frame latch, and each of those points is a step boundary    *)
(* here.  Page contents are abstracted to version numbers: a client that   *)
(* writes a page produces the next version of it, so a lost write-back or *)
(* a stale load shows up as a frame or disk block holding an old version.  *)
(***************************************************************************)
EXTENDS Integers, FiniteSets, Sequences, SequencesExt

CONSTANTS
    Threads,      \* client threads calling fix_page / unfix_page
    Pages,        \* page offsets of one segment, 0..n-1
    PageCount,    \* number of frames in loaded_pages (page_count)
    MaxVersion,   \* bound on the number of writes to a page
    NoThread,     \* no latch holder / global mutex free
    NoPage        \* find_page_to_evict returned nullptr

ASSUME PageCount \in Nat \ {0}
ASSUME Pages \subseteq Nat /\ MaxVersion \in Nat

VARIABLES
    frames,    \* bufferframes: page id -> frame record
    fifo,      \* fifo_list, head first
    lru,       \* lru_list, head first
    mem,       \* loaded_pages: data slot -> page version held there
    disk,      \* segment file: page -> version stored on disk
    fileSize,  \* PosixFile::cached_size, in pages
    gmutex,    \* holder of global_mutex
    pc,        \* program counter of each thread
    pg,        \* page argument of the thread's current fix_page
    ex,        \* exclusive argument of the thread's current fix_page
    wrote,     \* the thread modified the page it holds (client data)
    vic,       \* page_to_evict of the thread's evict_page
    snap,      \* page_data copy written out by evict_page
    latest     \* history: newest version ever written to each page

vars == <<frames, fifo, lru, mem, disk, fileSize, gmutex, pc, pg, ex,
          wrote, vic, snap, latest>>

Slots == 0..(PageCount - 1)
NoSlot == -1
Versions == 0..MaxVersion
States == {"NEW", "LOADING", "LOADED", "EVICTING", "RELOADED"}
Frame == [state: States, users: 0..Cardinality(Threads), dirty: BOOLEAN,
          slot: Slots \cup {NoSlot}, xh: Threads \cup {NoThread},
          sh: SUBSET Threads]
Pcs == {"idle", "fix", "waitnew", "recheck", "evict", "evwrite", "read",
        "latch", "using", "unfix"}

(* Frames whose data slot holds the page's contents.                       *)
Loaded(p) == p \in DOMAIN frames
             /\ frames[p].state \in {"LOADED", "EVICTING", "RELOADED"}

Erase(f, p) == [q \in DOMAIN f \ {p} |-> f[q]]
Put(f, p, r) == [q \in DOMAIN f \cup {p} |-> IF q = p THEN r ELSE f[q]]
MutexFree(t) == gmutex \in {NoThread, t}

-----------------------------------------------------------------------------
(* find_page_to_evict: the first frame of FIFO, else of LRU, that is       *)
(* unfixed and LOADED.                                                     *)
FindPageToEvict ==
    LET Evictable(q) == frames[q].users = 0 /\ frames[q].state = "LOADED"
        i == SelectInSeq(fifo, Evictable)
        j == SelectInSeq(lru, Evictable)
    IN  IF i # 0 THEN fifo[i] ELSE IF j # 0 THEN lru[j] ELSE NoPage

(* Fault variant: a page fixed again while on FIFO is appended to LRU     *)
(* without being unlinked from FIFO.                                       *)
PromoteKeepingFifo(p) ==
    IF p \in ToSet(lru)
    THEN /\ lru' = Append(Remove(lru, p), p)
         /\ UNCHANGED fifo
    ELSE /\ UNCHANGED fifo
         /\ lru' = Append(lru, p)

(* The list update of a fix hit: a page on LRU moves to the LRU tail, a    *)
(* page on FIFO is promoted to the LRU tail.                               *)
PromoteToLru(p) ==
    IF p \in ToSet(lru)
    THEN /\ lru' = Append(Remove(lru, p), p)
         /\ UNCHANGED fifo
    ELSE /\ fifo' = Remove(fifo, p)
         /\ lru' = Append(lru, p)

(* Fault variant: the frame is marked LOADED before load_page releases    *)
(* the mutex for the read, instead of after the read.                      *)
AdmitLoadedEarly(t, s, fr, fi) ==
    LET p == pg[t]
        f == [fr[p] EXCEPT !.state = "LOADED", !.slot = s]
    IN  /\ fifo' = Append(fi, p)
        /\ gmutex' = NoThread
        /\ IF fileSize < p + 1
           THEN /\ fileSize' = p + 1
                /\ mem' = [mem EXCEPT ![s] = 0]
                /\ frames' = Put(fr, p, [f EXCEPT !.dirty = FALSE,
                                                   !.xh = NoThread])
                /\ pc' = [pc EXCEPT ![t] = "latch"]
           ELSE /\ frames' = Put(fr, p, f)
                /\ pc' = [pc EXCEPT ![t] = "read"]
                /\ UNCHANGED <<fileSize, mem>>

(* The tail of fix_page once frame p (NEW, fixed and latched exclusively  *)
(* by t) has data slot s: LOADING, FIFO admission and load_page.  A page   *)
(* beyond the file's cached size is zero-filled after growing the file     *)
(* without releasing the global mutex; otherwise the mutex is released     *)
(* for the read (step ReadPage).  fr and fi are the page table and FIFO    *)
(* after any eviction.                                                     *)
AdmitAndLoad(t, s, fr, fi) ==
    LET p == pg[t]
        f == [fr[p] EXCEPT !.state = "LOADING", !.slot = s]
    IN  /\ fifo' = Append(fi, p)
        /\ gmutex' = NoThread
        /\ IF fileSize < p + 1
           THEN /\ fileSize' = p + 1
                /\ mem' = [mem EXCEPT ![s] = 0]
                /\ frames' = Put(fr, p, [f EXCEPT !.state = "LOADED",
                                           !.dirty = FALSE, !.xh = NoThread])
                /\ pc' = [pc EXCEPT ![t] = "latch"]
           ELSE /\ frames' = Put(fr, p, f)
                /\ pc' = [pc EXCEPT ![t] = "read"]
                /\ UNCHANGED <<fileSize, mem>>

-----------------------------------------------------------------------------
Init ==
    /\ frames = [p \in {} |-> CHOOSE r \in Frame : TRUE]
    /\ fifo = <<>>
    /\ lru = <<>>
    /\ mem = [s \in Slots |-> 0]
    /\ disk = [p \in Pages |-> 0]
    /\ fileSize = 0
    /\ gmutex = NoThread
    /\ pc = [t \in Threads |-> "idle"]
    /\ pg = [t \in Threads |-> CHOOSE p \in Pages : TRUE]
    /\ ex = [t \in Threads |-> FALSE]
    /\ wrote = [t \in Threads |-> FALSE]
    /\ vic = [t \in Threads |-> NoPage]
    /\ snap = [t \in Threads |-> 0]
    /\ latest = [p \in Pages |-> 0]

(* A client calls fix_page(p, x).                                          *)
StartFix(t, p, x) ==
    /\ pc[t] = "idle"
    /\ pc' = [pc EXCEPT ![t] = "fix"]
    /\ pg' = [pg EXCEPT ![t] = p]
    /\ ex' = [ex EXCEPT ![t] = x]
    /\ UNCHANGED <<frames, fifo, lru, mem, disk, fileSize, gmutex, wrote,
                   vic, snap, latest>>

(* Page table hit on a frame that is not NEW: count the user, reclaim a    *)
(* frame being evicted (EVICTING -> RELOADED), update the lists, release   *)
(* the global mutex and go for the frame latch.                            *)
FixHit(t) ==
    LET p == pg[t] IN
    /\ pc[t] = "fix"
    /\ MutexFree(t)
    /\ p \in DOMAIN frames
    /\ frames[p].state # "NEW"
    /\ frames' = [frames EXCEPT ![p].users = @ + 1,
                     ![p].state = IF @ = "EVICTING" THEN "RELOADED" ELSE @]
    /\ PromoteToLru(p)
    /\ gmutex' = NoThread
    /\ pc' = [pc EXCEPT ![t] = "latch"]
    /\ UNCHANGED <<mem, disk, fileSize, pg, ex, wrote, vic, snap, latest>>

(* Page table hit on a NEW frame whose creator is still evicting: count    *)
(* the user and release the global mutex to wait for the creator's latch.  *)
FixWaitNew(t) ==
    LET p == pg[t] IN
    /\ pc[t] = "fix"
    /\ MutexFree(t)
    /\ p \in DOMAIN frames
    /\ frames[p].state = "NEW"
    /\ frames' = [frames EXCEPT ![p].users = @ + 1]
    /\ gmutex' = NoThread
    /\ pc' = [pc EXCEPT ![t] = "waitnew"]
    /\ UNCHANGED <<fifo, lru, mem, disk, fileSize, pg, ex, wrote, vic, snap,
                   latest>>

(* Fault variant: the free slot is indexed by the table size after the   *)
(* emplace, without the -1.                                                *)
FixMissSlotPastEnd(t) ==
    LET p == pg[t]
        n == Cardinality(DOMAIN frames)
        fr == Put(frames, p, [state |-> "NEW", users |-> 1, dirty |-> FALSE,
                              slot |-> NoSlot, xh |-> t, sh |-> {}])
    IN
    /\ pc[t] = "fix"
    /\ MutexFree(t)
    /\ p \notin DOMAIN frames
    /\ IF n < PageCount
       THEN AdmitAndLoad(t, n + 1, fr, fifo)
       ELSE /\ frames' = fr
            /\ gmutex' = t
            /\ pc' = [pc EXCEPT ![t] = "evict"]
            /\ UNCHANGED <<fifo, mem, fileSize>>
    /\ UNCHANGED <<lru, disk, pg, ex, wrote, vic, snap, latest>>

(* Page table miss: emplace a NEW frame fixed and latched exclusively by   *)
(* t.  While the table had fewer than page_count frames the next data slot *)
(* is taken by table size; otherwise evict_page runs under the mutex.      *)
FixMiss(t) ==
    LET p == pg[t]
        n == Cardinality(DOMAIN frames)
        fr == Put(frames, p, [state |-> "NEW", users |-> 1, dirty |-> FALSE,
                              slot |-> NoSlot, xh |-> t, sh |-> {}])
    IN
    /\ pc[t] = "fix"
    /\ MutexFree(t)
    /\ p \notin DOMAIN frames
    /\ IF n < PageCount
       THEN AdmitAndLoad(t, n, fr, fifo)
       ELSE /\ frames' = fr
            /\ gmutex' = t
            /\ pc' = [pc EXCEPT ![t] = "evict"]
            /\ UNCHANGED <<fifo, mem, fileSize>>
    /\ UNCHANGED <<lru, disk, pg, ex, wrote, vic, snap, latest>>

(* A NEW-frame waiter has taken and dropped the frame latch exclusively    *)
(* (page.lock(true); page.unlock()), i.e. the latch was free.              *)
WaitNew(t) ==
    LET p == pg[t] IN
    /\ pc[t] = "waitnew"
    /\ frames[p].xh = NoThread
    /\ frames[p].sh = {}
    /\ pc' = [pc EXCEPT ![t] = "recheck"]
    /\ UNCHANGED <<frames, fifo, lru, mem, disk, fileSize, gmutex, pg, ex,
                   wrote, vic, snap, latest>>

(* Fault variant of the NEW-frame recheck: the frame is erased without     *)
(* looking at the user count.                                              *)
RecheckEraseAlways(t) ==
    LET p == pg[t] IN
    /\ pc[t] = "recheck"
    /\ gmutex = NoThread
    /\ IF frames[p].state = "NEW"
       THEN /\ frames' = Erase(frames, p)
            /\ gmutex' = t
            /\ pc' = [pc EXCEPT ![t] = "fix"]
            /\ UNCHANGED <<fifo, lru>>
       ELSE /\ PromoteToLru(p)
            /\ pc' = [pc EXCEPT ![t] = "latch"]
            /\ UNCHANGED <<frames, gmutex>>
    /\ UNCHANGED <<mem, disk, fileSize, pg, ex, wrote, vic, snap, latest>>

(* The waiter relocks the global mutex.  A frame still NEW means its       *)
(* creator failed: drop the user, erase the frame if it was the last one,  *)
(* and restart the lookup loop (continue) with the mutex held.  Otherwise  *)
(* the hit path resumes at its list update.                                *)
Recheck(t) ==
    LET p == pg[t] IN
    /\ pc[t] = "recheck"
    /\ gmutex = NoThread
    /\ IF frames[p].state = "NEW"
       THEN /\ frames' = IF frames[p].users = 1 THEN Erase(frames, p)
                         ELSE [frames EXCEPT ![p].users = @ - 1]
            /\ gmutex' = t
            /\ pc' = [pc EXCEPT ![t] = "fix"]
            /\ UNCHANGED <<fifo, lru>>
       ELSE /\ PromoteToLru(p)
            /\ pc' = [pc EXCEPT ![t] = "latch"]
            /\ UNCHANGED <<frames, gmutex>>
    /\ UNCHANGED <<mem, disk, fileSize, pg, ex, wrote, vic, snap, latest>>

(* Fault variant: the victim's slot is handed over but the victim is left *)
(* in the page table and its list.                                         *)
TakeVictimKeepFrame(t, v) ==
    /\ UNCHANGED lru
    /\ AdmitAndLoad(t, frames[v].slot, frames, fifo)

(* Remove victim v from its list, hand its data slot to the thread's NEW   *)
(* frame, erase v from the page table, and continue with load_page.        *)
TakeVictim(t, v) ==
    LET fr == Erase(frames, v) IN
    /\ IF v \in ToSet(lru)
       THEN /\ lru' = Remove(lru, v)
            /\ AdmitAndLoad(t, frames[v].slot, fr, fifo)
       ELSE /\ UNCHANGED lru
            /\ AdmitAndLoad(t, frames[v].slot, fr, Remove(fifo, v))

(* One round of evict_page's loop, under the global mutex.  No candidate:  *)
(* fix_page drops its user and latch, erases its NEW frame if nobody else  *)
(* waits on it, and throws buffer_full_error.  A clean candidate is taken  *)
(* at once; a dirty one is marked EVICTING and a snapshot of its data is   *)
(* written out with the mutex released.                                    *)
EvictStep(t) ==
    LET p == pg[t]
        v == FindPageToEvict
    IN
    /\ pc[t] = "evict"
    /\ gmutex = t
    /\ \/ /\ v = NoPage
          /\ frames' = IF frames[p].users = 1 THEN Erase(frames, p)
                       ELSE [frames EXCEPT ![p].users = @ - 1,
                                           ![p].xh = NoThread]
          /\ gmutex' = NoThread
          /\ pc' = [pc EXCEPT ![t] = "idle"]
          /\ UNCHANGED <<fifo, lru, mem, fileSize, vic, snap>>
       \/ /\ v # NoPage
          /\ ~frames[v].dirty
          /\ TakeVictim(t, v)
          /\ UNCHANGED <<vic, snap>>
       \/ /\ v # NoPage
          /\ frames[v].dirty
          /\ frames' = [frames EXCEPT ![v].state = "EVICTING"]
          /\ vic' = [vic EXCEPT ![t] = v]
          /\ snap' = [snap EXCEPT ![t] = mem[frames[v].slot]]
          /\ gmutex' = NoThread
          /\ pc' = [pc EXCEPT ![t] = "evwrite"]
          /\ UNCHANGED <<fifo, lru, mem, fileSize>>
    /\ UNCHANGED <<disk, pg, ex, wrote, latest>>

(* Fault variant: a victim re-fixed during the write-back is put back as  *)
(* LOADED and clean, as if the write had covered its latest changes.       *)
EvictWriteBackClean(t) ==
    LET v == vic[t] IN
    /\ pc[t] = "evwrite"
    /\ gmutex = NoThread
    /\ disk' = [disk EXCEPT ![v] = snap[t]]
    /\ IF frames[v].state = "EVICTING"
       THEN TakeVictim(t, v)
       ELSE /\ frames' = [frames EXCEPT ![v].state = "LOADED",
                                         ![v].dirty = FALSE]
            /\ gmutex' = t
            /\ pc' = [pc EXCEPT ![t] = "evict"]
            /\ UNCHANGED <<fifo, lru, mem, fileSize>>
    /\ UNCHANGED <<pg, ex, wrote, vic, snap, latest>>

(* write_out_page of the snapshot completes and the mutex is relocked.     *)
(* Still EVICTING: the victim is taken.  RELOADED (someone fixed it        *)
(* meanwhile): it becomes LOADED again and the loop retries.               *)
EvictWriteBack(t) ==
    LET v == vic[t] IN
    /\ pc[t] = "evwrite"
    /\ gmutex = NoThread
    /\ disk' = [disk EXCEPT ![v] = snap[t]]
    /\ IF frames[v].state = "EVICTING"
       THEN TakeVictim(t, v)
       ELSE /\ frames' = [frames EXCEPT ![v].state = "LOADED"]
            /\ gmutex' = t
            /\ pc' = [pc EXCEPT ![t] = "evict"]
            /\ UNCHANGED <<fifo, lru, mem, fileSize>>
    /\ UNCHANGED <<pg, ex, wrote, vic, snap, latest>>

(* load_page's read_block completes with the mutex released; the mutex is  *)
(* relocked, the frame is LOADED and clean, then fix_page drops its        *)
(* exclusive latch and the mutex and goes for the latch it was asked for.  *)
ReadPage(t) ==
    LET p == pg[t] IN
    /\ pc[t] = "read"
    /\ gmutex = NoThread
    /\ mem' = [mem EXCEPT ![frames[p].slot] = disk[p]]
    /\ frames' = [frames EXCEPT ![p].state = "LOADED", ![p].dirty = FALSE,
                                 ![p].xh = NoThread]
    /\ pc' = [pc EXCEPT ![t] = "latch"]
    /\ UNCHANGED <<fifo, lru, disk, fileSize, gmutex, pg, ex, wrote, vic,
                   snap, latest>>

(* The caller of fix_page takes the frame latch in the mode it asked for.  *)
Latch(t) ==
    LET p == pg[t] IN
    /\ pc[t] = "latch"
    /\ frames[p].xh = NoThread
    /\ IF ex[t]
       THEN /\ frames[p].sh = {}
            /\ frames' = [frames EXCEPT ![p].xh = t]
       ELSE frames' = [frames EXCEPT ![p].sh = @ \cup {t}]
    /\ pc' = [pc EXCEPT ![t] = "using"]
    /\ UNCHANGED <<fifo, lru, mem, disk, fileSize, gmutex, pg, ex, wrote,
                   vic, snap, latest>>

(* A client holding the frame exclusively writes the page: its data now    *)
(* holds the next version.                                                 *)
WritePage(t) ==
    LET p == pg[t] IN
    /\ pc[t] = "using"
    /\ ex[t]
    /\ ~wrote[t]
    /\ latest[p] < MaxVersion
    /\ mem' = [mem EXCEPT ![frames[p].slot] = latest[p] + 1]
    /\ latest' = [latest EXCEPT ![p] = @ + 1]
    /\ wrote' = [wrote EXCEPT ![t] = TRUE]
    /\ UNCHANGED <<frames, fifo, lru, disk, fileSize, gmutex, pc, pg, ex,
                   vic, snap>>

(* unfix_page first drops the frame latch (BufferFrame::unlock) ...        *)
Unlatch(t) ==
    LET p == pg[t] IN
    /\ pc[t] = "using"
    /\ frames' = [frames EXCEPT ![p].xh = IF ex[t] THEN NoThread ELSE @,
                                 ![p].sh = @ \ {t}]
    /\ pc' = [pc EXCEPT ![t] = "unfix"]
    /\ UNCHANGED <<fifo, lru, mem, disk, fileSize, gmutex, pg, ex, wrote,
                   vic, snap, latest>>

(* ... then, under the global mutex, marks it dirty if the client wrote it *)
(* and drops the user.                                                     *)
Unfix(t) ==
    LET p == pg[t] IN
    /\ pc[t] = "unfix"
    /\ gmutex = NoThread
    /\ frames' = [frames EXCEPT ![p].dirty = @ \/ wrote[t],
                                 ![p].users = @ - 1]
    /\ wrote' = [wrote EXCEPT ![t] = FALSE]
    /\ pc' = [pc EXCEPT ![t] = "idle"]
    /\ UNCHANGED <<fifo, lru, mem, disk, fileSize, gmutex, pg, ex, vic,
                   snap, latest>>

(* ~BufferManager with no client active writes every frame to its file,    *)
(* and a new buffer manager starts over the same files.                    *)
Restart ==
    /\ \A t \in Threads : pc[t] = "idle"
    /\ gmutex = NoThread
    /\ DOMAIN frames # {}
    /\ disk' = [p \in Pages |-> IF p \in DOMAIN frames
                                THEN mem[frames[p].slot] ELSE disk[p]]
    /\ frames' = [p \in {} |-> frames[p]]
    /\ fifo' = <<>>
    /\ lru' = <<>>
    /\ UNCHANGED <<mem, fileSize, gmutex, pc, pg, ex, wrote, vic, snap,
                   latest>>

-----------------------------------------------------------------------------
(* The steps a thread takes by itself once it has called fix_page, up to  *)
(* returning from unfix_page.  Calling fix_page and writing the page are  *)
(* the client's choice; unfixing a held frame is not.                     *)
ThreadStep(t) ==
    \/ FixHit(t) \/ FixWaitNew(t) \/ FixMiss(t) \/ WaitNew(t) \/ Recheck(t)
    \/ EvictStep(t) \/ EvictWriteBack(t) \/ ReadPage(t) \/ Latch(t)
    \/ Unlatch(t) \/ Unfix(t)

Next ==
    \/ \E t \in Threads, p \in Pages, x \in BOOLEAN : StartFix(t, p, x)
    \/ \E t \in Threads : ThreadStep(t) \/ WritePage(t)
    \/ Restart

(* A thread's steps are told apart by its pc, so one strong fairness       *)
(* condition per thread says that each step that is enabled infinitely     *)
(* often is taken: acquiring the global mutex or a frame latch, which      *)
(* others hold intermittently, is assumed not to starve (std::mutex and    *)
(* std::shared_mutex promise no such thing; the assumption is the          *)
(* scheduler's).                                                          *)
Fairness == \A t \in Threads : SF_vars(ThreadStep(t))

Spec == Init /\ [][Next]_vars /\ Fairness

-----------------------------------------------------------------------------
TypeOK ==
    /\ DOMAIN frames \subseteq Pages
    /\ \A p \in DOMAIN frames : frames[p] \in Frame
    /\ fifo \in Seq(Pages) /\ lru \in Seq(Pages)
    /\ mem \in [Slots -> Versions] /\ disk \in [Pages -> Versions]
    /\ fileSize \in Nat
    /\ gmutex \in Threads \cup {NoThread}
    /\ pc \in [Threads -> Pcs] /\ pg \in [Threads -> Pages]
    /\ ex \in [Threads -> BOOLEAN] /\ wrote \in [Threads -> BOOLEAN]
    /\ vic \in [Threads -> Pages \cup {NoPage}]
    /\ snap \in [Threads -> Versions] /\ latest \in [Pages -> Versions]

(* Threads between the user-count increment in fix_page and the decrement  *)
(* in unfix_page (or on the failure and NEW-retry paths).                  *)
Fixing == {"waitnew", "recheck", "evict", "evwrite", "read", "latch",
           "using", "unfix"}

(* Every frame's user count equals the number of threads that hold a fix   *)
(* on it, and no thread's fix refers to a frame that has been erased from  *)
(* bufferframes: the eviction, failed-fix and NEW-retry paths never drop   *)
(* a frame someone still uses.                                             *)
UsersMatchFixes ==
    /\ \A t \in Threads : pc[t] \in Fixing => pg[t] \in DOMAIN frames
    /\ \A p \in DOMAIN frames :
          frames[p].users = Cardinality({t \in Threads :
                                          pc[t] \in Fixing /\ pg[t] = p})

(* FIFO and LRU hold each admitted frame exactly once: exactly the frames  *)
(* that are past NEW, never both lists, never an erased frame.  fix_page's *)
(* promotion and evict_page's removal keep the two lists consistent.       *)
ListsPartitionFrames ==
    /\ IsInjective(fifo) /\ IsInjective(lru)
    /\ ToSet(fifo) \cap ToSet(lru) = {}
    /\ ToSet(fifo) \cup ToSet(lru) =
          {p \in DOMAIN frames : frames[p].state # "NEW"}

(* No two frames share a data slot of loaded_pages: slots handed out by    *)
(* table size before the pool is full and slots taken over from evicted    *)
(* frames never collide.                                                   *)
SlotsDistinct ==
    \A p, q \in DOMAIN frames :
        p # q /\ frames[p].slot # NoSlot => frames[p].slot # frames[q].slot

(* A frame whose state says its data is valid holds the newest version of  *)
(* its page: no load returns stale contents, including a re-fix racing     *)
(* with the write-back of an eviction.                                     *)
FrameCurrent ==
    \A p \in DOMAIN frames :
        Loaded(p) => mem[frames[p].slot] = latest[p]

(* A page whose newest version is not on disk is still buffered and will  *)
(* be written: its frame is dirty or its writer has yet to unfix it dirty. *)
(* Eviction and the destructor never drop an unwritten update.            *)
NoLostWrite ==
    \A p \in Pages :
        disk[p] # latest[p] =>
            /\ Loaded(p)
            /\ \/ frames[p].dirty
               \/ \E t \in Threads : wrote[t] /\ pg[t] = p

(* A NEW frame whose creator has left fix_page (evict_page found no       *)
(* victim and buffer_full was thrown) is eventually erased by the last of  *)
(* the threads that were waiting on it, or re-created and loaded.          *)
Orphaned(p) ==
    /\ p \in DOMAIN frames
    /\ frames[p].state = "NEW"
    /\ \A t \in Threads : pg[t] = p => pc[t] \notin {"evict", "evwrite"}

OrphanResolved ==
    \A p \in Pages : Orphaned(p) ~> ~Orphaned(p)

=============================================================================
