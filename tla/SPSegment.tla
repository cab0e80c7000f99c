----------------------------- MODULE SPSegment -----------------------------
(***************************************************************************)
(* The slotted-page segment and its free-space inventory                   *)
(* (src/task-slotted-pages/src/slotted_page/sp_segment.cc and              *)
(* fsi_segment.cc): records named by TIDs on slotted pages, found through *)
(* 4-bit free-space entries, and moved to another page behind a redirect  *)
(* when they outgrow their own.                                            *)
(*                                                                         *)
(* The segment is used by one thread; every call runs to completion and   *)
(* is one step.  fix_page/unfix_page of the stub buffer manager only give  *)
(* access to the page bytes and are left out.  A failed assert() stops the *)
(* program: aborted is set and nothing else changes.                       *)
(***************************************************************************)
EXTENDS Naturals, FiniteSets, FiniteSetsExt, TLC, SlottedPage

CONSTANTS
    MaxPages,   \* bound on table.allocated_slotted_pages
    MaxRecords, \* bound on the records the caller holds at once
    AllocSizes, \* the sizes callers allocate records with
    Sizes       \* the sizes callers resize records to

PageIds == 0 .. MaxPages - 1
Tids == [page : PageIds, slot : SlotIds]

VARIABLES
    pages,    \* slotted page id -> page
    numSp,    \* table.allocated_slotted_pages
    fsi,      \* slotted page id -> 4-bit FSI entry
    recs,     \* the caller's records: TID -> the size it last asked for
    aborted   \* an assert() failed

vars == <<pages, numSp, fsi, recs, aborted>>

-----------------------------------------------------------------------------
(* The FSISegment look-up table: the upper half linear in steps of an     *)
(* eighth of half the usable page, the lower half halving from there.     *)
FreeSize == PageSize - HeaderSize
LookUp ==
    [i \in 0 .. 15 |->
        IF i >= 8 THEN FreeSize - (15 - i) * ((FreeSize \div 2) \div 8)
        ELSE IF i = 0 THEN 0
        ELSE (FreeSize \div 2) \div (2 ^ (7 - i))]

(* Mutant: encode rounds up to the lowest entry covering free.            *)
EncodeRoundUp(free) == Min({i \in 0 .. 15 : free <= LookUp[i]})

(* encode_free_space: the highest entry whose value does not exceed free. *)
Encode(free) == Max({i \in 0 .. 15 : free >= LookUp[i]})

(* find: the first allocated page whose decoded entry covers required.    *)
FsiHits(fs, nsp, required) == {p \in 0 .. nsp - 1 : LookUp[fs[p]] >= required}

(* Mutant: a fresh slotted page is used without counting it allocated.   *)
SegAllocateNoGrow(ps, fs, nsp, size) ==
    LET req  == size + SlotSize
        hits == FsiHits(fs, nsp, req)
        p    == IF hits = {} THEN nsp ELSE Min(hits)
        a    == Allocate(IF hits = {} THEN EmptyPage ELSE ps[p], size)
    IN  [fits  |-> hits # {} \/ nsp < MaxPages,
         pages |-> [ps EXCEPT ![p] = a.page],
         fsi   |-> [fs EXCEPT ![p] = IF hits = {} THEN Encode(a.page.free_space)
                                     ELSE Encode(LookUp[@] - req)],
         numSp |-> nsp,
         tid   |-> [page |-> p, slot |-> a.slot],
         ok    |-> size <= PageSize - HeaderSize - SlotSize /\ a.ok]

(* SPSegment::allocate on the segment (ps, fs, nsp).  On an FSI hit find   *)
(* has already lowered the page's entry by required_space + slot; on a    *)
(* miss the next page is initialised and its entry set by update.  fits   *)
(* is the model's bound on the number of pages.                            *)
SegAllocate(ps, fs, nsp, size) ==
    LET req  == size + SlotSize
        hits == FsiHits(fs, nsp, req)
        p    == IF hits = {} THEN nsp ELSE Min(hits)
        a    == Allocate(IF hits = {} THEN EmptyPage ELSE ps[p], size)
    IN  [fits  |-> hits # {} \/ nsp < MaxPages,
         pages |-> [ps EXCEPT ![p] = a.page],
         fsi   |-> [fs EXCEPT ![p] = IF hits = {} THEN Encode(a.page.free_space)
                                     ELSE Encode(LookUp[@] - req)],
         numSp |-> IF hits = {} THEN nsp + 1 ELSE nsp,
         tid   |-> [page |-> p, slot |-> a.slot],
         ok    |-> size <= PageSize - HeaderSize - SlotSize /\ a.ok]

(* A call returns with the new segment, or an assert stops the program.   *)
Finish(ok, ps, fs, nsp, rs) ==
    /\ ~aborted
    /\ IF ok
       THEN /\ pages' = ps /\ fsi' = fs /\ numSp' = nsp /\ recs' = rs
            /\ UNCHANGED aborted
       ELSE /\ aborted' = TRUE
            /\ UNCHANGED <<pages, numSp, fsi, recs>>

SlotOf(t) == pages[t.page].slots[t.slot]
IsRedirect(t) == SlotOf(t).kind = "redirect"

(* The redirect target of t and the asserts every path checks on it.      *)
TargetOf(t) == pages[SlotOf(t).to.page].slots[SlotOf(t).to.slot]
TargetOk(t) ==
    LET ts == TargetOf(t) IN ts.rt /\ ts.size > TidSize /\ ts.orig = t

(* Mutant: the target is flagged but t is not written into its payload.  *)
MarkTargetNoTid(ps, u, t, size) == [ps EXCEPT ![u.page].slots[u.slot].rt = TRUE]

(* Mark the allocated slot u as redirect target of t, and write t into    *)
(* its first bytes, after the asserts on the fresh target.                *)
MarkTarget(ps, u, t, size) ==
    [ps EXCEPT ![u.page].slots[u.slot].rt = TRUE, ![u.page].slots[u.slot].orig = t]
MarkTargetOk(ps, u, size) ==
    ps[u.page].slots[u.slot].size = size + TidSize /\ ~ps[u.page].slots[u.slot].rt

-----------------------------------------------------------------------------
(* The SPSegment and FSISegment constructors: slotted page 0 exists, and  *)
(* the first FSI page is all 0xFF.                                         *)
Init ==
    /\ pages = [p \in PageIds |-> EmptyPage]
    /\ numSp = 1
    /\ fsi = [p \in PageIds |-> 15]
    /\ recs = [t \in {} |-> 0]
    /\ aborted = FALSE

(* allocate(required_space).                                               *)
SpAllocate(n) ==
    LET a == SegAllocate(pages, fsi, numSp, n) IN
    /\ Cardinality(DOMAIN recs) < MaxRecords
    /\ a.fits
    /\ Finish(a.ok, a.pages, a.fsi, a.numSp, (a.tid :> n) @@ recs)

(* resize of a record on its own page, cases 2-3: shrink in place, or     *)
(* grow through relocate when free space and the old payload exceed the  *)
(* new size.  Every change updates the page's FSI entry.  Case 1, the     *)
(* same size, returns at once: a stuttering step.                        *)
SpResizeInPlace(t, n) ==
    LET pg  == pages[t.page]
        old == SlotOf(t).size
        r   == IF n < old
               THEN [page |-> [pg EXCEPT !.free_space = @ + (old - n),
                                         !.slots[t.slot].size = n], ok |-> TRUE]
               ELSE Relocate(pg, t.slot, n)
    IN
    /\ ~IsRedirect(t)
    /\ n <= old \/ pg.free_space + old > n
    /\ n # old
    /\ Finish(r.ok, [pages EXCEPT ![t.page] = r.page],
              [fsi EXCEPT ![t.page] = Encode(r.page.free_space)], numSp,
              [recs EXCEPT ![t] = n])

(* resize, case 4: the record does not fit its page.  A target of n plus *)
(* the TID is allocated elsewhere, the slot becomes a redirect, the old   *)
(* payload's bytes are refunded, and the target is marked and given t.    *)
SpResizeToRedirect(t, n) ==
    LET old == SlotOf(t).size
        a   == SegAllocate(pages, fsi, numSp, n + TidSize)
        ps  == [a.pages EXCEPT ![t.page].slots[t.slot] = RedirectSlot(a.tid),
                               ![t.page].free_space = @ + old]
    IN
    /\ ~IsRedirect(t)
    /\ n > old /\ pages[t.page].free_space + old <= n
    /\ a.fits
    /\ Finish(a.ok /\ a.tid.page # t.page /\ MarkTargetOk(ps, a.tid, n),
              MarkTarget(ps, a.tid, t, n),
              [a.fsi EXCEPT ![t.page] = Encode(ps[t.page].free_space)], a.numSp,
              [recs EXCEPT ![t] = n])

(* resize of a redirected record, case 5.  All three paths first check   *)
(* the target.  If the origin page has n bytes free the redirect is       *)
(* undone: the target is erased, the slot becomes a size-0 slot at       *)
(* offset 1, and relocate gives it n bytes.                              *)
SpResizeUndoRedirect(t, n) ==
    LET u   == SlotOf(t).to
        e   == Erase(pages[u.page], u.slot)
        ps1 == [pages EXCEPT ![u.page] = e.page]
        r   == Relocate([ps1[t.page] EXCEPT !.slots[t.slot] = NormalSlot(1, 0, FALSE, ZeroTid)],
                        t.slot, n)
    IN
    /\ IsRedirect(t)
    /\ pages[t.page].free_space >= n
    /\ Finish(TargetOk(t) /\ e.ok /\ r.ok,
              [ps1 EXCEPT ![t.page] = r.page],
              [fsi EXCEPT ![u.page] = Encode(e.page.free_space),
                          ![t.page] = Encode(r.page.free_space)], numSp,
              [recs EXCEPT ![t] = n])

(* Else, if the target page has room for n bytes besides its free space  *)
(* and the target payload less the TID, the target slot is relocated to  *)
(* n bytes.                                                               *)
SpResizeAtTarget(t, n) ==
    LET u  == SlotOf(t).to
        tp == pages[u.page]
        r  == Relocate(tp, u.slot, n)
    IN
    /\ IsRedirect(t)
    /\ pages[t.page].free_space < n
    /\ tp.free_space + tp.slots[u.slot].size - TidSize >= n
    /\ Finish(TargetOk(t) /\ r.ok, [pages EXCEPT ![u.page] = r.page],
              [fsi EXCEPT ![u.page] = Encode(r.page.free_space)], numSp,
              [recs EXCEPT ![t] = n])

(* Else the old target is erased and a new one of n plus the TID is     *)
(* allocated on a third page; the slot is pointed at it.                 *)
SpResizeMoveTarget(t, n) ==
    LET u   == SlotOf(t).to
        tp  == pages[u.page]
        e   == Erase(tp, u.slot)
        ps1 == [pages EXCEPT ![u.page] = e.page]
        fs1 == [fsi EXCEPT ![u.page] = Encode(e.page.free_space)]
        a   == SegAllocate(ps1, fs1, numSp, n + TidSize)
        ps2 == [a.pages EXCEPT ![t.page].slots[t.slot] = RedirectSlot(a.tid)]
    IN
    /\ IsRedirect(t)
    /\ pages[t.page].free_space < n
    /\ tp.free_space + tp.slots[u.slot].size - TidSize < n
    /\ a.fits
    /\ Finish(/\ TargetOk(t) /\ e.ok /\ a.ok
              /\ a.tid.page # t.page /\ a.tid.page # u.page
              /\ MarkTargetOk(ps2, a.tid, n),
              MarkTarget(ps2, a.tid, t, n), a.fsi, a.numSp,
              [recs EXCEPT ![t] = n])

(* erase.  A record on its own page is erased and the FSI entry updated. *)
(* For a redirect, SlottedPage::erase is called on the redirect slot      *)
(* itself, whose first assert is that the slot is not a redirect.         *)
SpErase(t) ==
    LET e == Erase(pages[t.page], t.slot) IN
    Finish(e.ok, [pages EXCEPT ![t.page] = e.page],
           [fsi EXCEPT ![t.page] = Encode(e.page.free_space)], numSp,
           [u \in DOMAIN recs \ {t} |-> recs[u]])

(* read of the caller's recs[t] bytes: asserts only.  A read whose       *)
(* asserts hold changes nothing, a stuttering step, so the only step it   *)
(* contributes is the failed assert.                                      *)
SpRead(t) ==
    LET ok == IF IsRedirect(t) THEN TargetOk(t) /\ TargetOf(t).size >= recs[t]
              ELSE SlotOf(t).size >= recs[t]
    IN  ~ok /\ Finish(ok, pages, fsi, numSp, recs)

(* write of recs[t] bytes.  For a redirect, the target TID is overwritten *)
(* by the 8 bytes at the redirect word's offset field, (tid >> 24) &      *)
(* 0xFFFFFF = page >> 8, i.e. byte 0 of the page for the model's pages:   *)
(* the header.  Read as a TID that is slot slot_count of page              *)
(* first_free_slot | data_start << 16, at least 12 << 16, never an        *)
(* allocated page; its zero-filled slot is not a redirect target and the  *)
(* assert on it fails.  As for read, only the failing step is a step.     *)
SpWrite(t) ==
    LET ok == ~IsRedirect(t) /\ SlotOf(t).size >= recs[t]
    IN  ~ok /\ Finish(ok, pages, fsi, numSp, recs)

Next ==
    \/ \E n \in AllocSizes : SpAllocate(n)
    \/ \E t \in DOMAIN recs, n \in Sizes : SpResizeInPlace(t, n)
    \/ \E t \in DOMAIN recs, n \in Sizes : SpResizeToRedirect(t, n)
    \/ \E t \in DOMAIN recs, n \in Sizes : SpResizeUndoRedirect(t, n)
    \/ \E t \in DOMAIN recs, n \in Sizes : SpResizeAtTarget(t, n)
    \/ \E t \in DOMAIN recs, n \in Sizes : SpResizeMoveTarget(t, n)
    \/ \E t \in DOMAIN recs : SpErase(t)
    \/ \E t \in DOMAIN recs : SpRead(t)
    \/ \E t \in DOMAIN recs : SpWrite(t)

Spec == Init /\ [][Next]_vars
-----------------------------------------------------------------------------
Allocated == 0 .. numSp - 1

TypeOK ==
    /\ numSp \in 1 .. MaxPages
    /\ fsi \in [PageIds -> 0 .. 15]
    /\ \A p \in PageIds :
         /\ pages[p].slot_count \in 0 .. Cardinality(SlotIds)
         /\ pages[p].data_start \in 0 .. PageSize
         /\ pages[p].free_space \in 0 .. FreeSize
         /\ \A i \in SlotIds : pages[p].slots[i].kind \in {"empty", "normal", "redirect"}
         /\ p >= numSp => pages[p] = EmptyPage
    /\ DOMAIN recs \subseteq Tids
    /\ aborted \in BOOLEAN

(* The layout of every allocated page (spec.md 3, "Slotted page"): slots  *)
(* past slot_count are empty, data_start lies between the slot array and  *)
(* every live payload, and live payloads lie inside the page without      *)
(* overlapping.  allocate, relocate, erase and compactify each move       *)
(* data_start, offsets and slot_count, and a wrong one lets a later       *)
(* allocate write over a record or the slot array.                        *)
PageLayout ==
    \A p \in Allocated :
        LET pg == pages[p] IN
        /\ \A i \in SlotIds : i >= pg.slot_count => pg.slots[i].kind = "empty"
        /\ ContinuousOk(pg)
        /\ \A i \in LiveSlots(pg) :
              pg.data_start <= pg.slots[i].off /\ pg.slots[i].off + pg.slots[i].size <= PageSize
        /\ \A i, j \in LiveSlots(pg) :
              i # j => \/ pg.slots[i].off + pg.slots[i].size <= pg.slots[j].off
                       \/ pg.slots[j].off + pg.slots[j].size <= pg.slots[i].off

(* The header sum of spec.md 8: on every page, the live payload sizes and *)
(* free_space add up to the page less the header and the slot array.      *)
(* Each of allocate, relocate, erase (with its trimming of trailing empty *)
(* slots) and the redirect paths of resize adjusts free_space by hand.    *)
HeaderSum ==
    \A p \in Allocated :
        LET pg == pages[p] IN
        MapThenSumSet(LAMBDA i : pg.slots[i].size, LiveSlots(pg)) + pg.free_space
            = PageSize - HeaderSize - pg.slot_count * SlotSize

(* FSI conservatism (spec.md 8): the decoded entry of every allocated     *)
(* page never exceeds its free space.  find lowers an entry by the        *)
(* required space plus a slot before the page is written, and allocate   *)
(* then takes the size alone when it reuses a slot; every other change of *)
(* free space must be followed by update.                                 *)
FsiConservative ==
    \A p \in Allocated : LookUp[fsi[p]] <= pages[p].free_space

(* Redirects (spec.md 4.2, resize case 5): every redirect slot points at a *)
(* live normal slot on another allocated page, and every slot marked as   *)
(* redirect target is pointed at by exactly one redirect slot, whose TID  *)
(* its payload starts with.  Resize creates, moves and undoes redirects   *)
(* in several steps over two or three pages.                              *)
RedirectSlots ==
    {t \in Tids : t.page \in Allocated /\ t.slot < pages[t.page].slot_count
                  /\ SlotOf(t).kind = "redirect"}
RedirectLinks ==
    LET rs == RedirectSlots IN
    /\ \A t \in rs :
          LET u == SlotOf(t).to IN
          u.page \in Allocated /\ u.page # t.page /\ IsLive(pages[u.page], u.slot)
    /\ \A u \in Tids :
          u.page \in Allocated /\ IsLive(pages[u.page], u.slot) /\ SlotOf(u).rt =>
              \E t \in rs : /\ SlotOf(t).to = u /\ SlotOf(u).orig = t
                           /\ \A t2 \in rs \ {t} : SlotOf(t2).to # u

(* No assert() of the segment or its pages ever fails.                    *)
NoFailedAssert == ~aborted

(* The records as the pages hold them: a live slot that is not a redirect *)
(* target is a record of its size; a redirect is a record of its target's *)
(* size less the TID the target starts with.                              *)
StoredTids ==
    {t \in Tids : t.page \in Allocated /\ t.slot < pages[t.page].slot_count
                  /\ \/ SlotOf(t).kind = "normal" /\ ~SlotOf(t).rt
                     \/ SlotOf(t).kind = "redirect"}
StoredSize(t) == IF IsRedirect(t) THEN TargetOf(t).size - TidSize ELSE SlotOf(t).size

(* Every record the caller holds is on the pages with the size it last  *)
(* gave (spec.md 4.2: resize preserves the record, and a TID names it     *)
(* until erase), and the pages hold no other record.  Redirection moves a *)
(* record to other pages behind an unchanged TID over several calls.      *)
StoredAsCalled == [t \in StoredTids |-> StoredSize(t)] = recs
=============================================================================
