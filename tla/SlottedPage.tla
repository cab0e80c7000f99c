---------------------------- MODULE SlottedPage ----------------------------
(***************************************************************************)
(* The slotted page of task-slotted-pages                                  *)
(* (src/task-slotted-pages/src/slotted_page/slotted_page.cc and            *)
(* include/slotted_page/slotted_page.h), as operators on page values.      *)
(*                                                                         *)
(* A page is its header (slot_count, first_free_slot, data_start,          *)
(* free_space) and its slot array, a function over every slot index that  *)
(* fits the page.  The 64-bit slot word is kept as what it decodes to: an  *)
(* empty slot, a normal slot (offset, size, redirect-target flag) or a     *)
(* redirect (the TID it holds).  Payload bytes are not modelled; orig      *)
(* stands for the first TID-sized bytes of a payload, which is all the     *)
(* code ever reads back (the original TID of a redirect target), and is    *)
(* carried along when the code moves or copies the payload.                *)
(*                                                                         *)
(* An operation returns the new page and ok, the conjunction of the        *)
(* assert()s it executes: the default build keeps them, and a failed one   *)
(* aborts the program before the page is written.                          *)
(***************************************************************************)
EXTENDS Naturals, FiniteSets, FiniteSetsExt

CONSTANTS
    PageSize,    \* buffer_manager.get_page_size()
    HeaderSize,  \* sizeof(SlottedPage::Header) = 12
    SlotSize,    \* sizeof(SlottedPage::Slot) = 8
    TidSize      \* sizeof(TID) = 8

(* Every slot index whose 8 bytes fit behind the header.                   *)
SlotIds == 0 .. (PageSize - HeaderSize) \div SlotSize - 1

(* The zero TID, which is what zero-filled payload bytes decode to.        *)
ZeroTid == [page |-> 0, slot |-> 0]

EmptySlot == [kind |-> "empty", off |-> 0, size |-> 0, rt |-> FALSE,
              to |-> ZeroTid, orig |-> ZeroTid]
NormalSlot(o, s, rt, orig) ==
    [kind |-> "normal", off |-> o, size |-> s, rt |-> rt, to |-> ZeroTid, orig |-> orig]
RedirectSlot(tid) == [EmptySlot EXCEPT !.kind = "redirect", !.to = tid]

(* The SlottedPage(page_size) constructor.                                 *)
EmptyPage ==
    [slot_count |-> 0, first_free_slot |-> 0, data_start |-> PageSize,
     free_space |-> PageSize - HeaderSize, slots |-> [i \in SlotIds |-> EmptySlot]]

IsLive(pg, i) == i < pg.slot_count /\ pg.slots[i].kind = "normal"
LiveSlots(pg) == {i \in SlotIds : IsLive(pg, i)}

(* get_continuous_free_space and its assert that data and slots never    *)
(* overlap.                                                                *)
SlotsEnd(pg) == HeaderSize + pg.slot_count * SlotSize
ContinuousFree(pg) == pg.data_start - SlotsEnd(pg)
ContinuousOk(pg) == pg.data_start >= SlotsEnd(pg)

(* compactify: live payloads sorted by descending offset slide to the page *)
(* end in that order.  Ties in offset only arise between a size-0 payload  *)
(* and its neighbour, where std::sort's order changes nothing read later;  *)
(* they are broken by slot id.  The loop's assert is that no payload ends  *)
(* past the start of the one sorted before it.                             *)
SortedBefore(pg, j, i) ==
    \/ pg.slots[j].off > pg.slots[i].off
    \/ pg.slots[j].off = pg.slots[i].off /\ j < i
CompactOffset(pg, i) ==
    PageSize - MapThenSumSet(LAMBDA j : pg.slots[j].size,
                             {j \in LiveSlots(pg) : SortedBefore(pg, j, i) \/ j = i})
CompactifyOk(pg) ==
    \A i, j \in LiveSlots(pg) :
        SortedBefore(pg, j, i) => pg.slots[i].off + pg.slots[i].size <= pg.slots[j].off
Compactify(pg) ==
    IF LiveSlots(pg) = {} THEN [pg EXCEPT !.data_start = PageSize]
    ELSE [pg EXCEPT
            !.slots = [i \in SlotIds |->
                         IF IsLive(pg, i)
                         THEN [pg.slots[i] EXCEPT !.off = CompactOffset(pg, i)]
                         ELSE pg.slots[i]],
            !.data_start = PageSize - MapThenSumSet(LAMBDA j : pg.slots[j].size,
                                                    LiveSlots(pg))]

(* Compactify when the continuous region is smaller than need.            *)
MakeRoom(pg, need) == IF ContinuousFree(pg) < need THEN Compactify(pg) ELSE pg
MakeRoomOk(pg, need) ==
    ContinuousOk(pg) /\ (ContinuousFree(pg) < need => CompactifyOk(pg))

(* Put a fresh zero-filled payload of size at the new data_start.         *)
PlaceAt(pg, i, size) ==
    [pg EXCEPT !.data_start = @ - size,
               !.slots[i] = NormalSlot(pg.data_start - size, size, FALSE, ZeroTid)]

(* allocate, case 1.1: append a slot.                                      *)
AllocateNew(pg, size) ==
    LET p1 == MakeRoom(pg, size + SlotSize)
        p2 == [p1 EXCEPT !.first_free_slot = @ + 1,
                         !.free_space = @ - (size + SlotSize),
                         !.slot_count = @ + 1]
    IN  [page |-> PlaceAt(p2, pg.slot_count, size), slot |-> pg.slot_count,
         ok   |-> /\ pg.free_space >= size + SlotSize
                  /\ MakeRoomOk(pg, size + SlotSize)
                  /\ p2.data_start >= size]

(* allocate, case 1.2: reuse first_free_slot.  The search loop does not    *)
(* stop at the first empty slot above it: first_free_slot ends on the     *)
(* last one, or on slot_count when there is none.                          *)
AllocateReuse(pg, size) ==
    LET s  == pg.first_free_slot
        p1 == MakeRoom(pg, size)
        above == {i \in SlotIds : s < i /\ i < pg.slot_count /\ p1.slots[i].kind = "empty"}
        p2 == [p1 EXCEPT !.first_free_slot = IF above = {} THEN pg.slot_count ELSE Max(above),
                         !.free_space = @ - size]
    IN  [page |-> PlaceAt(p2, s, size), slot |-> s,
         ok   |-> /\ s < pg.slot_count
                  /\ MakeRoomOk(pg, size)
                  /\ pg.free_space >= size
                  /\ p2.data_start >= size]

Allocate(pg, size) ==
    IF pg.first_free_slot = pg.slot_count THEN AllocateNew(pg, size)
    ELSE AllocateReuse(pg, size)

(* relocate.  The grow case and the redirect-undo case clear the slot and *)
(* set it again with set_slot, whose redirect-target argument defaults to *)
(* false; the grow case copies the old payload (and with it orig) back.    *)
Relocate(pg, s, size) ==
    LET sl == pg.slots[s]
        Regrow(p0, orig) ==
            LET p1 == [p0 EXCEPT !.slots[s] = EmptySlot]
                p2 == [MakeRoom(p1, size) EXCEPT !.free_space = @ - size]
            IN  [page |-> [PlaceAt(p2, s, size) EXCEPT !.slots[s].orig = orig],
                 ok   |-> MakeRoomOk(p1, size)]
        entryOk == s < pg.slot_count /\ sl.kind = "normal"
    IN
    IF ~entryOk THEN [page |-> pg, ok |-> FALSE]
    ELSE IF sl.size = 0 /\ sl.off = 1 THEN
        LET r == Regrow(pg, ZeroTid)
        IN  [r EXCEPT !.ok = pg.free_space >= size /\ @]
    ELSE IF sl.size = size THEN [page |-> pg, ok |-> TRUE]
    ELSE IF sl.size > size THEN
        [page |-> [pg EXCEPT !.free_space = @ + (sl.size - size), !.slots[s].size = size],
         ok   |-> ~sl.rt \/ size > TidSize]
    ELSE
        LET p0 == [pg EXCEPT !.free_space = @ + sl.size,
                             !.data_start = IF sl.off = pg.data_start THEN @ + sl.size ELSE @]
            r  == Regrow(p0, sl.orig)
        IN  [r EXCEPT !.ok = p0.free_space >= size /\ @]

(* Mutant: the trimming loop drops slots without refunding their bytes.   *)
RECURSIVE TrimEmptyNoRefund(_)
TrimEmptyNoRefund(pg) ==
    IF pg.slot_count >= 1 /\ pg.slots[pg.slot_count - 1].kind = "empty"
    THEN TrimEmptyNoRefund([pg EXCEPT !.slot_count = @ - 1])
    ELSE pg

(* The loop of erase that drops trailing empty slots.                      *)
RECURSIVE TrimEmpty(_)
TrimEmpty(pg) ==
    IF pg.slot_count >= 1 /\ pg.slots[pg.slot_count - 1].kind = "empty"
    THEN TrimEmpty([pg EXCEPT !.slot_count = @ - 1, !.free_space = @ + SlotSize])
    ELSE pg

(* Mutant: erase advances data_start whatever the erased offset.         *)
EraseAlwaysAdvance(pg, s) ==
    LET sl == pg.slots[s]
        p1 == [pg EXCEPT !.free_space = @ + sl.size,
                         !.first_free_slot = IF s < @ THEN s ELSE @,
                         !.data_start = @ + sl.size,
                         !.slots[s] = EmptySlot]
    IN  [page |-> IF s = pg.slot_count - 1 THEN TrimEmpty(p1) ELSE p1,
         ok   |-> s < pg.slot_count /\ sl.kind = "normal"]

(* erase.                                                                  *)
Erase(pg, s) ==
    LET sl == pg.slots[s]
        p1 == [pg EXCEPT !.free_space = @ + sl.size,
                         !.first_free_slot = IF s < @ THEN s ELSE @,
                         !.data_start = IF sl.off = @ THEN @ + sl.size ELSE @,
                         !.slots[s] = EmptySlot]
    IN  [page |-> IF s = pg.slot_count - 1 THEN TrimEmpty(p1) ELSE p1,
         ok   |-> s < pg.slot_count /\ sl.kind = "normal"]
=============================================================================
