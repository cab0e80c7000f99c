---------------------------- MODULE TwoQReplacer ----------------------------
(***************************************************************************)
(* TwoQReplacer of task-slotted-pages (2Q_replacer.cc). fifo_list and     *)
(* lru_list are sequences whose index 1 is the list's begin(); ht maps a  *)
(* frame to its page_hotness, or to NotTracked when the frame has no      *)
(* entry (the entry's list iterator is the frame's position in its list). *)
(* A pinned frame stays in its list as a placeholder, and fifo_size and   *)
(* lru_size count only the COLD and HOT entries. Every operation runs     *)
(* under the unique latch, so each is one step. A failed assertion aborts *)
(* the process: failed records which one, and no step follows it.        *)
(***************************************************************************)
EXTENDS Naturals, FiniteSets, Sequences, SequencesExt, Functions

CONSTANTS
    Frames,     \* the frame ids the callers use, each <= num_pages
    NumPages    \* num_pages

VARIABLES
    fifo,       \* fifo_list
    lru,        \* lru_list
    ht,         \* ht: frame -> page_hotness, or NotTracked
    fifoSize,   \* fifo_size
    lruSize,    \* lru_size
    failed      \* the assertion that aborted the process, or "none"

vars == <<fifo, lru, ht, fifoSize, lruSize, failed>>

Hotness == {"COLD", "HOT", "COLD_PINNED", "HOT_PINNED"}
NotTracked == "none"

(* The frames with an entry in ht: ht.size().                              *)
Entries == {f \in Frames : ht[f] # NotTracked}

(* TwoQReplacer(num_pages): empty lists and table, both counters zero.     *)
Init ==
    /\ fifo = <<>> /\ lru = <<>>
    /\ ht = [f \in Frames |-> NotTracked]
    /\ fifoSize = 0 /\ lruSize = 0
    /\ failed = "none"

Running == failed = "none"

(* Mutant: the victim scan runs from begin() instead of rbegin().          *)
VictimIndexFront(list, comp) == SelectInSeq(list, LAMBDA f : ht[f] = comp)

(* The loop of Victim: the position of the entry with hotness comp nearest *)
(* the list's end, 0 if there is none.                                     *)
VictimIndex(list, comp) == SelectLastInSeq(list, LAMBDA f : ht[f] = comp)

(* Victim with an empty ht: assert(ht.size() > 0) fails.                   *)
VictimEmpty ==
    /\ Running /\ Entries = {}
    /\ failed' = "VictimEmpty"
    /\ UNCHANGED <<fifo, lru, ht, fifoSize, lruSize>>

(* Mutant: Victim without the early return on fifo_size + lru_size == 0.  *)
HasVictimNoCheck == TRUE

(* Some entry can be victimized: fifo_size + lru_size != 0.                *)
HasVictim == fifoSize + lruSize # 0

(* Victim with every tracked frame pinned: return false.                    *)
VictimNone ==
    /\ Running /\ Entries # {}
    /\ ~HasVictim
    /\ UNCHANGED vars

(* Victim: pick the FIFO list while fifo_size > 0, else the LRU list,      *)
(* decrement its counter, then scan it from the end for a COLD (FIFO) or  *)
(* HOT (LRU) entry and erase it from the list and ht. A scan that finds   *)
(* none reaches assert(false).                                             *)
Victim ==
    /\ Running /\ Entries # {}
    /\ HasVictim
    /\ LET useLru == fifoSize = 0
           list   == IF useLru THEN lru ELSE fifo
           i      == VictimIndex(list, IF useLru THEN "HOT" ELSE "COLD")
           rest   == RemoveAt(list, i)
       IN /\ fifoSize' = IF useLru THEN fifoSize ELSE fifoSize - 1
          /\ lruSize' = IF useLru THEN lruSize - 1 ELSE lruSize
          /\ IF i = 0
             THEN /\ failed' = "NoVictim"
                  /\ UNCHANGED <<fifo, lru, ht>>
             ELSE /\ fifo' = IF useLru THEN fifo ELSE rest
                  /\ lru' = IF useLru THEN rest ELSE lru
                  /\ ht' = [ht EXCEPT ![list[i]] = NotTracked]
                  /\ UNCHANGED failed

(* Pin: a COLD or HOT entry becomes the PINNED placeholder of its list and *)
(* its counter drops; a pinned or untracked frame is left alone.           *)
Pin(f) ==
    /\ Running
    /\ \/ /\ ht[f] = "COLD"
          /\ ht' = [ht EXCEPT ![f] = "COLD_PINNED"]
          /\ fifoSize' = fifoSize - 1 /\ UNCHANGED lruSize
       \/ /\ ht[f] = "HOT"
          /\ ht' = [ht EXCEPT ![f] = "HOT_PINNED"]
          /\ lruSize' = lruSize - 1 /\ UNCHANGED fifoSize
       \/ /\ ht[f] \notin {"COLD", "HOT"}
          /\ UNCHANGED <<ht, fifoSize, lruSize>>
    /\ UNCHANGED <<fifo, lru, failed>>

(* Unpin of an untracked frame with ht full: assert(ht.size() < num_pages) *)
(* fails.                                                                  *)
UnpinFull(f) ==
    /\ Running /\ ht[f] = NotTracked
    /\ Cardinality(Entries) >= NumPages
    /\ failed' = "UnpinFull"
    /\ UNCHANGED <<fifo, lru, ht, fifoSize, lruSize>>

(* Unpin of an untracked frame: emplace_front into the FIFO list as COLD.  *)
UnpinNew(f) ==
    /\ Running /\ ht[f] = NotTracked
    /\ Cardinality(Entries) < NumPages
    /\ fifo' = <<f>> \o fifo
    /\ ht' = [ht EXCEPT ![f] = "COLD"]
    /\ fifoSize' = fifoSize + 1
    /\ UNCHANGED <<lru, lruSize, failed>>

(* Mutant: a COLD_PINNED entry unpinned without lru_size++.               *)
LruGainHotPinnedOnly(h) == IF h \in {"COLD", "HOT_PINNED"} THEN 1 ELSE 0

(* What Unpin of a tracked frame adds to lru_size: one unless it was HOT.  *)
LruGain(h) == IF h = "HOT" THEN 0 ELSE 1

(* Unpin of a tracked frame: splice its node to the LRU front, from the    *)
(* LRU list if it is HOT or HOT_PINNED, else from the FIFO list; it       *)
(* becomes HOT, and the counters follow: COLD moves from fifo_size to     *)
(* lru_size, a PINNED entry adds to lru_size, a HOT one changes neither.  *)
UnpinKnown(f) ==
    /\ Running /\ ht[f] # NotTracked
    /\ IF ht[f] \in {"HOT", "HOT_PINNED"}
       THEN /\ lru' = <<f>> \o Remove(lru, f)
            /\ UNCHANGED fifo
       ELSE /\ fifo' = Remove(fifo, f)
            /\ lru' = <<f>> \o lru
    /\ fifoSize' = IF ht[f] = "COLD" THEN fifoSize - 1 ELSE fifoSize
    /\ lruSize' = lruSize + LruGain(ht[f])
    /\ ht' = [ht EXCEPT ![f] = "HOT"]
    /\ UNCHANGED failed

Unpin(f) == UnpinFull(f) \/ UnpinNew(f) \/ UnpinKnown(f)

Next ==
    \/ VictimEmpty \/ VictimNone \/ Victim
    \/ \E f \in Frames : Pin(f) \/ Unpin(f)

Spec == Init /\ [][Next]_vars
-----------------------------------------------------------------------------
TypeOK ==
    /\ fifo \in Seq(Frames) /\ lru \in Seq(Frames)
    /\ ht \in [Frames -> Hotness \cup {NotTracked}]
    /\ fifoSize \in 0 .. Cardinality(Frames)
    /\ lruSize \in 0 .. Cardinality(Frames)
    /\ failed \in {"none", "VictimEmpty", "NoVictim", "UnpinFull"}

With(h) == {f \in Frames : ht[f] \in h}

(* The placeholder representation stays consistent through every sequence *)
(* of Victim, Pin and Unpin: each tracked frame sits exactly once in the  *)
(* list its hotness names (COLD and COLD_PINNED in fifo_list, HOT and     *)
(* HOT_PINNED in lru_list), untracked frames in neither, and fifo_size    *)
(* and lru_size count exactly the COLD and HOT entries. Victim decrements *)
(* a counter before its scan and relies on this to find a victim: the     *)
(* assert(false) after the loop (2Q_replacer.cc:41) is never reached.     *)
(* HOT_PINNED is placed in lru_list as the code keeps it (Pin leaves the  *)
(* node in place, Unpin splices it out of lru_list at line 88); the       *)
(* comment on the enum (2Q_replacer.h:80) says "in fifo list".            *)
ListsMatchTable ==
    /\ IsInjective(fifo) /\ IsInjective(lru)
    /\ ToSet(fifo) = With({"COLD", "COLD_PINNED"})
    /\ ToSet(lru) = With({"HOT", "HOT_PINNED"})
    /\ fifoSize = Cardinality(With({"COLD"}))
    /\ lruSize = Cardinality(With({"HOT"}))
    /\ failed # "NoVictim"

(* The replacer, placeholders and counters hidden, is the 2Q policy of     *)
(* TwoQ: Victim takes the oldest evictable cold frame, else the least      *)
(* recently unpinned hot one; Pin makes a frame unevictable; Unpin of a    *)
(* new frame queues it cold, of a tracked one makes it the hottest.        *)
TQ == INSTANCE TwoQ WITH
          cold <- SelectSeq(fifo, LAMBDA f : ht[f] = "COLD"),
          hot  <- SelectSeq(lru, LAMBDA f : ht[f] = "HOT"),
          held <- With({"COLD_PINNED", "HOT_PINNED"})

TwoQSpec == TQ!Spec
=============================================================================
