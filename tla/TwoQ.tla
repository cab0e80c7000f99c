-------------------------------- MODULE TwoQ --------------------------------
(***************************************************************************)
(* What the 2Q replacer of task-slotted-pages promises its buffer manager  *)
(* (replacer.h, 2Q_replacer.h): frames unpinned once wait in a cold FIFO   *)
(* queue, frames unpinned again move to the front of a hot LRU queue, a    *)
(* pinned frame cannot be victimized until it is unpinned, and a victim is *)
(* the oldest cold frame, or the least recently unpinned hot frame when no *)
(* frame is cold. The queues hold no placeholders and no counters.         *)
(***************************************************************************)
EXTENDS Sequences, SequencesExt

CONSTANT Frames

VARIABLES
    cold,   \* evictable cold frames, newest first
    hot,    \* evictable hot frames, most recently unpinned first
    held    \* frames the replacer tracks while they are pinned

vars == <<cold, hot, held>>

Tracked == ToSet(cold) \cup ToSet(hot) \cup held

Init == cold = <<>> /\ hot = <<>> /\ held = {}

(* The oldest cold frame leaves; with no cold frame, the least recently   *)
(* unpinned hot one. With neither, Victim returns false and nothing moves. *)
Victim ==
    \/ /\ cold # <<>>
       /\ cold' = Front(cold)
       /\ UNCHANGED <<hot, held>>
    \/ /\ cold = <<>> /\ hot # <<>>
       /\ hot' = Front(hot)
       /\ UNCHANGED <<cold, held>>

(* A pinned frame stops being evictable; an untracked or held one is left *)
(* as it is.                                                               *)
Pin(f) ==
    \/ /\ f \in ToSet(cold)
       /\ cold' = Remove(cold, f) /\ held' = held \cup {f}
       /\ UNCHANGED hot
    \/ /\ f \in ToSet(hot)
       /\ hot' = Remove(hot, f) /\ held' = held \cup {f}
       /\ UNCHANGED cold
    \/ /\ f \notin ToSet(cold) \cup ToSet(hot)
       /\ UNCHANGED vars

(* An untracked frame enters the cold queue; a tracked one, cold, hot or  *)
(* held, goes to the front of the hot queue.                               *)
Unpin(f) ==
    \/ /\ f \notin Tracked
       /\ cold' = <<f>> \o cold
       /\ UNCHANGED <<hot, held>>
    \/ /\ f \in Tracked
       /\ cold' = Remove(cold, f)
       /\ hot' = <<f>> \o Remove(hot, f)
       /\ held' = held \ {f}

Next == Victim \/ \E f \in Frames : Pin(f) \/ Unpin(f)

Spec == Init /\ [][Next]_vars
=============================================================================
