---------------------------- MODULE ExternalSort ----------------------------
(***************************************************************************)
(* external_sort of task-external-sort (src/external_sort.cc): runs of     *)
(* mem_size bytes sorted in memory and written to a temporary file, then,  *)
(* when mem_size cannot hold one buffer per run plus an output buffer,     *)
(* 2-way passes (not_full_way_merge) until at most two runs are left, and  *)
(* a k-way merge through a priority queue into the output file.            *)
(*                                                                         *)
(* Sizes are counted in 8-byte values: every size the code computes is a   *)
(* multiple of VALUE_SIZE, and (mem_size / d) / 8 = (mem_size / 8) / d for  *)
(* the nested divisions it does, so m = mem_size / 8 and the value counts  *)
(* below are exactly the code's byte counts divided by 8.  A file is the  *)
(* sequence of its values; a read stops at the end of the file and leaves  *)
(* the rest of the buffer as it was, as PosixFile::read_block does.        *)
(***************************************************************************)
EXTENDS Naturals, Sequences, SequencesExt, FiniteSets, Bags

CONSTANTS
    Vals,    \* the values in the input file (uint64_t)
    Calls    \* the calls: pairs <<mem_size / 8, input values>>

-----------------------------------------------------------------------------
(* A file resized to len values: zero-filled.                              *)
Zeros(len) == [i \in 1 .. len |-> 0]
(* Memory from std::make_unique<char[]>(len): zero-initialised, 0-based.   *)
Memory(len) == [j \in 0 .. len - 1 |-> 0]

(* File::read_block(offset, len): the values up to the end of the file.   *)
ReadBlock(f, off, len) ==
    SubSeq(f, off + 1, IF off + len < Len(f) THEN off + len ELSE Len(f))

(* File::write_block(s, offset, Len(s)); a write past the end extends it. *)
WriteBlock(f, off, s) ==
    [i \in 1 .. IF off + Len(s) > Len(f) THEN off + Len(s) ELSE Len(f) |->
        IF off < i /\ i <= off + Len(s) THEN s[i - off] ELSE f[i]]

(* A read into buffer b overwrites its first Len(s) values.               *)
LoadInto(b, s) == [j \in DOMAIN b |-> IF j < Len(s) THEN s[j + 1] ELSE b[j]]

(* The first c values of memory b, as written by write_block.             *)
Prefix(b, c) == [i \in 1 .. c |-> b[i - 1]]

(* std::sort of uint64_t values.                                           *)
Sorted(s) == SortSeq(s, <)

-----------------------------------------------------------------------------
VARIABLES
    m, n, input,   \* mem_size / 8, num_values, the input file
    phase,         \* where external_sort is
    out,           \* the output file
    tmp,           \* the temporary file holding the runs
    inter,         \* not_full_way_merge's intermediate_file
    k, rs, ls,     \* NUM_RUNS, RUN_SIZE, LAST_RUN_SIZE (also NUM_VALUES_RUN, ..._LAST_RUN)
    ri,            \* the run the sorting loop is at
    npass, it, adj, \* num_iterations_in_pass, it, odd_run_num_adjustment
    buf,           \* input buffers: run index -> buffer memory
    push, rd, rem, \* next_push_index_input_buffer, next_read_offset_run, remaining_num_values_run
    pq,            \* the heads: the priority queue, or inputs_compare, as <<value, run>>
    omem, ocnt,    \* the output buffer and output_buffer_current_num_values
    nfw            \* num_full_writes

vars == <<m, n, input, phase, out, tmp, inter, k, rs, ls, ri, npass, it, adj,
          buf, push, rd, rem, pq, omem, ocnt, nfw>>

Init ==
    /\ \E c \in Calls : m = c[1] /\ input = c[2] /\ n = Len(c[2])
    /\ phase = "start"
    /\ out = <<>> /\ tmp = <<>> /\ inter = <<>>
    /\ k = 0 /\ rs = 0 /\ ls = 0 /\ ri = 0
    /\ npass = 0 /\ it = 0 /\ adj = 0
    /\ buf = <<>> /\ push = <<>> /\ rd = <<>> /\ rem = <<>>
    /\ pq = {} /\ omem = <<>> /\ ocnt = 0 /\ nfw = 0

MergeVars == <<buf, push, rd, rem, pq, omem, ocnt, nfw>>
PassVars  == <<npass, it, adj, inter>>

(* Merge state before the merge memory is allocated, and after it is freed. *)
NoMerge ==
    /\ buf' = <<>> /\ push' = <<>> /\ rd' = <<>> /\ rem' = <<>>
    /\ pq' = {} /\ omem' = <<>> /\ ocnt' = 0 /\ nfw' = 0

-----------------------------------------------------------------------------
(* external_sort, 1.1: the output is resized to num_values; nothing to do. *)
NoValues ==
    /\ phase = "start" /\ n = 0
    /\ out' = Zeros(n)
    /\ phase' = "done"
    /\ UNCHANGED <<m, n, input, tmp, inter, k, rs, ls, ri, npass, it, adj, MergeVars>>

(* 1.2, inmemory_sort: the input fits into mem_size.                       *)
InMemorySort ==
    /\ phase = "start" /\ 0 < n /\ n <= m
    /\ out' = WriteBlock(Zeros(n), 0, Sorted(ReadBlock(input, 0, n)))
    /\ phase' = "done"
    /\ UNCHANGED <<m, n, input, tmp, inter, k, rs, ls, ri, npass, it, adj, MergeVars>>

(* 2.1-2.2: the run layout and the temporary file.                         *)
InitRuns ==
    /\ phase = "start" /\ n > m
    /\ out' = Zeros(n)
    /\ LET nr == (n - 1) \div m + 1 IN
          /\ k' = nr
          /\ rs' = m
          /\ ls' = IF n = nr * m THEN m ELSE n - (nr - 1) * m
    /\ tmp' = Zeros(n)
    /\ ri' = 0
    /\ phase' = "runs"
    /\ UNCHANGED <<m, n, input, inter, npass, it, adj, MergeVars>>

(* 2.3: read run ri, sort it in memory, write it to the temporary file.   *)
(* The last run has LAST_RUN_SIZE values.                                  *)
SortRun ==
    /\ phase = "runs"
    /\ LET len == IF ri = k - 1 THEN ls ELSE rs IN
          tmp' = WriteBlock(tmp, ri * rs, Sorted(ReadBlock(input, ri * rs, len)))
    /\ ri' = ri + 1
    /\ phase' = IF ri = k - 1 THEN "merge" ELSE "runs"
    /\ UNCHANGED <<m, n, input, out, inter, k, rs, ls, npass, it, adj, MergeVars>>

(* 3: without room for one value per run and one for the output, 2-way     *)
(* passes first (assert(mem_size / 8 >= 3) holds for every call in Calls).    *)
ChooseMerge ==
    /\ phase = "merge"
    /\ phase' = IF m \div (k + 1) = 0 THEN "pass" ELSE "kwayinit"
    /\ UNCHANGED <<m, n, input, out, tmp, inter, k, rs, ls, ri, npass, it, adj, MergeVars>>

-----------------------------------------------------------------------------
(* not_full_way_merge: buffers of mem_size / 3 for each of the two runs.    *)
PassIB == m \div 3
PassOB == m - 2 * PassIB

(* while (NUM_RUNS > FAN_IN): a pass of NUM_RUNS / 2 iterations.            *)
PassBegin ==
    /\ phase = "pass" /\ k > 2
    /\ npass' = k \div 2
    /\ it' = 0
    /\ phase' = "iterinit"
    /\ UNCHANGED <<m, n, input, out, tmp, inter, k, rs, ls, ri, adj, MergeVars>>

PassesDone ==
    /\ phase = "pass" /\ k <= 2
    /\ phase' = "kwayinit"
    /\ UNCHANGED <<m, n, input, out, tmp, inter, k, rs, ls, ri, npass, it, adj, MergeVars>>

(* The last iteration of a pass merges the last run; with an odd number of *)
(* runs it first merges the two runs after run 2 * it (the adjustment).     *)
LastIteration == it = npass - 1
RunLen2(i) == IF LastIteration /\ i = 1 THEN ls ELSE rs
(* Mutant: the reload offset without odd_run_num_adjustment.              *)
RunBase2NoAdjust(i) == rs * i + rs * 2 * it

(* The offset of input i in the temporary file, as the reads compute it.   *)
RunBase2(i) == rs * i + rs * 2 * it + adj

(* One iteration's set-up: bookkeeping, the intermediate file, the first   *)
(* load of both input buffers, and inputs_compare at their first values.    *)
IterInit ==
    /\ phase = "iterinit" /\ it < npass
    /\ LET a    == IF LastIteration /\ k % 2 # 0 THEN rs ELSE 0
           base == rs * 2 * it + a
           b    == [i \in 0 .. 1 |->
                      LoadInto(Memory(PassIB), ReadBlock(tmp, base + i * rs, PassIB))]
       IN /\ adj' = a
          /\ buf' = b
          /\ pq' = {<<b[i][0], i>> : i \in 0 .. 1}
    /\ rd' = [i \in 0 .. 1 |-> PassIB]
    /\ push' = [i \in 0 .. 1 |-> 1]
    /\ rem' = [i \in 0 .. 1 |-> RunLen2(i)]
    /\ inter' = Zeros(IF LastIteration THEN rs + ls ELSE 2 * rs)
    /\ omem' = Memory(PassOB) /\ ocnt' = 0 /\ nfw' = 0
    /\ phase' = "iter"
    /\ UNCHANGED <<m, n, input, out, tmp, k, rs, ls, ri, npass, it>>

PassEnd ==
    /\ phase = "iterinit" /\ it = npass
    /\ k' = k \div 2
    /\ ls' = ls + rs
    /\ rs' = 2 * rs
    /\ phase' = "pass"
    /\ UNCHANGED <<m, n, input, out, tmp, inter, ri, npass, it, adj, MergeVars>>
-----------------------------------------------------------------------------
(* Mutant: the output buffer is written out only once it has overflowed.   *)
OutputFullLate(c, ob) == c > ob

(* The output buffer is full: it is written out.                          *)
OutputFull(c, ob) == c = ob

(* One turn of either merge loop, after value v of input x was taken:      *)
(* the value goes to the output buffer, which is written to file f at      *)
(* num_full_writes * OUT when full; the run's remaining count drops, and  *)
(* unless the run is done its next value becomes the head, after the      *)
(* input buffer is reloaded from offset base + next_read_offset when used  *)
(* up (the last load is short when the run's rest is shorter than a       *)
(* buffer).                                                                *)
MergeStep(f, x, v, ib, ob, runLen, base) ==
    LET om    == [omem EXCEPT ![ocnt] = v]
        full  == OutputFull(ocnt + 1, ob)
        r     == rem[x] - 1
        load  == push[x] = ib
        size  == IF rd[x] + ib >= runLen THEN runLen - rd[x] ELSE ib
        b     == IF load THEN LoadInto(buf[x], ReadBlock(tmp, base + rd[x], size))
                         ELSE buf[x]
        p     == IF load THEN 0 ELSE push[x]
    IN /\ omem' = om
       /\ ocnt' = IF full THEN 0 ELSE ocnt + 1
       /\ f' = IF full THEN WriteBlock(f, nfw * ob, Prefix(om, ob)) ELSE f
       /\ nfw' = IF full THEN nfw + 1 ELSE nfw
       /\ rem' = [rem EXCEPT ![x] = r]
       /\ IF r = 0
            THEN /\ pq' = pq \ {<<v, x>>}
                 /\ UNCHANGED <<buf, push, rd>>
            ELSE /\ buf' = [buf EXCEPT ![x] = b]
                 /\ rd' = IF load THEN [rd EXCEPT ![x] = rd[x] + size] ELSE rd
                 /\ push' = [push EXCEPT ![x] = p + 1]
                 /\ pq' = (pq \ {<<v, x>>}) \cup {<<b[p], x>>}

(* inputs_compare: the head of input i, if it has one.                     *)
HasHead(i) == \E e \in pq : e[2] = i
HeadOf(i)  == CHOOSE e \in pq : e[2] = i

(* The 2-way loop: the smaller head, input 1 on a tie or when 0 is done.   *)
IterStep ==
    /\ phase = "iter" /\ pq # {}
    /\ LET x == IF ~HasHead(0) THEN 1
                ELSE IF ~HasHead(1) THEN 0
                ELSE IF HeadOf(0)[1] < HeadOf(1)[1] THEN 0 ELSE 1
       IN MergeStep(inter, x, HeadOf(x)[1], PassIB, PassOB, RunLen2(x), RunBase2(x))
    /\ UNCHANGED <<m, n, input, phase, out, tmp, k, rs, ls, ri, npass, it, adj>>

(* Both inputs done: the rest of the output buffer goes to the intermediate *)
(* file, which is copied over the two runs in the temporary file; with an   *)
(* odd number of runs the pass now has one run less and the iteration is   *)
(* repeated (it-- and it++; it = 0 wraps around and back).                 *)
IterEnd ==
    /\ phase = "iter" /\ pq = {}
    /\ LET size  == Len(inter)
           nfull == size \div PassOB
           i1    == IF size > PassOB * nfull
                      THEN WriteBlock(inter, nfw * PassOB, Prefix(omem, size - PassOB * nfull))
                      ELSE inter
           odd   == LastIteration /\ k % 2 # 0
       IN /\ tmp' = WriteBlock(tmp, rs * 2 * it + adj, i1)
          /\ k' = IF odd THEN k - 1 ELSE k
          /\ ls' = IF odd THEN ls + rs ELSE ls
          /\ it' = IF odd THEN it ELSE it + 1
    /\ inter' = <<>>
    /\ NoMerge
    /\ phase' = "iterinit"
    /\ UNCHANGED <<m, n, input, out, rs, ri, npass, adj>>

-----------------------------------------------------------------------------
(* 4: the k-way merge of all NUM_RUNS runs; mem_size in K + 1 parts.       *)
KWayIB == m \div (k + 1)
KWayOB == m - k * KWayIB
KRunLen(i) == IF i = k - 1 THEN ls ELSE rs

(* 4.1: bookkeeping, the first load of every input buffer, the queue.      *)
KWayInit ==
    /\ phase = "kwayinit"
    /\ LET b == [i \in 0 .. k - 1 |->
                   LoadInto(Memory(KWayIB), ReadBlock(tmp, i * rs, KWayIB))]
       IN /\ buf' = b
          /\ pq' = {<<b[i][0], i>> : i \in 0 .. k - 1}
    /\ rd' = [i \in 0 .. k - 1 |-> KWayIB]
    /\ push' = [i \in 0 .. k - 1 |-> 1]
    /\ rem' = [i \in 0 .. k - 1 |-> KRunLen(i)]
    /\ omem' = Memory(KWayOB) /\ ocnt' = 0 /\ nfw' = 0
    /\ phase' = "kway"
    /\ UNCHANGED <<m, n, input, out, tmp, inter, k, rs, ls, ri, PassVars>>

(* 4.2: pop the least <<value, run>> pair (std::greater on std::pair).     *)
PairLess(e, g) == e[1] < g[1] \/ (e[1] = g[1] /\ e[2] < g[2])

KWayStep ==
    /\ phase = "kway" /\ pq # {}
    /\ LET top == CHOOSE e \in pq : \A g \in pq \ {e} : PairLess(e, g)
       IN MergeStep(out, top[2], top[1], KWayIB, KWayOB, KRunLen(top[2]), rs * top[2])
    /\ UNCHANGED <<m, n, input, phase, tmp, inter, k, rs, ls, ri, npass, it, adj>>

(* Mutant: the partly filled output buffer is never written out.           *)
KWayEndNoFlush ==
    /\ phase = "kway" /\ pq = {}
    /\ phase' = "done"
    /\ UNCHANGED <<m, n, input, out, tmp, inter, k, rs, ls, ri, PassVars, MergeVars>>

(* 4.2.9: the queue is empty; the rest of the output buffer is written.    *)
KWayEnd ==
    /\ phase = "kway" /\ pq = {}
    /\ LET nfull == n \div KWayOB IN
          out' = IF n > KWayOB * nfull
                   THEN WriteBlock(out, nfw * KWayOB, Prefix(omem, n - KWayOB * nfull))
                   ELSE out
    /\ phase' = "done"
    /\ UNCHANGED <<m, n, input, tmp, inter, k, rs, ls, ri, PassVars, MergeVars>>

(* external_sort has returned.                                             *)
Returned == phase = "done" /\ UNCHANGED vars

Next ==
    \/ NoValues \/ InMemorySort \/ InitRuns \/ SortRun \/ ChooseMerge
    \/ PassBegin \/ PassesDone \/ IterInit \/ IterStep \/ IterEnd \/ PassEnd
    \/ KWayInit \/ KWayStep \/ KWayEnd
    \/ Returned

Spec == Init /\ [][Next]_vars
-----------------------------------------------------------------------------
(* Every variable has the shape the code gives it; the output buffer holds *)
(* fewer values than it has room for (it is written out when full).       *)
TypeOK ==
    /\ phase \in {"start", "runs", "merge", "pass", "iterinit", "iter",
                  "kwayinit", "kway", "done"}
    /\ m \in Nat /\ n \in Nat /\ k \in Nat /\ rs \in Nat /\ ls \in Nat
    /\ ri \in Nat /\ npass \in Nat /\ it \in Nat /\ adj \in Nat /\ nfw \in Nat
    /\ \A s \in {input, out, tmp, inter} : s \in Seq(Vals \cup {0})
    /\ pq \subseteq (Vals \cup {0}) \X Nat
    /\ phase \in {"iter", "kway"} =>
          /\ ocnt \in 0 .. Cardinality(DOMAIN omem) - 1
          /\ \A i \in DOMAIN rem : rem[i] \in Nat

(* Run i of the temporary file under the current layout.                  *)
RunOf(i) == SubSeq(tmp, i * rs + 1, i * rs + IF i = k - 1 THEN ls ELSE rs)

Segment(i) ==
    IF phase = "iter"
    THEN SubSeq(tmp, 2 * rs * it + adj + i * rs + 1,
                     2 * rs * it + adj + i * rs + IF it = npass - 1 /\ i = 1 THEN ls ELSE rs)
    ELSE RunOf(i)

Taken(i) == SubSeq(Segment(i), 1, Len(Segment(i)) - rem[i])

Emitted ==
    LET ob == Cardinality(DOMAIN omem)
        f  == IF phase = "iter" THEN inter ELSE out
    IN SubSeq(f, 1, nfw * ob) \o Prefix(omem, ocnt)

(* The merge invariant of both merge loops.  Input i is the segment of the *)
(* temporary file its run occupies; the values taken from it so far are    *)
(* its first (length - remaining) values.  What the loop has emitted (the  *)
(* full output-buffer writes in the target file, then the buffered values) *)
(* is exactly those values of all inputs, in sorted order, and the heads   *)
(* are the next value of every input with values left.  It fails when a    *)
(* reload reads from the wrong offset, a head is dropped or repeated, or   *)
(* the output goes to the wrong place in the file.                         *)
MergeProgress ==
    phase \in {"iter", "kway"} =>
        LET F == DOMAIN rem IN
        /\ \A i \in F : rem[i] <= Len(Segment(i))
        /\ Emitted = Sorted(FlattenSeq([j \in 1 .. Cardinality(F) |-> Taken(j - 1)]))
        /\ pq = {<<Segment(i)[Len(Taken(i)) + 1], i>> : i \in {j \in F : rem[j] > 0}}
        /\ \A e \in pq : Emitted = <<>> \/ Last(Emitted) <= e[1]

(* When external_sort returns, the output file holds the num_values input  *)
(* values in ascending order: the test's std::is_sorted and the            *)
(* multiset comparison against the input.                                  *)
SortsInput ==
    phase = "done" => out = Sorted(input)
====
