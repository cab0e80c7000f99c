----------------------------- MODULE Operators -----------------------------
(***************************************************************************)
(* The iterator-model operators of task-operators                          *)
(* (src/task-operators/src/algebra.cc, include/moderndbs/algebra.h),       *)
(* each run the way the tests run it: a Print on top pulls the operator    *)
(* with next() until it returns false, over TestTupleSource inputs.        *)
(*                                                                         *)
(* A register is an integer; a tuple is a sequence of two of them.  Every  *)
(* call of next() is one step: it runs its loops over the inputs to the   *)
(* point where it returns, as the code does within one call.  The hash    *)
(* tables are kept as what they hold (counts per tuple, groups and their   *)
(* aggregates); the order in which an unordered_map is iterated is left   *)
(* open, so every order is a behaviour.                                    *)
(***************************************************************************)
EXTENDS Naturals, Sequences, SequencesExt, FiniteSets, Bags

CONSTANTS
    Vals,      \* the integers the registers of the inputs hold
    MaxLeft,   \* bound on the tuples of the (left) input
    MaxRight,  \* bound on the tuples of the right input
    Ops,       \* the operators the client may build
    Projs      \* the attr_indexes lists Projection may be built with

(* A tuple of the test relations: two INT64 registers.                     *)
Rows == [1 .. 2 -> Vals]

(* Register comparison (operator==, <, >, ...) on INT64 registers.       *)
Compare(x, type, y) ==
    CASE type = "EQ" -> x = y
      [] type = "NE" -> x # y
      [] type = "LT" -> x < y
      [] type = "LE" -> x <= y
      [] type = "GT" -> x > y
      [] type = "GE" -> x >= y

(* Select's predicates: tuple[attr] P constant, or tuple[attr] P          *)
(* tuple[rattr] (PredicateAttributeInt64 and PredicateAttributeAttribute). *)
PredicateTypes == {"EQ", "NE", "LT", "LE", "GT", "GE"}
Predicates ==
    [attr: {1}, type: PredicateTypes, rconst: {TRUE}, c: Vals, rattr: {2}]
    \cup [attr: {1}, type: PredicateTypes, rconst: {FALSE}, c: {0}, rattr: {2}]
Holds(p, t) == Compare(t[p.attr], p.type, IF p.rconst THEN p.c ELSE t[p.rattr])

(* Sort::Criterion lists over distinct attributes.                          *)
Criteria ==
    {<<c>> : c \in [attr: {1, 2}, desc: BOOLEAN]}
    \cup {<<c, d>> : c \in [attr: {1}, desc: BOOLEAN], d \in [attr: {2}, desc: BOOLEAN]}
    \cup {<<c, d>> : c \in [attr: {2}, desc: BOOLEAN], d \in [attr: {1}, desc: BOOLEAN]}

(* The comparator of one std::stable_sort pass.                            *)
Before(a, b, c) == IF c.desc THEN a[c.attr] > b[c.attr] ELSE a[c.attr] < b[c.attr]

(* std::stable_sort by one criterion, as an insertion sort that puts each  *)
(* tuple behind every tuple it does not sort before.                       *)
RECURSIVE InsertStable(_, _, _)
InsertStable(s, t, c) ==
    IF s = <<>> THEN <<t>>
    ELSE IF Before(t, Head(s), c) THEN <<t>> \o s
    ELSE <<Head(s)>> \o InsertStable(Tail(s), t, c)
StableSort(s, c) == FoldLeft(LAMBDA acc, t : InsertStable(acc, t, c), <<>>, s)

(* Fault variant: the passes run first criterion first, so the last    *)
(* criterion ends up the most important.                                   *)
SortByForward(crit, s) == FoldLeft(LAMBDA acc, c : StableSort(acc, c), s, crit)

(* Sort::next: one stable pass per criterion, the last criterion first.   *)
SortBy(crit, s) == FoldLeft(LAMBDA acc, c : StableSort(acc, c), s, Reverse(crit))

(* HashAggregation's group key and aggregates: group by gb, and           *)
(* MIN, MAX, SUM and COUNT of attribute 2.                                 *)
GroupBys == {<<>>, <<1>>}
GroupKey(gb, t) == [i \in 1 .. Len(gb) |-> t[gb[i]]]
(* The first tuple of a group initialises MIN and MAX with its value and  *)
(* SUM and COUNT with 0; then every tuple updates all four.                *)
AggInit(t) == [min |-> t[2], max |-> t[2], sum |-> 0, count |-> 0]
AggUpdate(a, t) ==
    [min |-> IF t[2] < a.min THEN t[2] ELSE a.min,
     max |-> IF t[2] > a.max THEN t[2] ELSE a.max,
     sum |-> a.sum + t[2], count |-> a.count + 1]
AggStep(gb, ht, t) ==
    LET g == GroupKey(gb, t) IN
    IF g \in DOMAIN ht THEN [ht EXCEPT ![g] = AggUpdate(@, t)]
    ELSE (g :> AggUpdate(AggInit(t), t)) @@ ht
AggBuild(gb, ht, s) == FoldLeft(LAMBDA h, t : AggStep(gb, h, t), ht, s)
AggRow(g, a) == g \o <<a.min, a.max, a.sum, a.count>>

(* The counts of a tuple in an input.                                      *)
CountIn(s, t) == Cardinality({i \in 1 .. Len(s) : s[i] = t})

(* The first index after c whose tuple is in Good, or 0.                   *)
FirstAfter(s, c, Good) == SelectInSubSeq(s, c + 1, Len(s), LAMBDA t : t \in Good)

-----------------------------------------------------------------------------
(* Reference results: what each operator's comment in algebra.h says it   *)
(* computes, over the bag of input tuples.                                 *)
RECURSIVE KeyLess(_, _, _)
KeyLess(a, b, crit) ==
    /\ crit # <<>>
    /\ \/ Before(a, b, Head(crit))
       \/ a[Head(crit).attr] = b[Head(crit).attr] /\ KeyLess(a, b, Tail(crit))

(* Sorted by the criteria, the first most important; equal keys keep the *)
(* input order.                                                            *)
RefSort(s, crit) ==
    LET n == Len(s)
        InOrder(p) == \A i, j \in 1 .. n :
            i < j => \/ KeyLess(s[p[i]], s[p[j]], crit)
                     \/ ~KeyLess(s[p[j]], s[p[i]], crit) /\ p[i] < p[j]
        p == CHOOSE p \in [1 .. n -> 1 .. n] : IsInjective(p) /\ InOrder(p)
    IN  [i \in 1 .. n |-> s[p[i]]]

(* The inner equi-join, one row per pair of matching tuples.              *)
RefJoin(l, r, al, ar) ==
    LET Pairs == {ij \in (1 .. Len(l)) \X (1 .. Len(r)) : l[ij[1]][al] = r[ij[2]][ar]}
        Rows2 == {l[ij[1]] \o r[ij[2]] : ij \in Pairs}
    IN  [row \in Rows2 |-> Cardinality({ij \in Pairs : l[ij[1]] \o r[ij[2]] = row})]

(* One row per group: its key, and the MIN, MAX, SUM and COUNT of its     *)
(* tuples' attribute 2.                                                    *)
RefAggregate(l, gb) ==
    LET Groups == {GroupKey(gb, l[i]) : i \in 1 .. Len(l)}
        Of(g) == {i \in 1 .. Len(l) : GroupKey(gb, l[i]) = g}
        Row(g) == g \o <<Min({l[i][2] : i \in Of(g)}), Max({l[i][2] : i \in Of(g)}),
                         MapThenSumSet(LAMBDA i : l[i][2], Of(g)), Cardinality(Of(g))>>
    IN  SetToBag({Row(g) : g \in Groups})

RefResult(plan, l, r) ==
    CASE plan.op = "Select"       -> ToBag(SelectSeq(l, LAMBDA t : Holds(plan.pred, t)))
      [] plan.op = "Projection"   -> ToBag([i \in 1 .. Len(l) |->
                                            [j \in 1 .. Len(plan.proj) |-> l[i][plan.proj[j]]]])
      [] plan.op = "Sort"         -> ToBag(l)
      [] plan.op = "HashJoin"     -> RefJoin(l, r, plan.al, plan.ar)
      [] plan.op = "HashAggregation" -> RefAggregate(l, plan.gb)
      [] plan.op = "Union"        -> SetToBag(ToSet(l) \cup ToSet(r))
      [] plan.op = "UnionAll"     -> ToBag(l) (+) ToBag(r)
      [] plan.op = "Intersect"    -> SetToBag(ToSet(l) \cap ToSet(r))
      [] plan.op = "IntersectAll" -> [t \in ToSet(l) \cap ToSet(r) |->
                                        IF CountIn(l, t) < CountIn(r, t) THEN CountIn(l, t)
                                        ELSE CountIn(r, t)]
      [] plan.op = "Except"       -> SetToBag(ToSet(l) \ ToSet(r))
      [] plan.op = "ExceptAll"    -> ToBag(l) (-) ToBag(r)
-----------------------------------------------------------------------------
(* end() of an iterator: no tuple of two registers. *)
NoRow == <<>>

(* The operators a client can construct, with the constructor arguments  *)
(* each takes; the fields an operator does not take hold a fixed value.    *)
Plans ==
    LET P(op, pred, crit, gb, proj, al, ar) ==
            [op |-> op, pred |-> pred, crit |-> crit, gb |-> gb, proj |-> proj, al |-> al, ar |-> ar]
        p0 == CHOOSE p \in Predicates : TRUE
    IN  {P("Select", p, <<>>, <<>>, <<>>, 1, 1) : p \in Predicates}
        \cup {P("Projection", p0, <<>>, <<>>, pr, 1, 1) : pr \in Projs}
        \cup {P("Sort", p0, c, <<>>, <<>>, 1, 1) : c \in Criteria}
        \cup {P("HashJoin", p0, <<>>, <<>>, <<>>, a, b) : a, b \in {1, 2}}
        \cup {P("HashAggregation", p0, <<>>, g, <<>>, 1, 1) : g \in GroupBys}
        \cup {P(o, p0, <<>>, <<>>, <<>>, 1, 1) :
                o \in {"Union", "UnionAll", "Intersect", "IntersectAll", "Except", "ExceptAll"}}

(* The BinaryOperators: they read a right input as well.                   *)
Binary == {"HashJoin", "Union", "UnionAll", "Intersect", "IntersectAll", "Except", "ExceptAll"}

VARIABLES
    plan,     \* the operator the client built, with its arguments
    left,     \* the tuples of the (left) TestTupleSource
    right,    \* the tuples of the right TestTupleSource (<<>> for a unary operator)
    lc, rc,   \* current_index of the two sources
    pc,       \* the driver: "created", "open", "exhausted" (next gave false), "closed"
    out,      \* the tuples Print has printed, in order
    seen,     \* seen_input / ht_build of the operator
    ht,       \* the hash table: count per tuple (0 = absent or zero)
    agg,      \* HashAggregation's ht: group key -> aggregates
    visited,  \* the groups HashAggregation's output_iterator has passed
    sorted,   \* Sort::sorted
    off,      \* Sort::next_output_offset
    cur       \* Except's current_output_it (NoRow = end)

vars == <<plan, left, right, lc, rc, pc, out, seen, ht, agg, visited, sorted, off, cur>>

EmptyHt == [t \in Rows |-> 0]

Init ==
    /\ plan \in {p \in Plans : p.op \in Ops}
    /\ left \in BoundedSeq(Rows, MaxLeft)
    /\ right \in IF plan.op \in Binary THEN BoundedSeq(Rows, MaxRight) ELSE {<<>>}
    /\ lc = 0 /\ rc = 0
    /\ pc = "created"
    /\ out = <<>>
    /\ seen = FALSE
    /\ ht = EmptyHt
    /\ agg = <<>>
    /\ visited = {}
    /\ sorted = <<>>
    /\ off = 0
    /\ cur = NoRow

(* Print::open opens the operator, which opens its inputs.                 *)
Open ==
    /\ pc = "created"
    /\ pc' = "open"
    /\ UNCHANGED <<plan, left, right, lc, rc, out, seen, ht, agg, visited, sorted, off, cur>>

(* One Print::next: the operator's next() returned true with tuple t and   *)
(* Print printed it, or returned false and the driver's loop ends.         *)
Emit(t) == out' = Append(out, t) /\ pc' = pc
Done == out' = out /\ pc' = "exhausted"
Busy == pc = "open"

(* The tuples of s after cursor c: what a loop over a source's next()     *)
(* still reads.                                                            *)
Rest(s, c) == SubSeq(s, c + 1, Len(s))

(* Select::next: read tuples until one satisfies the predicate.            *)
SelectNext ==
    LET i == FirstAfter(left, lc, {t \in Rows : Holds(plan.pred, t)}) IN
    /\ Busy /\ plan.op = "Select"
    /\ IF i > 0 THEN lc' = i /\ Emit(left[i]) ELSE lc' = Len(left) /\ Done
    /\ UNCHANGED <<plan, left, right, rc, seen, ht, agg, visited, sorted, off, cur>>

(* Projection::get_output: the i-th output register is src_regs[i].       *)
ProjectOut(proj, t) == [i \in 1 .. Len(proj) |-> t[i]]

(* Projection::next passes next() through; Print prints get_output().     *)
ProjectionNext ==
    /\ Busy /\ plan.op = "Projection"
    /\ IF lc < Len(left) THEN lc' = lc + 1 /\ Emit(ProjectOut(plan.proj, left[lc + 1]))
       ELSE lc' = lc /\ Done
    /\ UNCHANGED <<plan, left, right, rc, seen, ht, agg, visited, sorted, off, cur>>

(* Sort::next: while next_output_offset is 0, materialise the rest of the *)
(* input and sort; then return sorted[next_output_offset++] or false.      *)
SortNext ==
    LET s == IF off = 0 THEN SortBy(plan.crit, sorted \o Rest(left, lc)) ELSE sorted IN
    /\ Busy /\ plan.op = "Sort"
    /\ lc' = IF off = 0 THEN Len(left) ELSE lc
    /\ sorted' = s
    /\ IF off = Len(s) THEN off' = off /\ Done ELSE off' = off + 1 /\ Emit(s[off + 1])
    /\ UNCHANGED <<plan, left, right, rc, seen, ht, agg, visited, cur>>

(* Fault variant: every build loop does ++counter, Intersect and Except *)
(* included.                                                               *)
CountBuildIncrement(op, h, s) == [t \in Rows |-> h[t] + CountIn(s, t)]

(* The hash table after the build loop over the tuples s: counter = 1     *)
(* (Intersect, Except) or ++counter (IntersectAll, ExceptAll, and the     *)
(* entries of HashJoin's unordered_multimap).                              *)
CountBuild(op, h, s) ==
    IF op \in {"Intersect", "Except"}
    THEN [t \in Rows |-> IF CountIn(s, t) > 0 THEN 1 ELSE h[t]]
    ELSE [t \in Rows |-> h[t] + CountIn(s, t)]

(* HashJoin::next: ht_build is never set, so every call runs the build    *)
(* loop over input_left; then it probes with right tuples until ht.find   *)
(* finds an entry, and joins the probe tuple with that one entry.          *)
HashJoinNext ==
    LET h == CountBuild("HashJoin", ht, Rest(left, lc))
        Matches(r) == {t \in Rows : h[t] > 0 /\ t[plan.al] = r[plan.ar]}
        j == FirstAfter(right, rc, {r \in Rows : Matches(r) # {}})
    IN
    /\ Busy /\ plan.op = "HashJoin"
    /\ lc' = Len(left) /\ ht' = h
    /\ IF j > 0 THEN rc' = j /\ \E t \in Matches(right[j]) : Emit(t \o right[j])
       ELSE rc' = Len(right) /\ Done
    /\ UNCHANGED <<plan, left, right, seen, agg, visited, sorted, off, cur>>

(* HashAggregation::next: the first call builds ht and sets               *)
(* output_iterator = ht.begin(); later calls ++output_iterator.  The      *)
(* groups come out in the unordered_map's order, any order.               *)
HashAggNext ==
    LET a == IF seen THEN agg ELSE AggBuild(plan.gb, agg, Rest(left, lc)) IN
    /\ Busy /\ plan.op = "HashAggregation"
    /\ lc' = Len(left) /\ seen' = TRUE /\ agg' = a
    /\ \/ \E g \in DOMAIN a \ visited : visited' = visited \cup {g} /\ Emit(AggRow(g, a[g]))
       \/ DOMAIN a \subseteq visited /\ visited' = visited /\ Done
    /\ UNCHANGED <<plan, left, right, rc, ht, sorted, off, cur>>

(* Union::next with check_tuple: return the next left, then right, tuple  *)
(* that ht.insert newly inserts; seen_input once the left is exhausted.   *)
UnionNext ==
    LET New == {t \in Rows : ht[t] = 0}
        i == FirstAfter(left, lc, New)
        j == FirstAfter(right, rc, New)
    IN
    /\ Busy /\ plan.op = "Union"
    /\ \/ ~seen /\ i > 0
          /\ lc' = i /\ ht' = [ht EXCEPT ![left[i]] = 1] /\ Emit(left[i])
          /\ UNCHANGED <<seen, rc>>
       \/ (seen \/ i = 0) /\ j > 0
          /\ lc' = Len(left) /\ seen' = TRUE
          /\ rc' = j /\ ht' = [ht EXCEPT ![right[j]] = 1] /\ Emit(right[j])
       \/ (seen \/ i = 0) /\ j = 0
          /\ lc' = Len(left) /\ seen' = TRUE /\ rc' = Len(right) /\ ht' = ht /\ Done
    /\ UNCHANGED <<plan, left, right, agg, visited, sorted, off, cur>>

(* UnionAll::next: the next left tuple, then the next right tuple.         *)
UnionAllNext ==
    /\ Busy /\ plan.op = "UnionAll"
    /\ \/ ~seen /\ lc < Len(left) /\ lc' = lc + 1 /\ Emit(left[lc + 1]) /\ UNCHANGED <<seen, rc>>
       \/ (seen \/ lc = Len(left)) /\ seen' = TRUE /\ lc' = lc
          /\ IF rc < Len(right) THEN rc' = rc + 1 /\ Emit(right[rc + 1]) ELSE rc' = rc /\ Done
    /\ UNCHANGED <<plan, left, right, ht, agg, visited, sorted, off, cur>>

(* Intersect::next and IntersectAll::next: build the counters from the    *)
(* left input once, then return the next right tuple whose counter is     *)
(* positive, decrementing it.                                              *)
IntersectNext ==
    LET h == IF seen THEN ht ELSE CountBuild(plan.op, ht, Rest(left, lc))
        j == FirstAfter(right, rc, {t \in Rows : h[t] > 0})
    IN
    /\ Busy /\ plan.op \in {"Intersect", "IntersectAll"}
    /\ lc' = Len(left) /\ seen' = TRUE
    /\ IF j > 0 THEN rc' = j /\ ht' = [h EXCEPT ![right[j]] = @ - 1] /\ Emit(right[j])
       ELSE rc' = Len(right) /\ ht' = h /\ Done
    /\ UNCHANGED <<plan, left, right, agg, visited, sorted, off, cur>>

(* Fault variant: the probe does --ht[tuple], without find and without  *)
(* checking that the counter is positive.                                  *)
RECURSIVE ExceptProbeUnchecked(_, _)
ExceptProbeUnchecked(h, s) ==
    IF s = <<>> THEN h
    ELSE ExceptProbeUnchecked([h EXCEPT ![Head(s)] = @ - 1], Tail(s))

(* The probe loop of Except and ExceptAll: each right tuple decrements    *)
(* its counter when that is positive.                                      *)
RECURSIVE ExceptProbe(_, _)
ExceptProbe(h, s) ==
    IF s = <<>> THEN h
    ELSE ExceptProbe(IF h[Head(s)] > 0 THEN [h EXCEPT ![Head(s)] = @ - 1] ELSE h, Tail(s))

(* Fault variant: the output loop lacks ++current_output_it, so it spins  *)
(* on an entry whose counter has reached 0 and next() never returns.       *)
ExceptNextStuck ==
    LET h == IF seen THEN ht ELSE ExceptProbe(CountBuild(plan.op, ht, Rest(left, lc)), Rest(right, rc))
        c == IF seen THEN cur ELSE NoRow
        Live == {t \in Rows : h[t] > 0}
    IN
    /\ Busy /\ plan.op \in {"Except", "ExceptAll"}
    /\ lc' = Len(left) /\ rc' = Len(right) /\ seen' = TRUE
    /\ \/ \E k \in IF c \in Rows THEN {c} ELSE Live :
             h[k] > 0 /\ cur' = k /\ ht' = [h EXCEPT ![k] = @ - 1] /\ Emit(k)
       \/ Live = {} /\ c = NoRow /\ cur' = NoRow /\ ht' = h /\ Done
    /\ UNCHANGED <<plan, left, right, agg, visited, sorted, off>>

(* Except::next and ExceptAll::next: the first call builds the counters   *)
(* from the left and probes them with the whole right input; every call  *)
(* then walks current_output_it to an entry with a positive counter,      *)
(* staying on it, and returns it with the counter decremented.             *)
ExceptNext ==
    LET h == IF seen THEN ht ELSE ExceptProbe(CountBuild(plan.op, ht, Rest(left, lc)), Rest(right, rc))
        c == IF seen THEN cur ELSE NoRow
        Live == {t \in Rows : h[t] > 0}
    IN
    /\ Busy /\ plan.op \in {"Except", "ExceptAll"}
    /\ lc' = Len(left) /\ rc' = Len(right) /\ seen' = TRUE
    /\ \/ \E k \in IF c \in Live THEN {c} ELSE Live :
             cur' = k /\ ht' = [h EXCEPT ![k] = @ - 1] /\ Emit(k)
       \/ Live = {} /\ cur' = NoRow /\ ht' = h /\ Done
    /\ UNCHANGED <<plan, left, right, agg, visited, sorted, off>>

(* Print::close closes the operator: its close() closes the inputs and   *)
(* clears ht or sorted.  seen_input, the offsets and iterators are not    *)
(* reset.                                                                  *)
Close ==
    /\ pc = "exhausted"
    /\ pc' = "closed"
    /\ ht' = EmptyHt /\ agg' = <<>> /\ sorted' = <<>>
    /\ UNCHANGED <<plan, left, right, lc, rc, out, seen, visited, off, cur>>

Next ==
    \/ Open \/ SelectNext \/ ProjectionNext \/ SortNext \/ HashJoinNext \/ HashAggNext
    \/ UnionNext \/ UnionAllNext \/ IntersectNext \/ ExceptNext \/ Close

(* The test driver calls print.next() in a loop until it returns false,   *)
(* then close(): a single thread, so every enabled step is taken.          *)
Spec == Init /\ [][Next]_vars /\ WF_vars(Next)
-----------------------------------------------------------------------------
TypeOK ==
    /\ plan \in Plans
    /\ left \in Seq(Rows) /\ right \in Seq(Rows)
    /\ lc \in 0 .. Len(left) /\ rc \in 0 .. Len(right)
    /\ pc \in {"created", "open", "exhausted", "closed"}
    /\ seen \in BOOLEAN
    /\ ht \in [Rows -> 0 .. MaxLeft]
    /\ visited \subseteq DOMAIN agg \/ pc = "closed"
    /\ off \in 0 .. Len(left)
    /\ cur \in Rows \cup {NoRow}

(* Every tuple Print has printed so far, with its multiplicity, belongs  *)
(* to the operator's result: no next() call of any operator returns a    *)
(* tuple outside the relation its header comment promises, or returns a   *)
(* tuple more often than the relation has it.                              *)
NoSpuriousRow == ToBag(out) \sqsubseteq RefResult(plan, left, right)

(* Once next() has returned false, Print has printed exactly the result: *)
(* the promised bag of tuples, and for Sort the input stably sorted by    *)
(* the criteria, the first criterion most important.  (HashJoin's is      *)
(* JoinComplete.)                                                          *)
ResultMatches ==
    pc \in {"exhausted", "closed"} /\ plan.op # "HashJoin" =>
        IF plan.op = "Sort" THEN out = RefSort(left, plan.crit)
        ELSE ToBag(out) = RefResult(plan, left, right)

(* Once HashJoin::next has returned false, Print has printed one row for  *)
(* every pair of a left and a right tuple that agree on the join          *)
(* attributes: the inner equi-join algebra.h promises.                     *)
JoinComplete ==
    pc \in {"exhausted", "closed"} /\ plan.op = "HashJoin" =>
        ToBag(out) = RefJoin(left, right, plan.al, plan.ar)

(* The driver's loop ends: every operator's next() eventually returns     *)
(* false, and the plan is closed.                                          *)
Terminates == <>(pc = "closed")
====
