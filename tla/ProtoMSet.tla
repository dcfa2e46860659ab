----------------------------- MODULE ProtoMSet -----------------------------
(***************************************************************************)
(* The loop of Matcher::get_local_mset over the matching documents, and    *)
(* what it fills: a ProtoMSet keeps the best results so far, a Collapser   *)
(* at most collapse_max of them for each collapse key, and both keep what  *)
(* the bounds on the number of matches need.                               *)
(*                                                                         *)
(* The documents come in docid order, each with a weight w, a sort key     *)
(* val, a collapse key (0 when empty) and the number subqs of subqueries   *)
(* it matches.  Weights are even, so that half of one is an integer: the   *)
(* percentage threshold, where there is one, is 50.  A PostList may leave  *)
(* out a document below the minimum weight, or not: the loop ignores it.   *)
(***************************************************************************)
EXTENDS Integers, Sequences, FiniteSets, TLC, FiniteSetsExt, SequencesExt

CONSTANTS Settings,     \* what the Enquire object asks for
          Weight,       \* weights of documents
          Value,        \* sort keys
          Key,          \* collapse keys, 0 for none
          Subqs,        \* weighted leaf subqueries of the query
          MaxDocs       \* bound on the matching documents

Huge == 1000            \* HUGE_VAL

-----------------------------------------------------------------------------
(* common/heap.h on a sequence, in the order of a function: the element of *)
(* the highest rank is at the tip.                                         *)

RECURSIVE SiftDown(_, _, _)
SiftDown(h, rank, i) ==
    LET kids == {2 * i, 2 * i + 1} \cap DOMAIN h
        kid == CHOOSE k \in kids : \A j \in kids : rank[h[j]] <= rank[h[k]]
    IN  IF kids = {} THEN h
        ELSE IF rank[h[kid]] < rank[h[i]] THEN h
        ELSE SiftDown([h EXCEPT ![i] = h[kid], ![kid] = h[i]], rank, kid)

MakeHeap(h, rank) ==
    FoldLeft(LAMBDA s, i : SiftDown(s, rank, i), h, Reverse([i \in 1..Len(h) \div 2 |-> i]))

-----------------------------------------------------------------------------
(* msetcmp.cc.                                                             *)

\* What a sort_setting compares before the docid.
Compared == [DOCID |-> <<>>, REL |-> <<"w">>, VAL |-> <<"val">>,
             VAL_REL |-> <<"val", "w">>, REL_VAL |-> <<"w", "val">>]

\* mcmp: a ranks before b.
Better(g, a, b) ==
    LET fields == Compared[g.sort_by]
        differ == {i \in DOMAIN fields : a[fields[i]] # b[fields[i]]}
        f == fields[Min(differ)]
    IN  IF differ = {} THEN IF g.sort_forward THEN a.did < b.did ELSE a.did > b.did
        ELSE IF f = "w" \/ g.sort_val_reverse THEN a[f] > b[f] ELSE a[f] < b[f]

\* The rank of every index into the results, 0 for the best.
Ranks(g, results) ==
    [i \in DOMAIN results |->
        Cardinality({j \in DOMAIN results : Better(g, results[j], results[i])})]

WeightFirst(g) == g.sort_by \in {"REL", "REL_VAL"}
MaxSize(g) == Max({g.first + g.maxitems, 1})
Full(g, m) == Len(m.results) = MaxSize(g)

-----------------------------------------------------------------------------
(* ProtoMSet: m is the object, g the settings.                             *)

set_new_min_weight(m, w) ==
    IF w <= m.min_weight THEN m
    ELSE IF m.results = <<>> THEN [m EXCEPT !.min_weight = w]
    ELSE [m EXCEPT !.min_weight = w, !.min_heap = <<>>, !.pending = TRUE]

update_max_weight(g, m, doc) ==
    IF doc.w <= m.max_weight THEN m
    ELSE set_new_min_weight([m EXCEPT !.max_weight = doc.w, !.subqs = doc.subqs],
                            IF g.percent THEN doc.w \div 2 ELSE m.min_weight)

\* Running out of time lowers check_at_least.
checked_enough(g, m) ==
    IF m.known < m.check_at_least /\ m.known >= MaxSize(g) /\ m.timed_out
    THEN [m EXCEPT !.check_at_least = MaxSize(g)] ELSE m

Enough(m) == m.known >= m.check_at_least

\* The threshold follows the lowest weight kept, once enough is checked.
RaiseTo(g, m, w) ==
    LET Raised(new) == IF Enough(new) THEN [new EXCEPT !.min_weight = w] ELSE new
    IN  IF WeightFirst(g) THEN Raised(checked_enough(g, m)) ELSE m

LowestOf(results) == Min({r.w : r \in ToSet(results)} \cup {Huge})

handle_min_weight_pending(g, m, finalising) ==
    LET Swept(new) ==
            IF ~finalising THEN RaiseTo(g, new, LowestOf(new.results))
            ELSE IF WeightFirst(g) /\ Enough(m)
            THEN [new EXCEPT !.min_weight = LowestOf(new.results)]
            ELSE new
    IN  Swept([m EXCEPT !.pending = FALSE,
                        !.results = SelectSeq(@, LAMBDA r : r.w >= m.min_weight)])

Pushed(m, item) ==
    [m |-> [m EXCEPT !.results = Append(@, item)], at |-> Len(m.results) + 1]

\* The threshold follows the new worst result.
RaiseToTip(g, m) == RaiseTo(g, m, m.results[Head(m.min_heap)].w)

\* Mutant: the heap is left as it was.
PushOutWorstUnsifted(g, m, item) ==
    IF ~Better(g, item, m.results[Head(m.min_heap)]) THEN [m |-> m, at |-> 0]
    ELSE [m |-> RaiseToTip(g, [m EXCEPT !.results[Head(m.min_heap)] = item]),
          at |-> Head(m.min_heap)]

\* The item takes the place of the worst result, if it is better.
PushOutWorst(g, m, item) ==
    LET Sunk(new) == [new EXCEPT !.min_heap = SiftDown(@, Ranks(g, new.results), 1)]
    IN  IF ~Better(g, item, m.results[Head(m.min_heap)]) THEN [m |-> m, at |-> 0]
        ELSE [m |-> RaiseToTip(g, Sunk([m EXCEPT !.results[Head(m.min_heap)] = item])),
              at |-> Head(m.min_heap)]

\* The results become a heap when one more than fits comes.
HeapMade(g, m) ==
    RaiseToTip(g, [m EXCEPT !.min_heap = MakeHeap(<<>> \o [i \in DOMAIN m.results |-> i],
                                                  Ranks(g, m.results))])

\* add: the object afterwards, and the index of the item (0: not added).
add(g, old, item) ==
    LET Overflown(m) ==
            IF Full(g, m) THEN PushOutWorst(g, HeapMade(g, m), item) ELSE Pushed(m, item)
        Added(m) ==
            IF item.w < m.min_weight THEN [m |-> m, at |-> 0]
            ELSE IF ~Full(g, m) THEN Pushed(m, item)
            ELSE IF m.min_heap # <<>> THEN PushOutWorst(g, m, item)
            ELSE Overflown(IF m.pending THEN handle_min_weight_pending(g, m, FALSE) ELSE m)
    IN  Added([old EXCEPT !.known = @ + 1])

\* The new item may only sink in the heap.
replace(g, m, old_item, item) ==
    LET results == [m.results EXCEPT ![old_item] = item]
        at == CHOOSE i \in DOMAIN m.min_heap : m.min_heap[i] = old_item
    IN  [m EXCEPT !.results = results,
                  !.min_heap = IF @ = <<>> THEN @ ELSE SiftDown(@, Ranks(g, results), at)]

-----------------------------------------------------------------------------
(* Collapser: m.table maps a collapse key to its CollapseData, with items  *)
(* a sequence of [at, did]; at is an index into the results.               *)

ItemRanks(g, results, items) == [it \in ToSet(items) |-> Ranks(g, results)[it.at]]

HeapOfItems(g, m, items) == MakeHeap(items, ItemRanks(g, m.results, items))

ReplacedTip(g, results, items, item) ==
    LET Sunk(new) == SiftDown(new, ItemRanks(g, results, new), 1)
    IN  Sunk([items EXCEPT ![1] = item])

\* check_item: what to do, and the object afterwards.  When the result that
\* would have to go was pushed out before, old_item keeps its old value.
check_item(g, m, item) ==
    LET Outcome(what, d, old_item) ==
            [what |-> what, m |-> [m EXCEPT !.table[item.key] = d, !.old_item = old_item]]
        Against(data, tip, old) ==
            IF tip.did # old.did THEN Outcome("REPLACE", data, m.old_item)
            ELSE IF Better(g, old, item) THEN Outcome("REJECT", data, m.old_item)
            ELSE Outcome("REPLACE",
                         [data EXCEPT !.items = ReplacedTip(g, m.results, @,
                                                            [at |-> tip.at, did |-> item.did])],
                         tip.at)
        Heaped(data) ==
            [data EXCEPT !.items = IF data.count = 0 /\ g.collapse_max # 1
                                   THEN HeapOfItems(g, m, @) ELSE @,
                         !.count = @ + 1]
        Checked(data) == Against(data, Head(data.items), m.results[Head(data.items).at])
    IN  IF Len(m.table[item.key].items) < g.collapse_max THEN [what |-> "ADD", m |-> m]
        ELSE Checked(Heaped(m.table[item.key]))

\* Collapser::check.
Collapse(g, old, item) ==
    LET fresh == [items |-> <<[at |-> 1, did |-> item.did]>>, count |-> 0]
        Tallied(c) == IF c.what = "ADD" THEN [c EXCEPT !.m.entries = @ + 1]
                      ELSE [c EXCEPT !.m.dups = @ + 1]
        Considered(m) ==
            IF item.key = 0 THEN [what |-> "EMPTY", m |-> [m EXCEPT !.no_key = @ + 1]]
            ELSE IF item.key \notin DOMAIN m.table
            THEN [what |-> "NEW", m |-> [m EXCEPT !.table = (item.key :> fresh) @@ @,
                                                  !.entries = @ + 1]]
            ELSE Tallied(check_item(g, m, item))
    IN  Considered([old EXCEPT !.considered = @ + 1])

\* Collapser::process: the place of a result that was added.
set_item(g, m, what, item, at) ==
    LET here == [at |-> at, did |-> item.did]
    IN  IF at = 0 \/ what = "EMPTY" THEN m
        ELSE IF what = "NEW" THEN [m EXCEPT !.table[item.key].items = <<here>>]
        ELSE [m EXCEPT !.table[item.key].items = Append(@, here)]

-----------------------------------------------------------------------------
(* get_local_mset.                                                         *)

\* early_reject: a result that cannot get in, when values are compared.
EarlyReject(g, m, item) ==
    /\ g.sort_by \notin {"DOCID", "REL"}
    /\ m.min_heap # <<>>
    /\ ~Better(g, item, m.results[Head(m.min_heap)])
    /\ g.collapse_max = 0 \/ Enough(checked_enough(g, m))

early_reject(g, m, item) ==
    IF g.collapse_max = 0 THEN update_max_weight(g, [m EXCEPT !.known = @ + 1], item)
    ELSE update_max_weight(g, checked_enough(g, m), item)

process(g, old, item) ==
    LET Placed(a, what) == set_item(g, a.m, what, item, a.at)
        Settled(c) ==
            IF c.what = "REJECT" THEN c.m
            ELSE IF c.what = "REPLACE" THEN replace(g, c.m, c.m.old_item, item)
            ELSE Placed(add(g, c.m, item), c.what)
        Handled(m) == IF g.collapse_max = 0 THEN add(g, m, item).m ELSE Settled(Collapse(g, m, item))
    IN  Handled(update_max_weight(g, old, item))

stop_once_full(g, m) ==
    g.sort_forward /\ g.sort_by = "DOCID" /\ Full(g, m) /\ Enough(checked_enough(g, m))

\* finalise_percentages, with 50 / percent_scale.
finalise_percentages(g, m) ==
    LET Ended(new) == IF new.pending THEN handle_min_weight_pending(g, new, TRUE) ELSE new
    IN  IF m.results = <<>> \/ m.max_weight = 0 \/ ~g.percent THEN m
        ELSE Ended(set_new_min_weight(m, (m.max_weight * Subqs) \div (2 * m.subqs)))

\* Mutant: what is known is exact even when check_at_least was reached.
BoundsOffByOne(g, m, e) ==
    IF m.known <= m.check_at_least
    THEN [lower |-> m.known, upper |-> m.known, unlower |-> m.known, unupper |-> m.known]
    ELSE [lower |-> 0, upper |-> e.max, unlower |-> 0, unupper |-> e.max]

\* The bounds on the number of matches; e has those of the EstimateOp tree.
Bounds(g, m, e) ==
    LET size == Len(m.results)
        collapser == g.collapse_max # 0
        known == IF Full(g, m) THEN m.known ELSE size
        lower == IF g.percent THEN size
                 ELSE IF collapser THEN m.no_key + m.entries
                 ELSE Max({e.min, m.known})
        upper == IF collapser THEN e.max - m.dups ELSE e.max
    IN  IF ~collapser /\ (~Full(g, m) \/ m.known < m.check_at_least)
        THEN [lower |-> known, upper |-> known, unlower |-> known, unupper |-> known]
        ELSE IF ~Full(g, m)
        THEN [lower |-> size, upper |-> size, unlower |-> Max({e.min, size}), unupper |-> e.max]
        ELSE [lower |-> lower, upper |-> upper, unupper |-> e.max,
              unlower |-> IF ~collapser \/ g.percent THEN lower
                          ELSE Max({e.min, m.known, lower})]

\* The results wanted, in order.
Sorted(g, results) ==
    LET all == ToSet(results)
        InOrder == SetToSortSeq(all, LAMBDA x, y : Better(g, x, y))
    IN  SubSeq(InOrder, g.first + 1, Len(InOrder))

-----------------------------------------------------------------------------
VARIABLES g, m, docs, mset

vars == <<g, m, docs, mset>>

NoMSet == [done |-> FALSE]

\* A setting that plays no part takes one value.
Attributes ==
    {d \in [w : Weight \cup {0}, val : Value \cup {0}, key : Key \cup {0}, subqs : 1..Subqs] :
        /\ d.w = 0 <=> g.sort_by = "DOCID"
        /\ (g.sort_by \in {"DOCID", "REL"}) <=> d.val = 0
        /\ g.collapse_max = 0 => d.key = 0
        /\ ~g.percent => d.subqs = Subqs}

\* One turn of the loop.
NextDocument(attr) ==
    LET item == attr @@ ("did" :> Len(docs) + 1)
        Stopping(new) == [new EXCEPT !.stopped = stop_once_full(g, new)]
    IN  /\ ~mset.done /\ Len(docs) < MaxDocs /\ ~m.stopped
        /\ docs' = Append(docs, item)
        /\ m' = IF item.w < m.min_weight THEN m
                ELSE IF EarlyReject(g, m, item) THEN early_reject(g, m, item)
                ELSE Stopping(process(g, m, item))
        /\ UNCHANGED <<g, mset>>

\* The documents that are left when the loop stops early.
Unread(attr) ==
    /\ ~mset.done /\ Len(docs) < MaxDocs /\ m.stopped
    /\ docs' = Append(docs, attr @@ ("did" :> Len(docs) + 1))
    /\ UNCHANGED <<g, m, mset>>

TimeOut ==
    /\ ~mset.done /\ g.time_limit /\ ~m.timed_out
    /\ m' = [m EXCEPT !.timed_out = TRUE]
    /\ UNCHANGED <<g, docs, mset>>

\* The true number of matches is all that the EstimateOp tree is known by.
finalise ==
    LET end == finalise_percentages(g, m)
    IN  /\ ~mset.done
        /\ \E lo \in {0, Len(docs)}, hi \in {Len(docs), MaxDocs + 1} :
               mset' = [done |-> TRUE, items |-> IF g.maxitems = 0 THEN <<>>
                                                 ELSE Sorted(g, end.results),
                        table |-> end.table,
                        bounds |-> Bounds(g, end, [min |-> lo, max |-> hi])]
        /\ UNCHANGED <<g, m, docs>>

Init ==
    /\ g \in Settings
    /\ m = set_new_min_weight(
              [results |-> <<>>, min_heap |-> <<>>, min_weight |-> 0, max_weight |-> 0,
               pending |-> FALSE, known |-> 0, subqs |-> 1, check_at_least |-> g.check_at_least,
               timed_out |-> FALSE, stopped |-> FALSE, table |-> [k \in {} |-> 0],
               old_item |-> 1, entries |-> 0, no_key |-> 0, dups |-> 0, considered |-> 0],
              g.weight_threshold)
    /\ docs = <<>>
    /\ mset = NoMSet

Next ==
    \/ \E attr \in Attributes : NextDocument(attr)
    \/ \E attr \in Attributes : Unread(attr)
    \/ TimeOut
    \/ finalise

Spec == Init /\ [][Next]_vars

-----------------------------------------------------------------------------
(* Properties, against all of the documents.                               *)

AllDocs == ToSet(docs)

\* The first of the best documents stands for 100%, scaled down when it does
\* not match every subquery; half of that is the threshold.
BestDoc ==
    CHOOSE d \in AllDocs : \A x \in AllDocs : x.w < d.w \/ (x.w = d.w /\ d.did <= x.did)

PercentWeight ==
    IF g.percent /\ docs # <<>> THEN (BestDoc.w * Subqs) \div (2 * BestDoc.subqs) ELSE 0

Accepted == {d \in AllDocs : d.w >= g.weight_threshold /\ d.w >= PercentWeight}

Above(d, S) == {x \in S : Better(g, x, d)}

\* What is left when only the best collapse_max of every key stay.
Collapsed ==
    {d \in Accepted : g.collapse_max = 0 \/ d.key = 0
        \/ Cardinality({x \in Above(d, Accepted) : x.key = d.key}) < g.collapse_max}

\* The MSet of get_local_mset has the documents of the ranks asked for, in
\* order, whatever ProtoMSet::add and early_reject left out on the way because
\* it could not get in any more, and whatever the minimum weight dropped.
MSetIsBest ==
    mset.done =>
        LET rank == [d \in Collapsed |-> Cardinality(Above(d, Collapsed))]
            wanted == {d \in Collapsed : rank[d] \in g.first..g.first + g.maxitems - 1}
        IN  mset.items = SetToSortSeq(wanted, LAMBDA x, y : Better(g, x, y))

\* The true number of matches is within the bounds of ProtoMSet::finalise,
\* after collapsing and before it.  With fewer matches than check_at_least
\* they are the exact number, unless time ran out.
MatchesInBounds ==
    mset.done =>
        /\ g.weight_threshold = 0 =>
              /\ Cardinality(Collapsed) \in mset.bounds.lower..mset.bounds.upper
              /\ Cardinality(Accepted) \in mset.bounds.unlower..mset.bounds.unupper
        /\ (~m.timed_out /\ g.collapse_max = 0 /\ Cardinality(AllDocs) < g.check_at_least) =>
              mset.bounds.lower = Cardinality(Accepted) /\ mset.bounds.upper = Cardinality(Accepted)
=============================================================================
