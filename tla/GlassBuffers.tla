---------------------------- MODULE GlassBuffers ----------------------------
(***************************************************************************)
(* The changes a GlassWritableDatabase keeps in memory before they reach   *)
(* its tables: the Inverter's posting, document length and position        *)
(* changes, the GlassValueManager's values and value statistics, and the   *)
(* statistics of GlassVersion.  A map is a function on a finite set; the   *)
(* marker Deleted stands for DELETED_POSTING and for the empty string that *)
(* marks a removed position list or value.                                 *)
(*                                                                         *)
(* A document is [data, terms, values]: data 0 is the empty string, terms  *)
(* maps a term to its wdf and its position list (0 when it has none), and  *)
(* values maps a slot to a value greater than 0.                           *)
(***************************************************************************)
EXTENDS Integers, FiniteSets, TLC, FiniteSetsExt, Functions

CONSTANTS Deleted

EmptyMap == [x \in {} |-> 0]
Put(f, k, val) == (k :> val) @@ f
Drop(f, keys) == Restrict(f, DOMAIN f \ keys)
Lookup(f, k, none) == IF k \in DOMAIN f THEN f[k] ELSE none

\* A table after a batch of buffered entries, some of which delete.
Merge(f, changes) ==
    LET gone == {k \in DOMAIN changes : changes[k] = Deleted}
    IN  Drop(changes @@ f, gone)

-----------------------------------------------------------------------------
(* Inverter.                                                               *)

NoPostingChanges == [tf |-> 0, cf |-> 0, pl |-> EmptyMap]

\* add_posting, remove_posting and update_posting of one document: "changes"
\* maps a term to the change of its frequencies and its new wdf.
BufferPostings(post, did, changes) ==
    LET Changed(t) ==
            LET old == Lookup(post, t, NoPostingChanges)
            IN  [tf |-> old.tf + changes[t].tf, cf |-> old.cf + changes[t].cf,
                 pl |-> Put(old.pl, did, changes[t].wdf)]
    IN  [t \in DOMAIN changes |-> Changed(t)] @@ post

AddedPosting(wdf) == [tf |-> 1, cf |-> wdf, wdf |-> wdf]
RemovedPosting(wdf) == [tf |-> -1, cf |-> -wdf, wdf |-> Deleted]
UpdatedPostingBack(old, new) == [tf |-> 0, cf |-> old - new, wdf |-> new]

UpdatedPosting(old, new) == [tf |-> 0, cf |-> new - old, wdf |-> new]

\* merge_changes: the posting list of a term goes when its frequency is 0.
merge_changes(postlist, t, ch) ==
    LET old == Lookup(postlist, t, NoPostingChanges)
        new == [tf |-> old.tf + ch.tf, cf |-> old.cf + ch.cf, pl |-> Merge(old.pl, ch.pl)]
    IN  IF new.tf = 0 THEN Drop(postlist, {t}) ELSE Put(postlist, t, new)

\* flush_post_list and flush_all_post_lists: the changes of these terms.
FlushPostLists(postlist, post, terms) ==
    FoldSet(LAMBDA t, table : merge_changes(table, t, post[t]),
            postlist, terms \cap DOMAIN post)

BufferNewPositions(pos, table, did, terms, existing) ==
    LET stored == {t \in DOMAIN terms : terms[t].pos # 0}
    IN  [k \in {did} \X stored |-> terms[k[2]].pos] @@ pos

\* set_positionlist for a document's terms: an empty position list is only
\* recorded when the term was there before, and an identical one is not.
BufferPositions(pos, table, did, terms, existing) ==
    LET Unchanged(t) == /\ t \in existing
                        /\ <<did, t>> \notin DOMAIN pos
                        /\ Lookup(table, <<did, t>>, 0) = terms[t].pos
        stored == {t \in DOMAIN terms : terms[t].pos # 0 /\ ~Unchanged(t)}
        removed == {t \in DOMAIN terms : terms[t].pos = 0 /\ t \in existing}
    IN  [k \in {did} \X (stored \cup removed) |->
            IF terms[k[2]].pos = 0 THEN Deleted ELSE terms[k[2]].pos] @@ pos

DeletePositions(pos, did, terms) == [k \in {did} \X terms |-> Deleted] @@ pos

-----------------------------------------------------------------------------
(* GlassValueManager.                                                      *)

NoValueStats == [freq |-> 0, lo |-> 0, hi |-> 0]

\* The statistics buffered for a slot are read from the table on first use.
StatsOf(stats, vstats, s) == Lookup(stats, s, Lookup(vstats, s, NoValueStats))

CountValue(st, val) ==
    IF st.freq = 0 THEN [freq |-> 1, lo |-> val, hi |-> val]
    ELSE [freq |-> st.freq + 1, lo |-> Min({val, st.lo}), hi |-> Max({val, st.hi})]

UncountValue(st) == IF st.freq = 1 THEN NoValueStats ELSE [st EXCEPT !.freq = @ - 1]

ValuesAdd(vm, tab, did, values) ==
    [stats |-> [s \in DOMAIN values |->
                   CountValue(StatsOf(vm.stats, tab.vstats, s), values[s])] @@ vm.stats,
     changes |-> [k \in (DOMAIN values) \X {did} |-> values[k[1]]] @@ vm.changes,
     slots |-> IF DOMAIN values = {} /\ did \notin DOMAIN vm.slots
               THEN vm.slots ELSE Put(vm.slots, did, DOMAIN values)]

SlotsOf(vm, tab, did) == Lookup(vm.slots, did, Lookup(tab.slots, did, {}))

ValuesDelete(vm, tab, did) ==
    LET used == SlotsOf(vm, tab, did)
    IN  IF did \notin DOMAIN vm.slots \cup DOMAIN tab.slots THEN vm
        ELSE [stats |-> [s \in used |->
                            UncountValue(StatsOf(vm.stats, tab.vstats, s))] @@ vm.stats,
              changes |-> [k \in used \X {did} |-> Deleted] @@ vm.changes,
              slots |-> Put(vm.slots, did, {})]

\* GlassValueManager::merge_changes, on the tables it writes.
MergeValues(tab, vm) ==
    [tab EXCEPT !.values = Merge(@, vm.changes),
                !.slots = LET all == vm.slots @@ @
                          IN  Drop(all, {d \in DOMAIN all : all[d] = {}})]

\* set_value_stats.
WriteValueStats(vstats, stats) ==
    Merge(vstats, [s \in DOMAIN stats |-> IF stats[s].freq = 0 THEN Deleted ELSE stats[s]])

-----------------------------------------------------------------------------
(* GlassVersion.                                                           *)

NoStats == [doccount |-> 0, total_doclen |-> 0, last_docid |-> 0,
            doclen_lbound |-> 0, doclen_ubound |-> 0, wdf_ubound |-> 0]

min_non_zero(a, b) == IF a = 0 THEN b ELSE IF b = 0 THEN a ELSE Min({a, b})

StatsAdd(v, len) ==
    [v EXCEPT !.doccount = @ + 1, !.total_doclen = @ + len,
              !.doclen_lbound = min_non_zero(@, len), !.doclen_ubound = Max({@, len})]

StatsDeleteLengthOnly(v, len) == [v EXCEPT !.total_doclen = @ - len]

StatsDelete(v, len) ==
    LET left == [v EXCEPT !.doccount = @ - 1, !.total_doclen = @ - len]
    IN  IF left.total_doclen # 0 THEN left
        ELSE [left EXCEPT !.doclen_lbound = 0, !.doclen_ubound = 0, !.wdf_ubound = 0]

\* check_wdf for every term of a document.
CheckWdfs(v, terms) ==
    [v EXCEPT !.wdf_ubound = Max({@} \cup {terms[t].wdf : t \in DOMAIN terms})]

Doclen(terms) == MapThenSumSet(LAMBDA t : terms[t].wdf, DOMAIN terms)
=============================================================================
