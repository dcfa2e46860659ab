----------------------------- MODULE MCProtoMSet -----------------------------
(***************************************************************************)
(* What is asked of the matcher in the runs of ProtoMSet.                  *)
(***************************************************************************)
EXTENDS ProtoMSet

Setting(sort_by, forward, first, maxitems, check_at_least) ==
    [sort_by |-> sort_by, sort_forward |-> forward, sort_val_reverse |-> forward,
     first |-> first, maxitems |-> maxitems, check_at_least |-> check_at_least,
     collapse_max |-> 0, percent |-> FALSE, weight_threshold |-> 0, time_limit |-> FALSE]

With(field, v, S) == {[g0 EXCEPT ![field] = v] : g0 \in S}

Sorts == {"DOCID", "REL", "VAL", "VAL_REL", "REL_VAL"}

\* Pages of two results, and no results at all.
Plain ==
    {Setting(sort, fwd, first, 2, check) : sort \in Sorts, fwd \in BOOLEAN,
                                           first \in 0..1, check \in {3, 5}}
        \cup {Setting("REL", TRUE, 0, 0, 2)}

Cutoffs == With("weight_threshold", 4, {Setting(sort, TRUE, 0, 2, check) :
                                         sort \in Sorts \ {"DOCID"}, check \in 2..3})

TimeLimits == With("time_limit", TRUE, {Setting("REL", TRUE, 0, 2, 4)})

\* No result is pushed out: see MCPercent.
Percentages ==
    With("percent", TRUE, {Setting(sort, TRUE, 0, MaxDocs, MaxDocs) : sort \in {"REL", "VAL"}})

\* One result for each key, and none is pushed out: see MCCollapsed.
Collapsing ==
    With("collapse_max", 1, {Setting(sort, fwd, 0, MaxDocs, MaxDocs) :
                                sort \in {"DOCID", "REL", "VAL"}, fwd \in BOOLEAN})

MCSettings == Plain \cup Cutoffs \cup TimeLimits \cup Percentages \cup Collapsing

\* The settings of the runs that show a disagreement.
MCCollapsed == With("collapse_max", 1, {Setting("REL", TRUE, 0, 2, 2)})
MCTwoOfAKind == With("collapse_max", 2, {Setting("REL", TRUE, 0, MaxDocs, MaxDocs)})
MCPercent == With("percent", TRUE, {Setting("REL", TRUE, 0, 2, 2)})
=============================================================================
