----------------------------- MODULE MCMatching -----------------------------
(***************************************************************************)
(* The searches made.  Each query is run over every index of its terms on   *)
(* three or four documents, in one shard and in two, with and without a     *)
(* cut-off, the composite lists being taken for rarer or for more frequent  *)
(* than the terms.                                                          *)
(***************************************************************************)
EXTENDS Matching

T(t) == [op |-> "term", t |-> t]
Q(op, qs) == [op |-> op, qs |-> qs]
A == T("a")
B == T("b")
C == T("c")
R == [op |-> "range"]
All == [op |-> "all"]
Placed(op, ts, window) == [op |-> op, ts |-> ts, window |-> window]

MCWeights == [a |-> <<3, 1, 3, 2>>, b |-> <<2, 2, 1, 3>>, c |-> <<1, 1, 2, 1>>]

TermQueries ==
    {Q("or", <<A, B, C>>),
     Q("or", <<Q("and", <<A, B>>), C>>),
     Q("or", <<Q("not", <<A, B>>), C>>),
     Q("or", <<Q("maybe", <<C, B>>), A>>),
     Q("or", <<Q("synonym", <<A, B>>), C>>),
     Q("or", <<Q("max", <<A, B>>), C>>),
     Q("and", <<A, Q("or", <<B, C>>)>>),
     Q("and", <<A, Q("or", <<Q("not", <<B, A>>), C>>)>>),
     Q("and", <<C, Q("or", <<Q("maybe", <<A, B>>), B>>)>>),
     Q("and", <<Q("or", <<Q("xor", <<A, B>>), A>>), C>>),
     Q("xor", <<A, Q("and", <<B, C>>)>>),
     Q("xor", <<A, B, C>>),
     Q("max", <<C, Q("and", <<A, B>>)>>),
     Q("synonym", <<A, B, C>>),
     Q("filter", <<A, Q("or", <<B, C>>)>>),
     Q("maybe", <<A, Q("not", <<B, C>>)>>),
     Q("not", <<A, Q("not", <<B, C>>)>>),
     Q("not", <<All, Q("xor", <<A, B>>), C>>)}

RangeQueries ==
    {Q("or", <<R, A>>),
     Q("or", <<Q("not", <<R, B>>), A>>),
     Q("and", <<A, Q("or", <<R, B>>)>>),
     Q("and", <<A, Q("or", <<Q("not", <<R, B>>), B>>)>>),
     Q("and", <<A, Q("or", <<Q("maybe", <<R, A>>), B>>)>>),
     Q("maybe", <<A, Q("or", <<Q("filter", <<B, R>>), B>>)>>),
     Q("filter", <<Q("or", <<A, B>>), R>>),
     Q("not", <<A, R>>),
     Q("xor", <<R, A>>)}

Search(queries, ts, vs, places, sizes, ns, ks, cutoffs, ests) ==
    [query : queries, terms : {ts}, vals : {vs}, places : {places}, size : sizes,
     n : ns, k : ks, cutoff : cutoffs, est : ests]

None == {"none"}
ABC == {"a", "b", "c"}
AB == {"a", "b"}

MCSearches ==
    UNION {Search(TermQueries, ABC, None, {}, {3}, {1}, {1}, {0, 3}, {0, 10}),
           Search(TermQueries, ABC, None, {}, {3}, {2}, {1}, {0, 3}, {10}),
           Search({Q("or", <<A, B, C>>)}, ABC, None, {}, {4}, {1}, {1, 2}, {0}, {0}),
           Search(RangeQueries, AB, {"none", "in", "out"}, {}, {3}, {1}, {1}, {0, 3}, {0, 10}),
           Search({Placed("near", <<"a", "b">>, w) : w \in {2, 3}}, AB, None, 0 .. 2, {2}, {1}, {1}, {0}, {0}),
           Search({Placed("phrase", <<"a", "b">>, w) : w \in {2, 3}}, AB, None, 0 .. 2, {2}, {1}, {1}, {0}, {0}),
           Search({Placed(op, <<"a", "b", "c">>, 3) : op \in {"near", "phrase"}}, ABC, None, 0 .. 2, {1}, {1}, {1}, {0}, {0}),
           Search({Q("or", <<Placed("phrase", <<"a", "b">>, 2), C>>)}, ABC, None, {0, 1}, {2}, {1}, {1}, {0, 2}, {0, 10})}

(* The searches of the disagreements: see the README.                       *)
One(query) == Search({query}, ABC, None, {}, {3}, {1}, {1}, {0, 3}, {0, 10})
MaybeSearches == One(Q("maybe", <<A, C>>))
UnstartedSearches == One(Q("or", <<Q("not", <<A, B>>), C>>))
OrCheckSearches == One(Q("and", <<A, Q("or", <<Q("not", <<B, A>>), C>>)>>))
MaxOfOrSearches == One(Q("max", <<A, Q("or", <<B, C>>)>>))
SynonymTwiceSearches == One(Q("synonym", <<A, B, Q("and", <<A, B>>)>>))
NearSearches == Search({Placed("near", <<"a", "b">>, 2)}, AB, None, 0 .. 3, {1}, {1}, {1}, {0}, {0})
=============================================================================
