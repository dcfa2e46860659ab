------------------------------ MODULE Matching ------------------------------
(***************************************************************************)
(* One search, from the posting-list trees of the shards to the best        *)
(* documents: PostListTree and the loop of Matcher::get_local_mset, sorting *)
(* by relevance.  Each pass asks the tree for the next document, telling it *)
(* the least weight that could still enter the results; the lists use that  *)
(* to leave documents out, to turn into stricter lists and to give way to   *)
(* their children.                                                          *)
(*                                                                          *)
(* ProtoMSet models the results in full; here they are a set.               *)
(***************************************************************************)
EXTENDS QueryTree, FiniteSetsExt

CONSTANTS Searches,  \* the searches made, see Init
          Weights    \* Weights[t][d]: the wdf of t in document d, if it indexes it

VARIABLES search,   \* the search, one of Searches
          lists,    \* shard_pls
          current,  \* current_shard, from 1
          after,    \* max_after
          cache,    \* [max, valid]: max_weight, use_cached_max_weight
          phase,    \* "open", "ask", "pull", "done"
          best,     \* the results: records [did, w]
          least,    \* min_weight of the ProtoMSet
          last,     \* what the tree delivered last: [did, w]
          odd       \* the deviations that happened

vars == <<ix, search, lists, current, after, cache, phase, best, least, last, odd>>

Shards == 1 .. ix.n
Present(i) == lists[i].k # "none"

NoDoc == [did |-> 0, w |-> 0]

(* Any index over the terms and documents of the search: which terms have   *)
(* which documents, and each document's value; or, where the search has     *)
(* positions, at which of them each term stands in each document.           *)
Documents == 1 .. search.size
Index(wdf, val, pos) ==
    [n |-> search.n, est |-> search.est, size |-> search.size, wdf |-> wdf, val |-> val, pos |-> pos]

PlainIndex ==
    \E docs \in [search.terms -> SUBSET Documents], val \in [Documents -> search.vals] :
        ix = Index([t \in search.terms |-> [d \in Documents |-> IF d \in docs[t] THEN Weights[t][d] ELSE 0]],
                   val, [t \in search.terms |-> [d \in Documents |-> {}]])

PositionalIndex ==
    \E pos \in [search.terms -> [Documents -> SUBSET search.places]] :
        ix = Index([t \in search.terms |-> [d \in Documents |-> Cardinality(pos[t][d])]],
                   [d \in Documents |-> "none"], pos)

(* A search: the query; terms, vals, places and size bound the index; n     *)
(* shards; the k best documents are wanted, cutoff is the least weight (0   *)
(* or set_cutoff()); est is what composite lists give as their frequency.   *)
Init ==
    /\ search \in Searches
    /\ IF search.places = {} THEN PlainIndex ELSE PositionalIndex
    /\ lists = <<>> /\ current = 1 /\ after = <<>>
    /\ cache = [max |-> 0, valid |-> FALSE]
    /\ phase = "open" /\ best = {} /\ least = search.cutoff /\ last = NoDoc /\ odd = {}

-----------------------------------------------------------------------------
(* The lists are built shard by shard (a shard without documents, or in     *)
(* which nothing can match, has none), and set_postlists() asks each for    *)
(* its maximum.                                                             *)
Trees == [i \in Shards |-> IF ShardDocs(i - 1) = {} THEN NoPl ELSE ListOf(search.query, 1, FALSE, i - 1)]

Maxed(p) == IF p.k = "none" THEN [pl |-> p, max |-> 0] ELSE Recalc(p)

MaxAfter(rs) == [i \in DOMAIN rs |-> Max({0} \cup {rs[j].max : j \in i + 1 .. Len(rs)})]

SetPostlists(rs) ==
    /\ lists' = [i \in DOMAIN rs |-> rs[i].pl]
    /\ current' = Min({i \in DOMAIN rs : rs[i].pl.k # "none"})
    /\ after' = MaxAfter(rs)
    /\ cache' = [max |-> Max({rs[i].max : i \in DOMAIN rs}), valid |-> TRUE]
    /\ phase' = "ask"
    /\ UNCHANGED <<ix, search, best, least, last, odd>>

Open(ps) ==
    IF \A i \in DOMAIN ps : ps[i].k = "none"
    THEN phase' = "done" /\ UNCHANGED <<ix, search, lists, current, after, cache, best, least, last, odd>>
    ELSE \E rs \in {[i \in DOMAIN ps |-> Maxed(ps[i])]} : SetPostlists(rs)

Start == phase = "open" /\ \E ps \in {Trees} : Open(ps)

(* recalc_maxweight(): where the later shards could reach as much, the      *)
(* lists of this one keep their cached maxima.                              *)
TreeRecalc(tree) ==
    IF tree.valid \/ tree.max <= after[current] THEN [tree EXCEPT !.valid = TRUE]
    ELSE CHOOSE t \in {[pl |-> r.pl, max |-> Max({r.max, after[current]}), valid |-> TRUE]
                          : r \in {Recalc(tree.pl)}} : TRUE

Install(tree) ==
    /\ lists' = [lists EXCEPT ![current] = tree.pl]
    /\ cache' = [max |-> tree.max, valid |-> tree.valid]

(* PostListTree::next, its first test.                                      *)
Tree(p, valid) == [pl |-> p, max |-> cache.max, valid |-> valid]

Ask ==
    /\ phase = "ask"
    /\ IF least > 0
       THEN \E tree \in {TreeRecalc(Tree(lists[current], cache.valid))} :
                /\ Install(tree)
                /\ phase' = IF tree.max < least THEN "done" ELSE "pull"
       ELSE phase' = "pull" /\ UNCHANGED <<lists, cache>>
    /\ UNCHANGED <<ix, search, current, after, best, least, last, odd>>

(* The loop of PostListTree::next: the next shard is not asked for its      *)
(* maximum first.                                                           *)
LaterShards == {i \in Shards : i > current /\ Present(i)}

ShardDone(r) ==
    /\ lists' = [lists EXCEPT ![current] = r.pl]
    /\ current' = IF LaterShards = {} THEN current ELSE Min(LaterShards)
    /\ phase' = IF LaterShards = {} THEN "done" ELSE "pull"
    /\ cache' = [cache EXCEPT !.valid = FALSE]
    /\ last' = NoDoc
    /\ UNCHANGED <<best, least>>

(* ProtoMSet::add by weight, then by document number.                       *)
Beats(a, b) == a.w > b.w \/ (a.w = b.w /\ a.did < b.did)
Worst(items) == CHOOSE a \in items : \A b \in items \ {a} : Beats(b, a)

Keep(items) ==
    IF Cardinality(items) <= search.k
    THEN best' = items /\ least' = least
    ELSE /\ best' = items \ {Worst(items)}
         /\ least' = Worst(items \ {Worst(items)}).w

(* The loop of get_local_mset: what weighs less than the minimum is passed  *)
(* over.                                                                    *)
Deliver(item) ==
    /\ last' = item
    /\ IF item.w < least THEN UNCHANGED <<best, least>> ELSE Keep(best \cup {item})
    /\ UNCHANGED current

Pruned(tree) ==
    /\ Install(tree)
    /\ IF tree.max < least
       THEN phase' = "done" /\ UNCHANGED <<best, least, last, current>>
       ELSE phase' = "ask" /\ Deliver([did |-> Unshard(Docid(tree.pl), current - 1), w |-> Weight(tree.pl)])

Stayed(r) ==
    /\ Install(Tree(r.pl, cache.valid /\ ~r.recalc))
    /\ phase' = "ask"
    /\ Deliver([did |-> Unshard(Docid(r.pl), current - 1), w |-> Weight(r.pl)])

Pulled(r) ==
    /\ odd' = odd \cup r.odd
    /\ IF AtEnd(r.pl) THEN ShardDone(r)
       ELSE IF r.pruned /\ least > 0 THEN \E tree \in {TreeRecalc(Tree(r.pl, FALSE))} : Pruned(tree)
       ELSE Stayed(r)
    /\ UNCHANGED <<ix, search, after>>

Pull == phase = "pull" /\ \E r \in {PlNext(lists[current], least)} : Pulled(r)

Next == Start \/ Ask \/ Pull

Spec == Init /\ [][Next]_vars

-----------------------------------------------------------------------------
(* What the operators mean (include/xapian/query.h): which documents match, *)
(* and with which weight.                                                   *)
SumOf(S, F(_)) == FoldSet(LAMBDA x, n : n + F(x), 0, S)

RECURSIVE Matches(_, _), TrueWeight(_, _)
Matching(qs, d) == {i \in DOMAIN qs : Matches(qs[i], d)}
TermsAt(q, d) == [i \in DOMAIN q.ts |-> ix.pos[q.ts[i]][d]]

Matches(q, d) ==
    CASE q.op = "term" -> ix.wdf[q.t][d] > 0
      [] q.op = "all" -> TRUE
      [] q.op = "range" -> ix.val[d] = "in"
      [] q.op \in {"or", "max", "synonym"} -> Matching(q.qs, d) # {}
      [] q.op \in {"and", "filter"} -> Matching(q.qs, d) = DOMAIN q.qs
      [] q.op = "not" -> Matching(q.qs, d) = {1}
      [] q.op = "maybe" -> Matches(q.qs[1], d)
      [] q.op = "xor" -> Cardinality(Matching(q.qs, d)) % 2 = 1
      [] q.op = "near" -> IsNear(TermsAt(q, d), q.window)
      [] q.op = "phrase" -> IsPhrase(TermsAt(q, d), q.window)

TrueWeight(q, d) ==
    CASE q.op = "term" -> ix.wdf[q.t][d]
      [] q.op \in {"all", "range"} -> 0
      [] q.op \in {"or", "and", "xor", "maybe", "synonym"} ->
            SumOf(Matching(q.qs, d), LAMBDA i : TrueWeight(q.qs[i], d))
      [] q.op \in {"not", "filter"} -> TrueWeight(q.qs[1], d)
      [] q.op = "max" -> Max({TrueWeight(q.qs[i], d) : i \in Matching(q.qs, d)})
      [] q.op \in {"near", "phrase"} -> SumOf(DOMAIN q.ts, LAMBDA i : ix.wdf[q.ts[i]][d])

Ranked == {m \in {[did |-> d, w |-> TrueWeight(search.query, d)] : d \in {e \in 1 .. ix.size : Matches(search.query, e)}}
             : m.w >= search.cutoff}

TopK(items) == {a \in items : Cardinality({b \in items : Beats(b, a)}) < search.k}

(* Whatever the lists did on the way - turn into stricter lists, give way   *)
(* to a child, leave out what weighs too little, be asked by check() - a    *)
(* document among the results does match the query, and its weight is the   *)
(* one the operators define (OrPostList::get_weight and its siblings add    *)
(* up only the lists that stand on the document).                           *)
MatchesTrueAlways == \A m \in best : m \in Ranked

(* When PostListTree::next ends the search, the results are exactly the k   *)
(* best matching documents above the cut-off: no decay (decay_to_and,       *)
(* decay_to_andmaybe), no pruned list, no least weight passed down and no   *)
(* shard left out on the strength of its maximum loses one of them.         *)
BestFoundAlways == phase = "done" => best = TopK(Ranked)
BestFound == odd = {} => BestFoundAlways

(* The documents of a shard are delivered in increasing order, none twice,  *)
(* also across the change of a list into another.                           *)
InOrder == [][phase = "pull" /\ phase' = "ask" /\ odd' = {} => last'.did > last.did]_vars
=============================================================================
