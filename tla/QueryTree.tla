------------------------------ MODULE QueryTree ------------------------------
(***************************************************************************)
(* How a query becomes a tree of posting lists (api/queryinternal.cc and    *)
(* LocalSubMatch::open_post_list).  A query is a record: op, and t, qs or   *)
(* ts and window.  f is the factor (0: the weights are not wanted), c says  *)
(* whether the query is below an OP_SYNONYM (termfreqs # NULL and           *)
(* compound_weight), s is the shard.                                        *)
(***************************************************************************)
EXTENDS PostLists
LOCAL INSTANCE MinHeap
LOCAL INSTANCE FiniteSetsExt
LOCAL INSTANCE SequencesExt

(* LocalSubMatch::open_post_list: an unweighted term of every document is   *)
(* replaced by the list of all documents.                                   *)
OpenTerm(t, f, c, positions, s) ==
    IF Post(t, s) = {} THEN NoPl
    ELSE IF ~positions /\ f = 0 /\ ~c /\ Post(t, s) = ShardDocs(s) THEN AllLeaf(s)
    ELSE TermLeaf(t, s, f # 0)

(* QueryValueRange::postlist, the values out of range lying all above it.   *)
RangeList(s) ==
    IF InRange(s) = {} THEN NoPl
    ELSE IF InRange(s) = ShardDocs(s) THEN AllLeaf(s)
    ELSE RangeLeaf(s)
-----------------------------------------------------------------------------
(* get_docid_range(): dr is what the caller passes in.                      *)
FullRange == <<1, BigDocid>>
RECURSIVE DocidRange(_, _)
Narrowed(dr, e) == <<Max({dr[1], e[1]}), Min({dr[2], e[2]})>>
Widened(ps, dr) ==
    <<Min({DocidRange(ps[i], IF i = 1 THEN dr ELSE FullRange)[1] : i \in DOMAIN ps}),
      Max({DocidRange(ps[i], IF i = 1 THEN dr ELSE FullRange)[2] : i \in DOMAIN ps})>>

DocidRange(p, dr) ==
    CASE p.k = "term" -> <<Min(Post(p.t, p.s)), Max(Post(p.t, p.s))>>
      [] p.k = "and" -> FoldLeft(LAMBDA acc, q : IF acc[2] < acc[1] THEN acc ELSE Narrowed(acc, DocidRange(q, acc)),
                                 DocidRange(p.pls[1], dr), Tail(p.pls))
      [] p.k = "or" -> Widened(<<p.l, p.r>>, dr)
      [] p.k \in {"xor", "max"} -> Widened(p.pls, dr)
      [] p.k = "boolor" -> Widened([i \in DOMAIN p.heap |-> p.heap[i].pl], dr)
      [] OTHER -> dr

Overlap(ps, first, last) ==
    ps # <<>> /\ Widened(ps, FullRange)[2] >= first /\ Widened(ps, FullRange)[1] <= last
-----------------------------------------------------------------------------
(* OrContext: the lists collected, in order.                                *)
BoolOrOf(pls) ==
    [k |-> "boolor", did |-> 0, heap |-> <<>> \o [i \in DOMAIN pls |-> [pl |-> pls[i], key |-> 0]]]
OrOf(l, r) == [k |-> "or", l |-> l, r |-> r, ldid |-> 0, rdid |-> 0, lmax |-> 0, rmax |-> 0]
Keyed(p) == [pl |-> p, key |-> Termfreq(p)]

(* The two rarest lists are joined until one is left, the rarer on the right. *)
RECURSIVE Huffman(_)
Joined(h, r) ==
    IF Len(h) = 1 THEN OrOf(h[1].pl, r)
    ELSE Huffman(Replace(<<Keyed(OrOf(h[1].pl, r))>> \o Tail(h), Len(h)))
Huffman(h) == Joined(Front(Pop(h, Len(h))), h[1].pl)

OrContextList(pls, boolor) ==
    IF pls = <<>> THEN NoPl
    ELSE IF Len(pls) = 1 THEN pls[1]
    ELSE IF boolor THEN BoolOrOf(pls)
    ELSE Huffman(Make([i \in DOMAIN pls |-> Keyed(pls[i])], Len(pls)))

ByTermfreq(pls) == SortSeq(pls, LAMBDA a, b : Termfreq(a) < Termfreq(b))

MaxContextList(pls) ==
    IF pls = <<>> THEN NoPl
    ELSE IF Len(pls) = 1 THEN pls[1]
    ELSE [k |-> "max", did |-> 0, pls |-> ByTermfreq(pls)]

XorContextList(pls) == IF pls = <<>> THEN NoPl ELSE [k |-> "xor", did |-> 0, pls |-> pls]
-----------------------------------------------------------------------------
(* AndContext: also the lists of its not_ctx and maybe_ctx and its          *)
(* positional filters.  dead: nothing can match any more.                   *)
AndContext == [pls |-> <<>>, dr |-> FullRange, dead |-> FALSE, matchall |-> FALSE,
               nots |-> <<>>, maybes |-> <<>>, filters |-> <<>>]

AndAdd(ctx, p, dr) == [ctx EXCEPT !.pls = Append(@, p), !.dr = dr, !.dead = dr[1] > dr[2]]
AndContextAdd(ctx, p) ==
    IF ctx.dead \/ p.k = "none" THEN [ctx EXCEPT !.dead = TRUE]
    ELSE AndAdd(ctx, p, Narrowed(ctx.dr, DocidRange(p, ctx.dr)))

AndOf(pls) == [k |-> "and", did |-> 0, pls |-> ByTermfreq(pls), maxs |-> <<>> \o [i \in DOMAIN pls |-> 0], total |-> 0]
AndBase(ctx, s) ==
    IF ctx.pls = <<>> THEN AllLeaf(s) ELSE IF Len(ctx.pls) = 1 THEN ctx.pls[1] ELSE AndOf(ctx.pls)

AndLessNots(ctx, p) ==
    IF Overlap(ctx.nots, ctx.dr[1], ctx.dr[2])
    THEN [k |-> "not", pl |-> p, r |-> OrContextList(ctx.nots, TRUE), rdid |-> 0]
    ELSE p

Filtered(filters, p) ==
    FoldLeft(LAMBDA acc, test : [k |-> "select", pl |-> acc, test |-> test, cached |-> -1, gone |-> FALSE], p, filters)

AndPlusMaybes(ctx, p) ==
    IF Overlap(ctx.maybes, ctx.dr[1], ctx.dr[2])
    THEN MaybeOf(p, OrContextList(ctx.maybes, FALSE), 0, 0)
    ELSE p

AndContextList(ctx, s) ==
    IF ctx.dead \/ (ctx.pls = <<>> /\ ~ctx.matchall) THEN NoPl
    ELSE AndPlusMaybes(ctx, Filtered(ctx.filters, AndLessNots(ctx, AndBase(ctx, s))))
-----------------------------------------------------------------------------
RECURSIVE ListOf(_, _, _, _), SubAnd(_, _, _, _, _), SubsOr(_, _, _, _, _), SubsBoolOr(_, _, _), SubsXor(_, _, _, _)
Some(p) == IF p.k = "none" THEN <<>> ELSE <<p>>

(* do_or_like and do_bool_or_like: the lists of the subqueries qs, an OP_OR *)
(* among them flattened.  keep: lists that can give no weight stay.         *)
SubOr(q, f, c, keep, s) ==
    IF q.op = "or" THEN SubsOr(q.qs, f, c, keep, s)
    ELSE SelectSeq(Some(ListOf(q, f, c, s)), LAMBDA p : keep \/ Recalc(p).max > 0)
SubsOr(qs, f, c, keep, s) ==
    IF qs = <<>> THEN <<>> ELSE SubOr(Head(qs), f, c, keep, s) \o SubsOr(Tail(qs), f, c, keep, s)

SubBoolOr(q, c, s) == IF q.op = "or" THEN SubsBoolOr(q.qs, c, s) ELSE Some(ListOf(q, 0, c, s))
SubsBoolOr(qs, c, s) == IF qs = <<>> THEN <<>> ELSE SubBoolOr(Head(qs), c, s) \o SubsBoolOr(Tail(qs), c, s)

SubXor(q, f, c, s) == IF q.op = "xor" THEN SubsXor(q.qs, f, c, s) ELSE Some(ListOf(q, f, c, s))
SubsXor(qs, f, c, s) == IF qs = <<>> THEN <<>> ELSE SubXor(Head(qs), f, c, s) \o SubsXor(Tail(qs), f, c, s)

(* The postlist_sub_and_like of the classes.                                *)
RECURSIVE SubsAnd(_, _, _, _, _), SubsFilter(_, _, _, _, _)
SubsAnd(ctx, qs, f, c, s) ==
    IF qs = <<>> \/ ctx.dead THEN ctx ELSE SubsAnd(SubAnd(ctx, Head(qs), f, c, s), Tail(qs), f, c, s)
SubsFilter(ctx, qs, f, c, s) ==
    IF qs = <<>> \/ ctx.dead THEN ctx ELSE SubsFilter(SubAnd(ctx, Head(qs), f, c, s), Tail(qs), 0, c, s)

WithNots(ctx, qs, c, s) == [ctx EXCEPT !.nots = @ \o SubsBoolOr(qs, c, s)]
WithMaybes(ctx, qs, f, c, s) == IF f = 0 THEN ctx ELSE [ctx EXCEPT !.maybes = @ \o SubsOr(qs, f, c, FALSE, s)]

HasPositions(s) == \E t \in DOMAIN ix.pos, d \in ShardDocs(s) : ix.pos[t][Unshard(d, s)] # {}
Windowed(ctx, q, f, c, s) ==
    [FoldLeft(LAMBDA acc, t : AndContextAdd(acc, OpenTerm(t, f, c, TRUE, s)),
              [ctx EXCEPT !.dead = @ \/ ~HasPositions(s)], q.ts)
        EXCEPT !.filters = Append(@, [op |-> q.op, ts |-> q.ts, window |-> q.window, s |-> s])]

SubAnd(ctx, q, f, c, s) ==
    CASE q.op = "and" -> SubsAnd(ctx, q.qs, f, c, s)
      [] q.op = "filter" -> SubsFilter(ctx, q.qs, f, c, s)
      [] q.op = "not" -> WithNots(SubAnd(ctx, Head(q.qs), f, c, s), Tail(q.qs), c, s)
      [] q.op = "maybe" -> WithMaybes(SubAnd(ctx, Head(q.qs), f, c, s), Tail(q.qs), f, c, s)
      [] q.op \in {"near", "phrase"} -> Windowed(ctx, q, f, c, s)
      [] q.op = "all" /\ f = 0 /\ ~c -> [ctx EXCEPT !.matchall = TRUE]
      [] OTHER -> AndContextAdd(ctx, ListOf(q, f, c, s))

SynonymOf(p, s) == IF p.k = "none" THEN p ELSE [k |-> "synonym", pl |-> p, s |-> s]

(* postlist() of the classes.                                               *)
ListOf(q, f, c, s) ==
    CASE q.op = "term" -> OpenTerm(q.t, f, c, FALSE, s)
      [] q.op = "all" -> AllLeaf(s)
      [] q.op = "range" -> RangeList(s)
      [] q.op \in {"or", "max", "synonym"} /\ f = 0 -> OrContextList(SubsBoolOr(q.qs, c, s), TRUE)
      [] q.op = "or" /\ f # 0 -> OrContextList(SubsOr(q.qs, f, c, TRUE, s), FALSE)
      [] q.op = "max" /\ f # 0 -> MaxContextList(SubsOr(q.qs, f, c, TRUE, s))
      [] q.op = "synonym" /\ f # 0 -> SynonymOf(OrContextList(SubsBoolOr(q.qs, TRUE, s), TRUE), s)
      [] q.op = "xor" -> XorContextList(SubsXor(q.qs, f, c, s))
      [] OTHER -> AndContextList(SubAnd(AndContext, q, f, c, s), s)
=============================================================================
