------------------------------ MODULE PostLists ------------------------------
(***************************************************************************)
(* The posting lists of the matcher (matcher/*postlist.cc) and the glass    *)
(* leaves under them.  A posting list is a record: k says of which class it *)
(* is, the other fields are its members.  Every operation that moves a list *)
(* takes the least weight the caller can still use and returns              *)
(*   pl       the list that now stands in its place,                        *)
(*   pruned   whether that is another list than before (a non-NULL return), *)
(*   recalc   whether force_recalc() was called on the way,                 *)
(*   valid    what check() says (TRUE from the others),                     *)
(*   odd      which of the deviations of README section 5 happened.         *)
(* Weights are naturals: the weight a term gives a document is its wdf.     *)
(* Documents carry their number in the shard; ix is the index searched.     *)
(***************************************************************************)
EXTENDS Integers, Sequences, FiniteSets, TLC, PositionTests
LOCAL INSTANCE MinHeap
LOCAL INSTANCE FiniteSetsExt
LOCAL INSTANCE SequencesExt

VARIABLE ix  \* [n: shards, size: documents, wdf, val, pos: per document, est]

BigDocid == 1000000
NoPl == [k |-> "none"]

(* unshard() of backends/multi.h.                                           *)
Unshard(d, s) == (d - 1) * ix.n + s + 1

ShardDocs(s) == {d \in 1 .. ix.size : Unshard(d, s) <= ix.size}
Wdf(t, s, d) == ix.wdf[t][Unshard(d, s)]
Post(t, s) == {d \in ShardDocs(s) : Wdf(t, s, d) > 0}
Valued(s) == {d \in ShardDocs(s) : ix.val[Unshard(d, s)] # "none"}
InRange(s) == {d \in ShardDocs(s) : ix.val[Unshard(d, s)] = "in"}

Moved(p) == [pl |-> p, pruned |-> FALSE, recalc |-> FALSE, valid |-> TRUE, odd |-> {}]
Invalid(p) == [Moved(p) EXCEPT !.valid = FALSE]

(* r happened inside: its flags belong to the caller's result too.          *)
Under(a, r) == [a EXCEPT !.recalc = @ \/ r.recalc, !.odd = @ \cup r.odd]
Pruning(a, p) == [a EXCEPT !.pl = p, !.pruned = TRUE, !.recalc = TRUE]

MinNonZero(a, b) == IF a = 0 THEN b ELSE IF b = 0 THEN a ELSE Min({a, b})
-----------------------------------------------------------------------------
(* GlassPostList: before it is started it already shows its first entry.    *)
TermLeaf(t, s, weighted) ==
    [k |-> "term", t |-> t, s |-> s, did |-> Min(Post(t, s)), started |-> FALSE,
     ended |-> FALSE, weighted |-> weighted]

TermAt(p, ds) ==
    Moved(IF ds = {} THEN [p EXCEPT !.started = TRUE, !.ended = TRUE]
                     ELSE [p EXCEPT !.started = TRUE, !.did = Min(ds)])

TermNext(p) == IF p.started
               THEN TermAt(p, {d \in Post(p.t, p.s) : d > p.did})
               ELSE Moved([p EXCEPT !.started = TRUE])

TermSkipTo(p, did) == IF p.ended \/ did <= p.did
                      THEN Moved([p EXCEPT !.started = TRUE])
                      ELSE TermAt(p, {d \in Post(p.t, p.s) : d >= did})

(* ContiguousAllDocsPostList: document 0 is both before and after the rest. *)
AllLeaf(s) == [k |-> "all", s |-> s, did |-> 0, last |-> Cardinality(ShardDocs(s))]

AllNext(p) == Moved([p EXCEPT !.did = IF @ = p.last THEN 0 ELSE @ + 1])

AllSkipTo(p, did) ==
    Moved(IF did > p.did THEN [p EXCEPT !.did = IF did > p.last THEN 0 ELSE did] ELSE p)

(* ValueRangePostList over the slot's value list, which is one chunk here:  *)
(* inside says that the reader stands on an entry; did stays what the reader *)
(* last showed.                                                             *)
RangeLeaf(s) == [k |-> "range", s |-> s, did |-> 0, open |-> FALSE, inside |-> FALSE, ended |-> FALSE]

RangeFrom(p, ds) ==
    Moved(IF ds = {} THEN [p EXCEPT !.open = TRUE, !.inside = FALSE, !.ended = TRUE]
                     ELSE [p EXCEPT !.open = TRUE, !.inside = TRUE, !.did = Min(ds)])

(* next() after a check() that came back invalid is nothing the matcher does. *)
RangeNext(p) ==
    [RangeFrom(p, {d \in InRange(p.s) : p.inside => d > p.did})
        EXCEPT !.odd = IF p.open /\ ~p.inside THEN {"next after check"} ELSE {}]

RangeSkipTo(p, did) ==
    RangeFrom(p, {d \in InRange(p.s) : d >= did /\ (p.inside => d >= p.did)})

RangeCheckAt(p, ds) ==
    IF ds = {} THEN Invalid([p EXCEPT !.open = TRUE, !.inside = FALSE])
    ELSE [Moved([p EXCEPT !.open = TRUE, !.inside = TRUE, !.did = Min(ds)])
            EXCEPT !.valid = Min(ds) \in InRange(p.s)]

RangeCheck(p, did) ==
    IF ~p.inside /\ did < Min(Valued(p.s))
    THEN Invalid([p EXCEPT !.open = TRUE])
    ELSE RangeCheckAt(p, {d \in Valued(p.s) : d >= did /\ (p.inside => d >= p.did)})
-----------------------------------------------------------------------------
(* BoolOrPostList::for_all_matches: a walk over the entries of the heap     *)
(* that stand at its document - right child, left child, left sibling, or   *)
(* up past all left branches.  Indices are the code's (from 0); the walk    *)
(* returns the entries it visits.                                           *)
RECURSIVE Ascend(_), Walk(_, _, _), TryLeft(_, _, _)
Ascend(i) == IF i % 2 = 0 THEN Ascend(i \div 2) ELSE i

At(h, did, i) == i < Len(h) /\ h[i + 1].key = did

Walk(h, did, i) ==
    <<i + 1>> \o (IF At(h, did, 2 * i + 2) THEN Walk(h, did, 2 * i + 2)
                  ELSE IF At(h, did, 2 * i + 1) THEN Walk(h, did, 2 * i + 1)
                  ELSE TryLeft(h, did, i))

TryLeft(h, did, i) ==
    IF i < 2 THEN <<>>
    ELSE IF i % 2 = 0 /\ At(h, did, i - 1) THEN Walk(h, did, i - 1)
    ELSE TryLeft(h, did, Ascend((i + 1) \div 2) - 1)
-----------------------------------------------------------------------------
(* What every class answers about its position.                             *)
RECURSIVE Docid(_), AtEnd(_), Weight(_), WdfOf(_)

Docid(p) ==
    CASE p.k = "or" -> MinNonZero(p.ldid, p.rdid)
      [] p.k = "maybe" -> p.pdid
      [] p.k \in {"not", "select", "synonym"} -> Docid(p.pl)
      [] OTHER -> p.did

AtEnd(p) ==
    CASE p.k \in {"term", "range"} -> p.ended
      [] p.k \in {"all", "and", "xor", "max"} -> p.did = 0
      [] p.k \in {"or", "boolor"} -> FALSE
      [] p.k = "select" -> p.gone
      [] OTHER -> AtEnd(p.pl)

Sum(ps, W(_)) == FoldLeft(LAMBDA acc, p : acc + W(p), 0, ps)
Here(p) == SelectSeq(p.pls, LAMBDA c : Docid(c) = p.did)

(* get_wdf(), as far as a synonym needs it: its lists carry no weight.      *)
WdfOf(p) ==
    CASE p.k = "term" -> Wdf(p.t, p.s, p.did)
      [] p.k = "all" -> 1
      [] p.k = "boolor" -> Sum(Walk(p.heap, p.did, 0), LAMBDA i : WdfOf(p.heap[i].pl))
      [] p.k = "and" -> Sum(p.pls, WdfOf)
      [] OTHER -> WdfOf(p.pl)


(* OrPostList::get_weight: whichever side has 0 is no part of the match.    *)
OrWeight(p) ==
    IF p.rdid = 0 \/ p.ldid < p.rdid THEN Weight(p.l)
    ELSE IF p.ldid = 0 \/ p.ldid > p.rdid THEN Weight(p.r)
    ELSE Weight(p.l) + Weight(p.r)

Weight(p) ==
    CASE p.k = "term" -> IF p.weighted THEN Wdf(p.t, p.s, p.did) ELSE 0
      [] p.k \in {"all", "range", "boolor"} -> 0
      [] p.k = "or" -> OrWeight(p)
      [] p.k = "and" -> Sum(p.pls, Weight)
      [] p.k = "xor" -> Sum(Here(p), Weight)
      [] p.k = "max" -> Max({0} \cup {Weight(Here(p)[i]) : i \in DOMAIN Here(p)})
      [] p.k = "maybe" -> Weight(p.pl) + (IF p.pdid = p.rdid THEN Weight(p.r) ELSE 0)
      [] p.k = "select" -> IF p.cached >= 0 THEN p.cached ELSE Weight(p.pl)
      [] p.k = "synonym" -> WdfOf(p.pl)
      [] p.k = "not" -> Weight(p.pl)

(* recalc_maxweight(): the list with its cached maxima renewed, and the     *)
(* maximum itself in field max.                                             *)
TermMax(p) == IF p.weighted THEN Max({Wdf(p.t, p.s, d) : d \in Post(p.t, p.s)}) ELSE 0
(* Weight::init_ for a synonym: no wdf is taken to exceed a document length. *)
Doclength(s, d) == FoldSet(LAMBDA t, n : n + Wdf(t, s, d), 0, DOMAIN ix.wdf)
SynonymMax(p) == Max({Doclength(p.s, d) : d \in ShardDocs(p.s)})

RECURSIVE Recalc(_)
OrRecalc(p, l, r) == [pl |-> [p EXCEPT !.l = l.pl, !.r = r.pl, !.lmax = l.max, !.rmax = r.max],
                      max |-> l.max + r.max]
MaybeRecalc(p, l, r) == [pl |-> [p EXCEPT !.pl = l.pl, !.r = r.pl, !.pmax = l.max, !.rmax = r.max],
                         max |-> l.max + r.max]
WrapRecalc(p, l) == [pl |-> [p EXCEPT !.pl = l.pl], max |-> l.max]
Lists(rs) == <<>> \o [i \in DOMAIN rs |-> rs[i].pl]
KidsRecalc(p, rs, m) == [pl |-> [p EXCEPT !.pls = Lists(rs)], max |-> m]
AndRecalc(p, rs, m) ==
    KidsRecalc([p EXCEPT !.maxs = <<>> \o [i \in DOMAIN rs |-> rs[i].max], !.total = m], rs, m)
MaxSum(rs) == Sum(rs, LAMBDA r : r.max)
Maxima(rs) == {rs[i].max : i \in DOMAIN rs}
XorMax(rs) == MaxSum(rs) - (IF Len(rs) % 2 = 0 THEN Min(Maxima(rs)) ELSE 0)
RecalcEach(ps) == <<>> \o [i \in DOMAIN ps |-> Recalc(ps[i])]

Recalc(p) ==
    CASE p.k = "term" -> [pl |-> p, max |-> TermMax(p)]
      [] p.k = "synonym" -> [pl |-> p, max |-> SynonymMax(p)]
      [] p.k \in {"all", "range", "boolor"} -> [pl |-> p, max |-> 0]
      [] p.k = "or" -> OrRecalc(p, Recalc(p.l), Recalc(p.r))
      [] p.k = "maybe" -> MaybeRecalc(p, Recalc(p.pl), Recalc(p.r))
      [] p.k = "and" -> CHOOSE x \in {AndRecalc(p, rs, MaxSum(rs)) : rs \in {RecalcEach(p.pls)}} : TRUE
      [] p.k = "xor" -> CHOOSE x \in {KidsRecalc(p, rs, XorMax(rs)) : rs \in {RecalcEach(p.pls)}} : TRUE
      [] p.k = "max" -> CHOOSE x \in {KidsRecalc(p, rs, Max(Maxima(rs))) : rs \in {RecalcEach(p.pls)}} : TRUE
      [] p.k \in {"not", "select"} -> WrapRecalc(p, Recalc(p.pl))
-----------------------------------------------------------------------------
(* next(), skip_to() and check(), as the class of p has them.               *)
RECURSIVE Move(_, _, _, _)
PlNext(p, w) == Move("next", p, 0, w)
SkipTo(p, did, w) == Move("skip_to", p, did, w)
Check(p, did, w) == Move("check", p, did, w)

MoveTo(p, did, w, chk) == IF chk THEN Check(p, did, w) ELSE SkipTo(p, did, w)

(* get_termfreq(): of a term what the index says, of all else an estimate,  *)
(* here any number: ix.est.                                                 *)
Termfreq(p) == IF p.k = "term" THEN Cardinality(Post(p.t, p.s)) ELSE ix.est

(* AndPostList as the decay product of two lists: the rarer one goes first. *)
AndPair(l, r, lmax, rmax) ==
    [k |-> "and", did |-> 0, total |-> lmax + rmax,
     pls |-> IF Termfreq(l) < Termfreq(r) THEN <<l, r>> ELSE <<r, l>>,
     maxs |-> IF Termfreq(l) < Termfreq(r) THEN <<lmax, rmax>> ELSE <<rmax, lmax>>]

MaybeOf(l, r, lmax, rmax) ==
    [k |-> "maybe", pl |-> l, r |-> r, pdid |-> 0, rdid |-> 0, pmax |-> lmax, rmax |-> rmax]

Decayed(res) == [res EXCEPT !.pruned = TRUE, !.recalc = TRUE]

OrToAnd(p, did, w, chk) == Decayed(MoveTo(AndPair(p.l, p.r, p.lmax, p.rmax), did, w, chk))
OrToMaybe(p, left, did, w, chk) ==
    Decayed(MoveTo(IF left THEN MaybeOf(p.l, p.r, p.lmax, p.rmax)
                           ELSE MaybeOf(p.r, p.l, p.rmax, p.lmax), did, w, chk))

(* Docids are unsigned: 0 - 1 is the largest.                               *)
Before(d) == IF d = 0 THEN BigDocid ELSE d - 1

AndFromPast(p) == Max({p.ldid, p.rdid}) + 1

(* The least document the AND could match at after the OR matched.          *)
AndFrom(p) ==
    IF p.ldid = p.rdid \/ p.rdid = 0 THEN p.ldid + 1
    ELSE IF p.ldid = 0 THEN p.rdid + 1
    ELSE Max({p.ldid, p.rdid})

MaybeFromSame(adid, bdid) == IF adid = 0 THEN bdid + 1 ELSE adid

(* ... and the one that "a AND_MAYBE b" could match at.                     *)
MaybeFrom(adid, bdid) ==
    IF adid = 0 THEN bdid + 1
    ELSE IF Before(bdid) >= Before(adid) THEN adid + 1
    ELSE adid

(* The tail of OrPostList::next and skip_to: L and R are what the sides     *)
(* answered (the unmoved side: Moved of itself).                            *)
OrStep(p, al, ar, L, R) ==
    Under(Under(
        IF al /\ AtEnd(L.pl) THEN Pruning(Moved(p), R.pl)
        ELSE IF ar /\ AtEnd(R.pl) THEN Pruning(Moved(p), L.pl)
        ELSE Moved([p EXCEPT !.l = L.pl, !.r = R.pl,
                             !.ldid = IF al THEN Docid(L.pl) ELSE @,
                             !.rdid = IF ar THEN Docid(R.pl) ELSE @]), L), R)

OrNext(p, w) ==
    IF w > p.lmax /\ w > p.rmax THEN OrToAnd(p, AndFrom(p), w, FALSE)
    ELSE IF w > p.lmax THEN OrToMaybe(p, FALSE, MaybeFrom(p.rdid, p.ldid), w, FALSE)
    ELSE IF w > p.rmax THEN OrToMaybe(p, TRUE, MaybeFrom(p.ldid, p.rdid), w, FALSE)
    ELSE OrStep(p, p.ldid <= p.rdid, p.ldid >= p.rdid,
                IF p.ldid <= p.rdid THEN PlNext(p.l, w - p.rmax) ELSE Moved(p.l),
                IF p.ldid >= p.rdid THEN PlNext(p.r, w - p.lmax) ELSE Moved(p.r))

OrSkipTo(p, did, w) ==
    IF did <= p.ldid /\ did <= p.rdid THEN Moved(p)
    ELSE IF w > p.lmax /\ w > p.rmax THEN OrToAnd(p, did, w, FALSE)
    ELSE IF w > p.lmax THEN OrToMaybe(p, FALSE, did, w, FALSE)
    ELSE IF w > p.rmax THEN OrToMaybe(p, TRUE, did, w, FALSE)
    ELSE OrStep(p, did > p.ldid, did > p.rdid,
                IF did > p.ldid THEN SkipTo(p.l, did, w - p.rmax) ELSE Moved(p.l),
                IF did > p.rdid THEN SkipTo(p.r, did, w - p.lmax) ELSE Moved(p.r))

(* A side whose check() came back invalid has docid 0 until it is moved     *)
(* again.  Two deviations: a side left over with docid 0 is returned as     *)
(* valid, and get_weight() asks the left side even when its docid is 0.     *)
OrJudge(p, did) ==
    IF p.ldid = did \/ p.rdid = did \/ (p.ldid # 0 /\ p.rdid # 0)
    THEN [Moved(p) EXCEPT !.odd = IF p.ldid = 0 /\ OrWeight(p) # Weight(p.r) THEN {"left weight"} ELSE {}]
    ELSE Invalid(p)

OrLeave(p, other, invalid) ==
    [Pruning(Moved(p), other) EXCEPT !.odd = IF invalid THEN {"invalid side"} ELSE {}]

OrChecked(p, did, al, ar) ==
    IF al /\ AtEnd(p.l) THEN OrLeave(p, p.r, ~ar /\ did > p.rdid)
    ELSE IF ar /\ AtEnd(p.r) THEN OrLeave(p, p.l, ~al /\ did > p.ldid)
    ELSE OrJudge([p EXCEPT !.ldid = IF al THEN Docid(p.l) ELSE @,
                           !.rdid = IF ar THEN Docid(p.r) ELSE @], did)

OrCheckStep(p, did, al, ar, L, R) ==
    Under(Under(OrChecked([p EXCEPT !.l = L.pl, !.r = R.pl,
                                    !.ldid = IF al /\ ~(L.pruned \/ L.valid) THEN 0 ELSE @,
                                    !.rdid = IF ar /\ ~(R.pruned \/ R.valid) THEN 0 ELSE @],
                          did, al /\ (L.pruned \/ L.valid), ar /\ (R.pruned \/ R.valid)), L), R)

OrCheck(p, did, w) ==
    IF did <= p.ldid /\ did <= p.rdid THEN Moved(p)
    ELSE IF w > p.lmax /\ w > p.rmax THEN OrToAnd(p, did, w, TRUE)
    ELSE IF w > p.lmax THEN OrToMaybe(p, FALSE, did, w, TRUE)
    ELSE IF w > p.rmax THEN OrToMaybe(p, TRUE, did, w, TRUE)
    ELSE OrCheckStep(p, did, did > p.ldid, did > p.rdid,
                     IF did > p.ldid THEN Check(p.l, did, w - p.rmax) ELSE Moved(p.l),
                     IF did > p.rdid THEN Check(p.r, did, w - p.lmax) ELSE Moved(p.r))
-----------------------------------------------------------------------------
(* AndPostList: the least weight kid i must bring is what the others cannot. *)
NewMin(p, i, w) == w - (p.total - p.maxs[i])

(* next_helper, skip_to_helper, check_helper: R is what kid i answered.     *)
AndWith(a, i, R) ==
    Under([a EXCEPT !.pl.pls[i] = R.pl,
                    !.recalc = @ \/ (R.pruned /\ a.pl.maxs[i] > 0)], R)

(* find_next_match: kids 2, 3, ... are asked for the document of the first  *)
(* one; agreed is the last that has it.  When one has not, the first moves  *)
(* on and the search begins again.                                          *)
RECURSIVE AndAgree(_, _, _)
AndJudge(a, i, w, valid) ==
    IF ~valid THEN Under(PlNext(a.pl, w), a)
    ELSE IF AtEnd(a.pl.pls[i]) THEN [a EXCEPT !.pl.did = 0]
    ELSE IF Docid(a.pl.pls[i]) # a.pl.did THEN Under(SkipTo(a.pl, Docid(a.pl.pls[i]), w), a)
    ELSE AndAgree(a, i, w)

AndChecked(a, i, w, R) == AndJudge(AndWith(a, i, R), i, w, R.valid)

AndAgree(a, agreed, w) ==
    IF agreed = Len(a.pl.pls) THEN a
    ELSE AndChecked(a, agreed + 1, w, Check(a.pl.pls[agreed + 1], a.pl.did, NewMin(a.pl, agreed + 1, w)))

AndFind(a, w) ==
    IF AtEnd(a.pl.pls[1]) THEN [a EXCEPT !.pl.did = 0]
    ELSE AndAgree([a EXCEPT !.pl.did = Docid(a.pl.pls[1])], 1, w)

AndNext(p, w) == AndFind(AndWith(Moved(p), 1, PlNext(p.pls[1], NewMin(p, 1, w))), w)
AndSkipTo(p, did, w) == AndFind(AndWith(Moved(p), 1, SkipTo(p.pls[1], did, NewMin(p, 1, w))), w)
-----------------------------------------------------------------------------
(* AndMaybePostList                                                         *)
MaybeToAnd(p, did, w, chk) == Decayed(MoveTo(AndPair(p.pl, p.r, p.pmax, p.rmax), did, w, chk))

MaybeChecked(p, R) ==
    Under(IF ~R.valid THEN Moved([p EXCEPT !.r = R.pl])
          ELSE IF AtEnd(R.pl) THEN Pruning(Moved(p), p.pl)
          ELSE Moved([p EXCEPT !.r = R.pl, !.rdid = Docid(R.pl)]), R)

MaybeRight(p, wr) ==
    IF p.pdid > p.rdid THEN MaybeChecked(p, Check(p.r, p.pdid, wr)) ELSE Moved(p)

MaybeStep(p, wr, L) ==
    Under(IF ~L.valid THEN Invalid([p EXCEPT !.pl = L.pl])
          ELSE IF AtEnd(L.pl) THEN Pruning(Moved(p), L.pl)
          ELSE MaybeRight([p EXCEPT !.pl = L.pl, !.pdid = Docid(L.pl)], wr), L)

(* The AND is asked for what lies past the greater docid, though r may      *)
(* stand on a document of pl.                                               *)
MaybeNext(p, w) ==
    IF w > p.pmax
    THEN Under(MaybeToAnd(p, Max({p.pdid, p.rdid}) + 1, w, FALSE),
               [Moved(p) EXCEPT !.odd = IF p.rdid > p.pdid THEN {"past the right side"} ELSE {}])
    ELSE MaybeStep(p, w - p.pmax, PlNext(p.pl, w - p.rmax))

MaybeSkipTo(p, did, w) ==
    IF did < p.pdid THEN Moved(p)
    ELSE IF w > p.pmax THEN MaybeToAnd(p, Max({did, p.rdid}), w, FALSE)
    ELSE MaybeStep(p, 0, SkipTo(p.pl, did, w - p.rmax))

MaybeCheck(p, did, w) ==
    IF w > p.pmax THEN MaybeToAnd(p, Max({did, p.pdid, p.rdid}), w, TRUE)
    ELSE MaybeStep(p, 0, Check(p.pl, did, w - p.rmax))
-----------------------------------------------------------------------------
(* AndNotPostList: no force_recalc() when it gives way to its left side.    *)
Left(p) == [Moved(p) EXCEPT !.pruned = TRUE]

RECURSIVE Unstarted(_)
Unstarted(p) ==
    CASE p.k = "term" -> ~p.started
      [] p.k = "range" -> ~p.open
      [] p.k \in {"not", "select", "synonym"} -> Unstarted(p.pl)
      [] OTHER -> FALSE

NotEqual(p, ldid, w, chk) ==
    IF ldid # p.rdid THEN Moved(p) ELSE IF chk THEN Invalid(p) ELSE PlNext(p, w)

NotChecked(p, ldid, w, chk, R) ==
    Under(IF ~R.valid THEN Moved([p EXCEPT !.r = R.pl])
          ELSE IF AtEnd(R.pl) THEN Left(p.pl)
          ELSE NotEqual([p EXCEPT !.r = R.pl, !.rdid = Docid(R.pl)], ldid, w, chk), R)

NotRight(p, ldid, w, chk) ==
    IF ldid > p.rdid THEN NotChecked(p, ldid, w, chk, Check(p.r, ldid, 0))
                     ELSE NotEqual(p, ldid, w, chk)

NotStep(p, w, chk, L) ==
    Under(IF ~L.valid THEN Invalid([p EXCEPT !.pl = L.pl])
          ELSE IF AtEnd(L.pl) THEN Left(L.pl)
          ELSE NotRight([p EXCEPT !.pl = L.pl], Docid(L.pl), w, chk), L)

NotNext(p, w) == NotStep(p, w, FALSE, PlNext(p.pl, w))
NotCheck(p, did, w) == NotStep(p, w, TRUE, Check(p.pl, did, w))

(* Where the left side has not been started its position says nothing yet:  *)
(* a term shows its first document, a value range has no position at all.   *)
NotSkipTo(p, did, w) ==
    Under(IF did > Docid(p.pl) THEN NotStep(p, w, FALSE, SkipTo(p.pl, did, w)) ELSE Moved(p),
          [Moved(p) EXCEPT !.odd = IF Unstarted(p.pl) /\ (did <= Docid(p.pl) \/ Docid(p.pl) = 0)
                                     THEN {"unstarted"} ELSE {}])
-----------------------------------------------------------------------------
(* XorPostList and MaxPostList move every kid that lags and drop those that *)
(* end; rs is what the kids answered.                                       *)
Alive(rs) == SelectSeq(rs, LAMBDA r : ~AtEnd(r.pl))
Docids(ps) == {Docid(ps[i]) : i \in DOMAIN ps}

KidsMoved(p, rs, kids) ==
    [Moved([p EXCEPT !.pls = kids, !.did = IF kids = <<>> THEN 0 ELSE Min(Docids(kids))])
        EXCEPT !.recalc = \E i \in DOMAIN rs : rs[i].recalc \/ rs[i].pruned \/ AtEnd(rs[i].pl),
               !.odd = UNION {rs[i].odd : i \in DOMAIN rs}]

OnlyKid(a) == [a EXCEPT !.pl = a.pl.pls[1], !.pruned = TRUE]

XorSettle(a) ==
    IF Len(a.pl.pls) = 1 THEN OnlyKid(a)
    ELSE IF a.pl.did = 0 \/ Len(Here(a.pl)) % 2 = 1 THEN a
    ELSE Under(PlNext(a.pl, 0), a)

XorStep(p, rs) == XorSettle(KidsMoved(p, rs, Lists(Alive(rs))))

XorNext(p) ==
    XorStep(p, <<>> \o [i \in DOMAIN p.pls |-> IF p.did = 0 \/ Docid(p.pls[i]) <= p.did
                                       THEN PlNext(p.pls[i], 0) ELSE Moved(p.pls[i])])

XorSkipTo(p, did) ==
    XorStep(p, <<>> \o [i \in DOMAIN p.pls |-> IF p.did = 0 \/ Docid(p.pls[i]) < did
                                       THEN SkipTo(p.pls[i], did, 0) ELSE Moved(p.pls[i])])

MaxSettle(a) == IF Len(a.pl.pls) = 1 THEN OnlyKid(a) ELSE a
MaxStep(p, rs) == MaxSettle(KidsMoved(p, rs, Lists(Alive(rs))))

MaxNext(p, w) ==
    MaxStep(p, <<>> \o [i \in DOMAIN p.pls |->
                    IF p.did = 0 \/ Docid(p.pls[i]) = p.did THEN PlNext(p.pls[i], w)
                    ELSE IF Docid(p.pls[i]) < p.did THEN SkipTo(p.pls[i], p.did + 1, w)
                    ELSE Moved(p.pls[i])])

MaxSkipTo(p, did, w) ==
    MaxStep(p, <<>> \o [i \in DOMAIN p.pls |-> IF p.did = 0 \/ Docid(p.pls[i]) < did
                                       THEN SkipTo(p.pls[i], did, w) ELSE Moved(p.pls[i])])
-----------------------------------------------------------------------------
(* BoolOrPostList: a heap of kids by the docid each was last seen at.       *)
BoolOrAdvanced(p, R) ==
    Under(IF ~AtEnd(R.pl)
          THEN PlNext([p EXCEPT !.heap = Replace(<<[pl |-> R.pl, key |-> Docid(R.pl)]>> \o Tail(@), Len(@))], 0)
          ELSE IF Len(p.heap) = 1 THEN [Moved(R.pl) EXCEPT !.pruned = TRUE]
          ELSE PlNext([p EXCEPT !.heap = Front(Pop(@, Len(@)))], 0), R)

BoolOrNext(p) ==
    IF p.heap[1].key = p.did THEN BoolOrAdvanced(p, PlNext(p.heap[1].pl, 0))
    ELSE IF Len(p.heap) = 1 THEN [Moved(p.heap[1].pl) EXCEPT !.pruned = TRUE]
    ELSE Moved([p EXCEPT !.did = p.heap[1].key])

BoolOrKept(p, rs, h) ==
    [(IF h = <<>> THEN [Moved(Last(rs).pl) EXCEPT !.pruned = TRUE]
      ELSE IF Len(h) = 1 THEN [Moved(h[1].pl) EXCEPT !.pruned = TRUE]
      ELSE Moved([p EXCEPT !.heap = Make(h, Len(h)), !.did = Min({h[i].key : i \in DOMAIN h})]))
        EXCEPT !.recalc = \E i \in DOMAIN rs : rs[i].recalc,
               !.odd = UNION {rs[i].odd : i \in DOMAIN rs}]

BoolOrStep(p, rs) ==
    BoolOrKept(p, rs, <<>> \o [i \in DOMAIN Alive(rs) |-> [pl |-> Alive(rs)[i].pl, key |-> Docid(Alive(rs)[i].pl)]])

BoolOrSkipTo(p, did) ==
    IF did <= p.did THEN Moved(p)
    ELSE BoolOrStep(p, <<>> \o [i \in DOMAIN p.heap |-> IF p.heap[i].key < did
                                                THEN SkipTo(p.heap[i].pl, did, 0) ELSE Moved(p.heap[i].pl)])
-----------------------------------------------------------------------------
(* SelectPostList with the tests of the positional lists; a SynonymPostList *)
(* moves its list without a least weight.                                   *)
Positions(test, did) == [i \in DOMAIN test.ts |-> ix.pos[test.ts[i]][Unshard(did, test.s)]]
Wdfs(test, did) == [i \in DOMAIN test.ts |-> Wdf(test.ts[i], test.s, did)]

TestDoc(test, did) ==
    CASE test.op = "near" -> NearTest(Positions(test, did), Wdfs(test, did), test.window)
      [] test.op = "phrase" /\ test.window # Len(test.ts) -> PhraseTest(Positions(test, did), test.window)
      [] OTHER -> ExactTest(Positions(test, did), Wdfs(test, did))

(* NEAR may pass over a document whose terms share a position.              *)
NearMissed(test, did) ==
    IF test.op = "near" /\ ~TestDoc(test, did) /\ IsNear(Positions(test, did), test.window)
    THEN {"shared position"} ELSE {}

Tested(p) == [Moved(p) EXCEPT !.valid = TestDoc(p.test, Docid(p.pl)),
                              !.odd = NearMissed(p.test, Docid(p.pl))]

(* vet(): an exhausted list passes.                                         *)
Vetted(p, w) ==
    IF AtEnd(p.pl) THEN Moved([p EXCEPT !.gone = TRUE])
    ELSE IF w <= 0 THEN Tested([p EXCEPT !.cached = -1])
    ELSE IF Weight(p.pl) < w THEN Invalid([p EXCEPT !.cached = Weight(p.pl)])
    ELSE Tested([p EXCEPT !.cached = Weight(p.pl)])

SelectElse(v, w) == IF v.valid THEN v ELSE Under(PlNext(v.pl, w), v)
SelectStep(p, w, L) == Under(SelectElse(Vetted([p EXCEPT !.pl = L.pl], w), w), L)
SelectNext(p, w) == SelectStep(p, w, PlNext(p.pl, w))
SelectSkipTo(p, did, w) ==
    IF did > Docid(p.pl) THEN SelectStep(p, w, SkipTo(p.pl, did, w)) ELSE Moved(p)
SelectChecked(p, w, L) ==
    Under(IF L.valid THEN Vetted([p EXCEPT !.pl = L.pl], w) ELSE Invalid([p EXCEPT !.pl = L.pl]), L)
SelectCheck(p, did, w) == SelectChecked(p, w, Check(p.pl, did, w))

WrapperStep(p, L) == Under(Moved([p EXCEPT !.pl = L.pl]), L)
-----------------------------------------------------------------------------
(* PostList::check is skip_to unless a class has its own.                   *)
MoveLeaf(how, p, did) ==
    CASE p.k = "term" -> IF how = "next" THEN TermNext(p) ELSE TermSkipTo(p, did)
      [] p.k = "all" -> IF how = "next" THEN AllNext(p) ELSE AllSkipTo(p, did)
      [] p.k = "range" /\ how = "next" -> RangeNext(p)
      [] p.k = "range" /\ how = "skip_to" -> RangeSkipTo(p, did)
      [] p.k = "range" /\ how = "check" -> RangeCheck(p, did)

Move(how, p, did, w) ==
    CASE p.k \in {"term", "all", "range"} -> MoveLeaf(how, p, did)
      [] p.k = "or" /\ how = "next" -> OrNext(p, w)
      [] p.k = "or" /\ how = "skip_to" -> OrSkipTo(p, did, w)
      [] p.k = "or" /\ how = "check" -> OrCheck(p, did, w)
      [] p.k = "and" -> IF how = "next" THEN AndNext(p, w) ELSE AndSkipTo(p, did, w)
      [] p.k = "maybe" /\ how = "next" -> MaybeNext(p, w)
      [] p.k = "maybe" /\ how = "skip_to" -> MaybeSkipTo(p, did, w)
      [] p.k = "maybe" /\ how = "check" -> MaybeCheck(p, did, w)
      [] p.k = "not" /\ how = "next" -> NotNext(p, w)
      [] p.k = "not" /\ how = "skip_to" -> NotSkipTo(p, did, w)
      [] p.k = "not" /\ how = "check" -> NotCheck(p, did, w)
      [] p.k = "xor" -> IF how = "next" THEN XorNext(p) ELSE XorSkipTo(p, did)
      [] p.k = "max" -> IF how = "next" THEN MaxNext(p, w) ELSE MaxSkipTo(p, did, w)
      [] p.k = "boolor" -> IF how = "next" THEN BoolOrNext(p) ELSE BoolOrSkipTo(p, did)
      [] p.k = "select" /\ how = "next" -> SelectNext(p, w)
      [] p.k = "select" /\ how = "skip_to" -> SelectSkipTo(p, did, w)
      [] p.k = "select" /\ how = "check" -> SelectCheck(p, did, w)
      [] p.k = "synonym" -> WrapperStep(p, Move(IF how = "next" THEN how ELSE "skip_to", p.pl, did, 0))
=============================================================================
