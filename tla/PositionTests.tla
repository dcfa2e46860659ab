---------------------------- MODULE PositionTests ----------------------------
(***************************************************************************)
(* test_doc() of NearPostList, PhrasePostList and ExactPhrasePostList: does *)
(* a document that holds all the terms hold them near each other, or in     *)
(* order?  pos[i] is the set of positions of the i-th term of the query,    *)
(* wdf[i] its within-document frequency, which need not be the number of    *)
(* its positions.  A position list is known by where it stands.             *)
(***************************************************************************)
EXTENDS Integers, Sequences, FiniteSets, TLC
LOCAL INSTANCE MinHeap
LOCAL INSTANCE FiniteSetsExt

AtLeast(ps, x) == {p \in ps : p >= x}

(* sort() of the terms by wdf.                                              *)
ByWdf(wdf) == SortSeq([i \in DOMAIN wdf |-> i],
                      LAMBDA a, b : wdf[a] < wdf[b] \/ (wdf[a] = wdf[b] /\ a < b))
-----------------------------------------------------------------------------
(* NearPostList::test_doc, the outer loop.  h holds the started lists, each *)
(* with its position as key; ord is the order in which they are started.    *)
RECURSIVE NearLoop(_, _, _, _, _), NearSplit(_, _, _, _, _, _)
NearLoop(pos, ord, w, h, last) ==
    IF last - h[1].key < w
    THEN IF Len(h) # Len(ord)
         THEN LET i == ord[Len(h) + 1]
                  ps == IF last < w THEN pos[i] ELSE AtLeast(pos[i], last - w + 1)
              IN /\ ps # {}
                 /\ NearLoop(pos, ord, w,
                             Push(Append(h, [key |-> Min(ps), i |-> i]), Len(h) + 1),
                             Max({last, Min(ps)}))
         ELSE NearSplit(pos, ord, w, Pop(h, Len(h)), Len(h) - 1, h[1].key)
    ELSE LET ps == AtLeast(pos[h[1].i], last - w + 1)
         IN /\ ps # {}
            /\ NearLoop(pos, ord, w, Replace([h EXCEPT ![1].key = Min(ps)], Len(h)),
                        Max({last, Min(ps)}))

(* Its inner loop: the lists leave the heap (now of length n) in the order  *)
(* of their positions; one that stands where the last to leave stood is     *)
(* advanced.  The first to leave is at the far end of h.                    *)
NearSplit(pos, ord, w, h, n, p) ==
    IF h[1].key = p
    THEN LET ps == AtLeast(pos[h[1].i], p + 1)
         IN /\ ps # {}
            /\ IF Min(ps) - h[Len(h)].key >= w
               THEN NearLoop(pos, ord, w, Make([h EXCEPT ![1].key = Min(ps)], Len(h)), Min(ps))
               ELSE NearSplit(pos, ord, w, Replace([h EXCEPT ![1].key = Min(ps)], n), n, p)
    ELSE n = 1 \/ NearSplit(pos, ord, w, Pop(h, n), n - 1, h[1].key)

NearFrom(pos, ord, w) ==
    /\ pos[ord[1]] # {}
    /\ NearLoop(pos, ord, w, <<[key |-> Min(pos[ord[1]]), i |-> ord[1]]>>, Min(pos[ord[1]]))

NearTest(pos, wdf, w) == NearFrom(pos, ByWdf(wdf), w)
-----------------------------------------------------------------------------
(* PhrasePostList::test_doc.  at[i] is where list i stands (-1: not read).  *)
RECURSIVE PhraseTry(_, _, _, _, _)
PhraseTry(pos, w, at, i, p) ==
    IF i > Len(pos) THEN TRUE
    ELSE LET ps == AtLeast(pos[i], Max({p + 1, at[i]}))
             q == Min(ps)
             b == q + (Len(pos) - (i - 1))
             fs == AtLeast(pos[1], Max({b - w, at[1]}))
         IN /\ ps # {}
            /\ IF b - at[1] <= w
               THEN PhraseTry(pos, w, [at EXCEPT ![i] = q], i + 1, q)
               ELSE /\ fs # {}
                    /\ PhraseTry(pos, w, [at EXCEPT ![i] = q, ![1] = Min(fs)], 2, Min(fs))

PhraseTest(pos, w) ==
    /\ pos[1] # {}
    /\ PhraseTry(pos, w, [i \in DOMAIN pos |-> IF i = 1 THEN Min(pos[1]) ELSE -1], 2, Min(pos[1]))
-----------------------------------------------------------------------------
(* ExactPhrasePostList::test_doc.  ord lists the terms from the rarest, the *)
(* first two changing place when the second has fewer positions; the offset *)
(* of term i in the phrase is i - 1.                                        *)
RECURSIVE ExactTry(_, _, _, _, _)
ExactTry(pos, ord, at, base, j) ==
    LET i == ord[j]
        need == base + (i - 1)
        ps == AtLeast(pos[i], Max({need, at[i]}))
        fs == AtLeast(pos[ord[1]], Max({Min(ps) - (i - 1) + (ord[1] - 1), at[ord[1]]}))
    IN /\ ps # {}
       /\ IF Min(ps) = need
          THEN j = Len(ord) \/ ExactTry(pos, ord, [at EXCEPT ![i] = need], base, j + 1)
          ELSE /\ fs # {}
               /\ ExactTry(pos, ord, [at EXCEPT ![i] = Min(ps), ![ord[1]] = Min(fs)],
                           Min(fs) - (ord[1] - 1), 2)

ExactFrom(pos, ord) ==
    LET ps == AtLeast(pos[ord[1]], ord[1] - 1)
    IN /\ ps # {}
       /\ ExactTry(pos, ord, [i \in DOMAIN pos |-> IF i = ord[1] THEN Min(ps) ELSE -1],
                   Min(ps) - (ord[1] - 1), 2)

ExactOrder(pos, ord) ==
    IF Cardinality(pos[ord[1]]) > Cardinality(pos[ord[2]])
    THEN [ord EXCEPT ![1] = ord[2], ![2] = ord[1]]
    ELSE ord

ExactTest(pos, wdf) ==
    /\ AtLeast(pos[ByWdf(wdf)[1]], ByWdf(wdf)[1] - 1) # {}
    /\ ExactFrom(pos, ExactOrder(pos, ByWdf(wdf)))
-----------------------------------------------------------------------------
(* What the operators promise (include/xapian/query.h): one position for    *)
(* each subquery, within the window - and in the subqueries' order.         *)
Readings(pos) == {f \in [DOMAIN pos -> UNION {pos[i] : i \in DOMAIN pos}] :
                    \A i \in DOMAIN pos : f[i] \in pos[i]}

Within(f, w) == \A i, j \in DOMAIN f : f[i] - f[j] < w

IsNear(pos, w) == \E f \in Readings(pos) :
    Within(f, w) /\ \A i, j \in DOMAIN f : i # j => f[i] # f[j]

IsPhrase(pos, w) == \E f \in Readings(pos) :
    Within(f, w) /\ \A i, j \in DOMAIN f : i < j => f[i] < f[j]
=============================================================================
