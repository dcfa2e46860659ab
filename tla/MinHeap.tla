------------------------------- MODULE MinHeap -------------------------------
(***************************************************************************)
(* The binary heap of common/heap.h as the matcher uses it: a sequence of   *)
(* records ordered by their field key, the comparator always being "greater *)
(* than", so that the smallest key is at the front.  The heap proper is the *)
(* prefix of length n; what was popped lies behind it.                      *)
(* Index i of the code's array is index i + 1 of the sequence.              *)
(***************************************************************************)
EXTENDS Integers, Sequences

Swapped(h, i, j) == <<>> \o [h EXCEPT ![i] = h[j], ![j] = h[i]]

(* sift_up_: the last element of the prefix of length n rises.              *)
RECURSIVE SiftUp(_, _)
SiftUp(h, n) ==
    IF n > 1 /\ h[n \div 2].key > h[n].key
    THEN SiftUp(Swapped(h, n, n \div 2), n \div 2)
    ELSE h

(* The child that sift_down_ compares with: the right one only when it is   *)
(* strictly smaller.                                                        *)
Child(h, n, i) ==
    IF 2 * i + 1 <= n /\ h[2 * i].key > h[2 * i + 1].key THEN 2 * i + 1 ELSE 2 * i

(* sift_down_: an element equal to its child still changes place with it.   *)
RECURSIVE SiftDown(_, _, _)
SiftDown(h, n, i) ==
    IF 2 * i > n \/ h[Child(h, n, i)].key > h[i].key
    THEN h
    ELSE SiftDown(Swapped(h, i, Child(h, n, i)), n, Child(h, n, i))

Push(h, n) == SiftUp(h, n)

(* pop_heap_: the front goes to the end of the prefix.                      *)
Pop(h, n) == IF n > 1 THEN SiftDown(Swapped(h, 1, n), n - 1, 1) ELSE h

(* replace: the front has a new key.                                        *)
Replace(h, n) == SiftDown(h, n, 1)

RECURSIVE MakeFrom(_, _, _)
MakeFrom(h, n, i) == IF i = 0 THEN h ELSE MakeFrom(SiftDown(h, n, i), n, i - 1)

Make(h, n) == MakeFrom(<<>> \o h, n, n \div 2)
=============================================================================
