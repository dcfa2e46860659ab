---------------------------- MODULE MCGlassTable ----------------------------
(***************************************************************************)
(* Instances of GlassTable for TLC.  Five tags of five units, in three     *)
(* pieces each, take four leaves; twelve added in descending order take    *)
(* two levels of branches.  SEQ_START_POINT is -10 in the code: with -2    *)
(* the third addition in a row counts as sequential.                       *)
(***************************************************************************)
EXTENDS GlassTable

MCKeys == {<<1>>, <<2>>, <<2, 2>>}
MCSearchKeys == {<<>>, <<2>>}
MCTags == {<<1>>, <<1, 2, 3>>}
MCSeqStart == -2

AllKeys == <<<<1>>, <<1, 1>>, <<1, 2>>, <<1, 3>>, <<2>>, <<2, 1>>, <<2, 2>>, <<2, 3>>,
             <<3>>, <<3, 1>>, <<3, 2>>, <<3, 3>>>>
Long == <<1, 2, 3, 4, 5>>

Ascending(n, tag) == [i \in 1..n |-> <<AllKeys[i], tag>>]
Descending(n, tag) == [i \in 1..n |-> <<AllKeys[n + 1 - i], tag>>]
ThenCommit(pairs) == Append(pairs, <<>>)

\* In order and still to be committed, in order and committed, in reverse order, nearly empty.
MCPrebuilt ==
  {Ascending(5, Long), ThenCommit(Ascending(5, Long)), ThenCommit(Descending(12, Long)),
   ThenCommit(Ascending(2, <<1, 2, 3>>))}

\* For the run in which a key that is not there is deleted while a cursor walks.
MissingKeys == {<<3, 3>>}
StartKeys == {<<>>}
OneTag == {<<1>>}
InOrderCommitted == {ThenCommit(Ascending(6, Long))}
=============================================================================
