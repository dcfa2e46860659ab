-------------------------- MODULE MCGlassWritable --------------------------
(* Small documents for GlassWritable: one with positions, one without, one *)
(* that has no terms.                                                      *)
EXTENDS GlassWritable

CONSTANTS ta, tb, vs

T(wdf, pos) == [wdf |-> wdf, pos |-> pos]
Positional == [data |-> 1, terms |-> ta :> T(1, 1), values |-> vs :> 1]
Plain == [data |-> 0, terms |-> ta :> T(2, 0) @@ tb :> T(1, 2), values |-> EmptyMap]
Termless == [data |-> 0, terms |-> EmptyMap, values |-> vs :> 2]
MCDocs == {Positional, Plain, Termless}
MCStart == {<<Positional>>, <<Plain, Positional>>}

MCBadDoc == [data |-> 1, terms |-> tb :> T(2, 1), values |-> vs :> 2]

PartialMaps(S, R) == UNION {[D -> R] : D \in SUBSET S}
MCDocument == [data : 0..1, terms : PartialMaps({ta, tb}, [wdf : 1..MaxWdf, pos : 0..2]),
               values : PartialMaps({vs}, 1..2)]
=============================================================================
