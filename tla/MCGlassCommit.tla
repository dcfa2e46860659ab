--------------------------- MODULE MCGlassCommit ---------------------------
(* GlassCommit with two of the six tables: the one opened last by readers, *)
(* and another.                                                            *)
EXTENDS GlassCommit

MCTables == <<"postlist", "position">>
=============================================================================
