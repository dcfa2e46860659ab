---------------------------- MODULE GlassBlocks ----------------------------
(***************************************************************************)
(* The blocks of one glass table while a writer builds one revision after  *)
(* another: which blocks the B-tree takes and gives back, what the version *)
(* file says the last committed revision is made of, and what a cancelled  *)
(* transaction or a killed writer leaves behind.                           *)
(*                                                                         *)
(* The tree itself is abstracted to the set of its blocks, each with the   *)
(* revision in its header: a function from block numbers to revisions.     *)
(* A new block is written to the file as soon as it is allocated, the      *)
(* earliest moment at which the code's cursor can write it back; that is   *)
(* the worst case for the revision the block may still belong to.          *)
(***************************************************************************)
EXTENDS GlassFreeList, SequencesExt

CONSTANTS MaxBlocks,     \* bound on the size of the table file
          MaxRevision    \* bound on the number of commits

ASSUME BoundsAssumption == MaxBlocks \in Nat \ {0} /\ MaxRevision \in Nat \ {0}

VARIABLES s,         \* the free list object and the table file
          tree,      \* the blocks of the tree being built, with their revisions
          version    \* what the version file holds for this table

vars == <<s, tree, version>>

Block == 0..MaxBlocks - 1

TreeBlock(rev) == [level |-> 0, rev |-> rev, entries |-> NULL]

NeverWritten == [level |-> 0, rev |-> 0, entries |-> NULL]

Without(t, b) == [x \in DOMAIN t \ {b} |-> t[x]]

With(t, b, rev) == [x \in DOMAIN t \cup {b} |-> IF x = b THEN rev ELSE t[x]]

building == version.rev + 1

Fresh == {b \in DOMAIN tree : tree[b] = building}

(* The end of a step of the writer: it stays within the modelled file, and *)
(* stops for good once the code has thrown DatabaseCorruptError.           *)
Live == ~s.corrupt

InBounds(t) == t.first_unused_block <= MaxBlocks

(* A block just obtained from get_block is stamped and written.            *)
WriteTreeBlock(t, n, rev) ==
    IF t.corrupt THEN t ELSE [t EXCEPT !.disk[n] = TreeBlock(rev)]

-----------------------------------------------------------------------------
(* read_root: a table without a stored root gets one, in a block of its own. *)

read_root(t, v) ==
    IF v.tree # NULL
    THEN /\ s' = t
         /\ tree' = v.tree
    ELSE LET got == get_block(t) IN
         /\ s' = WriteTreeBlock(got.s, got.blk, v.rev + 1)
         /\ tree' = With(NULL, got.blk, v.rev + 1)

FakeRoot == [rev |-> 0, tree |-> NULL, packed |-> EmptyPack]

Init ==
    LET got == get_block(NewFreeList([b \in Block |-> NeverWritten])) IN
    /\ s = WriteTreeBlock(got.s, got.blk, 1)
    /\ tree = With(NULL, got.blk, 1)
    /\ version = FakeRoot

(* Mutant: the block is changed where it is.                               *)
alter_in_place(b) ==
    /\ Live
    /\ b \in DOMAIN tree \ Fresh
    /\ s' = WriteTreeBlock(s, b, building)
    /\ tree' = With(tree, b, building)
    /\ UNCHANGED version

(* alter(): a block of an older revision is given back and its content     *)
(* goes on in a newly allocated block.                                     *)
alter(b) ==
    LET got == get_block(mark_block_unused(s, b)) IN
    /\ Live
    /\ b \in DOMAIN tree \ Fresh
    /\ InBounds(got.s)
    /\ s' = WriteTreeBlock(got.s, got.blk, building)
    /\ tree' = IF got.s.corrupt THEN tree
               ELSE With(Without(tree, b), got.blk, building)
    /\ UNCHANGED version

(* A full block splits, or the root does: one more block.  The block that  *)
(* splits has been through alter() before.                                 *)
split ==
    LET got == get_block(s) IN
    /\ Live
    /\ Fresh # {}
    /\ InBounds(got.s)
    /\ s' = WriteTreeBlock(got.s, got.blk, building)
    /\ tree' = IF got.s.corrupt THEN tree ELSE With(tree, got.blk, building)
    /\ UNCHANGED version

(* An emptied block, or a root left with one child, is given back.         *)
delete_item(b) ==
    LET t == mark_block_unused(s, b) IN
    /\ Live
    /\ b \in Fresh
    /\ DOMAIN tree # {b}
    /\ InBounds(t)
    /\ s' = t
    /\ tree' = Without(tree, b)
    /\ UNCHANGED version

commit_table ==
    LET t == commit(s, building) IN
    /\ Live
    /\ version.rev < MaxRevision
    /\ s' = t
    /\ version' = [rev |-> building, tree |-> tree, packed |-> pack(t)]
    /\ UNCHANGED tree

(* GlassTable::cancel(): the members come from the version file again; the *)
(* cached blocks p and pw stay as they are.                                *)
cancel ==
    /\ Live
    /\ read_root(restore(s, version.packed), version)
    /\ UNCHANGED version

(* The writer is killed and another process opens the table to write: all  *)
(* that was in memory is gone, the blocks it wrote are still in the file.  *)
reopen ==
    /\ read_root(restore(NewFreeList(s.disk), version.packed), version)
    /\ UNCHANGED version

Work ==
    \/ \E b \in Block : alter(b)
    \/ split
    \/ \E b \in Block : delete_item(b)
    \/ commit_table
    \/ reopen

(* The free list's cached blocks are those that the version file's cursors *)
(* stand in, or the version file has no free list yet: restoring the       *)
(* cursors then keeps each cursor and its cached block together.           *)
CachesSurviveCancel ==
    /\ version.packed # EmptyPack
    /\ \/ version.packed.flw.c = 0
       \/ /\ s.p = NULL \/ s.fl.n = version.packed.fl.n
          /\ s.pw = NULL \/ s.flw.n = version.packed.flw.n

Spec == Init /\ [][Work \/ (CachesSurviveCancel /\ cancel)]_vars

(* cancel whenever the code allows it.                                     *)
SpecCancel == Init /\ [][Work \/ cancel]_vars

-----------------------------------------------------------------------------
(* Properties.                                                             *)

Cursor == [n : Block, c : 0..NextSlot]

(* The free list's cursors stay inside blocks of the file (get_block steps *)
(* them on), and the tree and first_unused_block inside the file.          *)
TypeOK ==
    /\ DOMAIN s.disk = Block
    /\ {s.fl, s.fl_end, s.flw} \subseteq Cursor
    /\ s.first_unused_block \in 0..MaxBlocks
    /\ DOMAIN tree \subseteq Block
    /\ version.rev \in 0..MaxRevision

(* The table file once the block being filled with freed blocks is in it.  *)
DiskWithTail ==
    IF s.pw = NULL THEN s.disk
    ELSE [s.disk EXCEPT ![s.flw.n] = FreeListBlock(building, s.pw)]

(* What glass_check does with a table: mark the blocks of the tree, then   *)
(* those that walk() returns; no block twice and none left out.            *)
CheckTable(disk, t, first_unused, from, to) ==
    LET listed == walk(disk, from, to)
        free == {from.n} \cup Range(listed)
    IN from # to =>
         /\ Arrives(disk, from, to)
         /\ IsInjective(listed) /\ from.n \notin Range(listed)
         /\ DOMAIN t \cap free = {}
         /\ DOMAIN t \cup free = 0..first_unused - 1

(* At every moment the last committed revision is whole: each of its tree  *)
(* blocks is on disk as that revision wrote it (alter never lets a block   *)
(* of the committed revision be reused before the next commit), so a crash *)
(* loses nothing that was committed.                                       *)
CommittedTreeIntact ==
    \A b \in DOMAIN version.tree : s.disk[b] = TreeBlock(version.tree[b])

(* At every moment, even inside a later transaction, the checker finds the *)
(* blocks of the committed revision accounted for, each block of the file  *)
(* in the tree or in the free list exactly once; and the revision being    *)
(* built uses no block twice and loses none (get_block, mark_block_unused).*)
(* The writer never throws DatabaseCorruptError on a file only it writes.  *)
RevisionsCheck ==
    /\ Live
    /\ version.rev > 0 /\ version.packed.flw.c # 0 =>
           CheckTable(s.disk, version.tree, version.packed.first_unused_block,
                      version.packed.fl, version.packed.flw)
    /\ s.flw.c # 0 =>
           CheckTable(DiskWithTail, tree, s.first_unused_block, s.fl, s.flw)

-----------------------------------------------------------------------------
(* GlassBlocks implements CowStore: what each block is used for, read off  *)
(* the tree and the free list.                                             *)

UseOf(b, disk, t, rev, from, stop, to) ==
    LET holding == {at \in places(disk, from, to) \ {to} : entry(disk, at) = b}
    IN CASE b \in DOMAIN t /\ t[b] <= rev -> "kept"
         [] b \in DOMAIN t /\ t[b] > rev -> "fresh"
         [] b \notin DOMAIN t /\ to.c = 0 -> "free"
         [] OTHER ->
              IF b = from.n \/ \E at \in holding : at.c = NextSlot THEN "list"
              ELSE IF holding \cap places(disk, stop, to) # {} THEN "pending"
              ELSE "free"

Stored(block) ==
    [rev |-> block.rev, kids |-> {}, data |-> <<block.level, block.entries>>]

Cow == INSTANCE CowStore WITH
    Data <- {0, LEVEL_FREELIST} \X Seq(Int),
    disk <- [b \in Block |-> Stored(s.disk[b])],
    owner <- [b \in Block |-> UseOf(b, DiskWithTail, tree, version.rev,
                                    s.fl, s.fl_end, s.flw)],
    committed <- [b \in Block |->
        IF version.packed = EmptyPack THEN "free"
        ELSE UseOf(b, s.disk, version.tree, version.rev, version.packed.fl,
                   version.packed.flw, version.packed.flw)],
    saved <- [b \in Block |-> IF b \in DOMAIN version.tree
                              THEN Stored(TreeBlock(version.tree[b]))
                              ELSE [rev |-> -1]],
    rev <- version.rev

(* The table writes copy-on-write: no step of alter, get_block,            *)
(* mark_block_unused, commit, cancel or a reopening does to a block what   *)
(* CowStore does not allow.                                                *)
ImplementsCowStore == Cow!Spec
=============================================================================
