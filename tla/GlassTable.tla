------------------------------ MODULE GlassTable ------------------------------
(***************************************************************************)
(* The B-tree that every table of a glass database is, and the cursors     *)
(* that walk it: backends/glass/glass_table.cc and glass_cursor.cc.        *)
(*                                                                         *)
(* A table is a record:                                                    *)
(*   disk            block number -> block, as last written to the file    *)
(*   C               the built-in cursor, one entry per level: the block   *)
(*                   number n, its contents p, a directory position c and  *)
(*                   whether the block has to be written (rewrite)         *)
(*   level, rev, item_count, sequential, seq_count, changed_n, changed_c,  *)
(*   cursor_version, cursor_created, fake: the members of GlassTable       *)
(*   first_unused, avail, freed: the free list (blocks never used, blocks  *)
(*                   freed by earlier revisions, blocks freed by this one; *)
(*                   the list's own blocks are modelled in GlassFreeList)  *)
(*                                                                         *)
(* A block holds items in directory order with TOTAL_FREE and MAX_FREE.    *)
(* Directory positions are 1, 2, ..., 0 stands for "before the first" and  *)
(* -1 for "no position".  Sizes are counted in units: one for a directory  *)
(* entry, one for an item's header, one for every element of a tag (leaf)  *)
(* or of a key (branch); four items of the greatest size fill a block.     *)
(*                                                                         *)
(* The calls are sequential, so every call is one action; what interleaves *)
(* is the order in which the owner of the table modifies it, commits or    *)
(* cancels, and moves a cursor that it opened before.                      *)
(*                                                                         *)
(* Left out: compression of tags, lazily created tables, single files,     *)
(* full_compaction, I/O errors and readahead.                              *)
(***************************************************************************)
EXTENDS Integers, Sequences, FiniteSets, SequencesExt, TLC

CONSTANTS
  Keys,             \* the keys that are added and deleted
  SearchKeys,       \* the keys cursors look for, too long ones included
  Tags,             \* the tags, sequences of units
  Base,             \* every element of a key is in 1 .. Base - 1
  MaxItemSize,      \* max_item_size
  SEQ_START_POINT,  \* additions before the table counts as sequential, negated
  Dangerous,        \* whether the table was opened with DB_DANGEROUS
  Prebuilt,         \* how the table may have been filled: pairs <<key, tag>> and commits
  QuietDeletes,     \* whether no missing key is deleted while a cursor walks a sequential table
  StaleReads,       \* whether a tag is read after a change made since the cursor moved
  MaxSteps          \* bound: calls after the table was filled, cursor_get left out

VARIABLES
  t,       \* the writer's GlassTable
  info,    \* the table's RootInfo in the committed version file
  cur,     \* the GlassCursor, or NoCursor
  map,     \* what the table should hold: key -> tag
  saved,   \* what the committed revision should hold
  wrong,   \* the calls that gave a wrong answer
  todo,    \* what is still to be added before the calls begin
  steps    \* calls made

vars == <<t, info, cur, map, saved, wrong, todo, steps>>

MaxLevel == 3
Unused == -1

\* GLASS_BTREE_MAX_KEY_LEN: keys are searched for that have one element more.
MaxKeyLen == 2

\* An item's place in the order of keys: the key, shorter first, then the component.
Rank(i) ==
  LET at(k) == IF k <= Len(i.key) THEN i.key[k] ELSE 0
  IN ((at(1) * Base + at(2)) * Base + at(3)) * 16 + i.comp

compare(a, b) == Rank(a) - Rank(b)

LeafSize(i) == 1 + Len(i.data)
BranchSize(i) == 1 + Len(i.key)
ItemSize(i, j) == IF j = 0 THEN LeafSize(i) ELSE BranchSize(i)

Capacity == 4 * (MaxItemSize + 1)

\* The free space of a block that holds these items.
FreeWith(items, j) == FoldLeft(LAMBDA free, i : free - ItemSize(i, j) - 1, Capacity, items)

EmptyBlock == [rev |-> 0, level |-> 0, items |-> <<>>, total |-> 0, max |-> 0]

\* An entry of a cursor that holds no block (Cursor::init, Cursor::destroy).
NoEntry == [n |-> Unused, p |-> EmptyBlock, c |-> -1, rewrite |-> FALSE]

\* The item every table starts with: the null key, before all others.
NullItem == [key |-> <<>>, comp |-> 1, last |-> TRUE, data |-> <<>>]

NullKeyTo(n) == [key |-> <<>>, comp |-> 0, blk |-> n]

compact(p) ==
  [p EXCEPT !.total = FreeWith(p.items, p.level), !.max = FreeWith(p.items, p.level)]

------------------------------------------------------------------------------
(* Blocks and searching                                                      *)

write_block(tb, n, p) ==
  [tb EXCEPT !.disk = [b \in DOMAIN @ \union {n} |-> IF b = n THEN p ELSE @[b]]]

\* FreeList::get_block: the oldest free block, or one past the end of the file.
get_block(tb) == IF tb.avail = <<>> THEN tb.first_unused ELSE Head(tb.avail)

TookBlock(tb) ==
  IF tb.avail = <<>> THEN [tb EXCEPT !.first_unused = @ + 1]
                     ELSE [tb EXCEPT !.avail = Tail(@)]

\* Mutant of mark_block_unused: the block can be used again before the commit.
mark_block_unused_at_once(tb, n) == [tb EXCEPT !.avail = Append(@, n)]

mark_block_unused(tb, n) == [tb EXCEPT !.freed = Append(@, n)]

(* A cursor at work: the table, the cursor's entries, whether they are the   *)
(* table's own, and whether a block turned out not to be what it should be.  *)
Own(tb) == [t |-> tb, C |-> tb.C, own |-> TRUE, err |-> FALSE]
Other(tb, C) == [t |-> tb, C |-> C, own |-> FALSE, err |-> FALSE]
Back(s) == [s.t EXCEPT !.C = s.C]

Builtin(s) == IF s.own THEN s.C ELSE s.t.C

\* A block that was never written is no block of any level.
read_block(tb, n) ==
  IF n \in DOMAIN tb.disk THEN tb.disk[n] ELSE [EmptyBlock EXCEPT !.level = -1]

\* Writes entry j of the table's own cursor out if it was modified.
Saved(s, j) ==
  IF s.own /\ s.C[j].rewrite
  THEN [s EXCEPT !.t = write_block(s.t, s.C[j].n, s.C[j].p)] ELSE s

\* Entry j with block n: shared with the built-in cursor if that holds it.
Loaded(s, j, n) ==
  IF ~s.own /\ n = s.t.C[j].n
  THEN [s.C[j] EXCEPT !.n = n, !.p = s.t.C[j].p]
  ELSE [NoEntry EXCEPT !.n = n, !.p = read_block(s.t, n)]

\* Takes e as entry j.  A block newer than its parent, or of another level, is an error.
Enter(s, j, e) ==
  [s EXCEPT !.C[j] = e,
            !.err = @ \/ (j < s.t.level /\ e.p.rev > s.C[j+1].p.rev) \/ j # e.p.level]

block_to_cursor(s, j, n) ==
  IF n = s.C[j].n \/ s.err THEN s ELSE Enter(Saved(s, j), j, Loaded(s, j, n))

RECURSIVE Chop(_, _, _, _), ChopAt(_, _, _, _, _)
Chop(items, k, i, j) ==
  IF j - i <= 1 THEN i ELSE ChopAt(items, k, i, j, i + (j - i) \div 2)
ChopAt(items, k, i, j, mid) ==
  IF compare(k, items[mid]) < 0 THEN Chop(items, k, i, mid)
  ELSE IF compare(k, items[mid]) = 0 THEN mid ELSE Chop(items, k, mid, j)

(* find_in_leaf and find_in_branch_: the last item not after k, found by     *)
(* binary chop once the two items at the position c of the last search have  *)
(* been tried.  The first item of a branch is never compared.                *)
Search(items, k, c, low) ==
  LET tried(x) == c # -1 /\ low < x /\ x <= Len(items)
  IN CASE tried(c) /\ compare(items[c], k) = 0 -> c
       [] tried(c + 1) /\ compare(items[c + 1], k) = 0 -> c + 1
       [] OTHER -> Chop(items, k,
                        IF tried(c) /\ compare(items[c], k) < 0 THEN c ELSE low,
                        IF tried(c + 1) /\ compare(items[c + 1], k) > 0 THEN c + 1
                        ELSE Len(items) + 1)

\* Moves entry j to position c and the entry below it to the block that is there.
Settle(s, j, c) ==
  IF j = 0 THEN [s EXCEPT !.C[0].c = c]
  ELSE block_to_cursor([s EXCEPT !.C[j].c = c], j - 1, s.C[j].p.items[c].blk)

RECURSIVE Descend(_, _, _)
Descend(s, k, j) ==
  IF s.err THEN s
  ELSE IF j = 0 THEN Settle(s, 0, Search(s.C[0].p.items, k, s.C[0].c, 0))
  ELSE Descend(Settle(s, j, Search(s.C[j].p.items, k, s.C[j].c, 1)), k, j - 1)

find(s, k) == Descend(s, k, s.t.level)

Here(s) == s.C[0].p.items[s.C[0].c]

Exact(s, k) == s.C[0].c > 0 /\ compare(Here(s), k) = 0

\* form_key: the first component of a key.
KeyItem(key) == [key |-> key, comp |-> 1]

------------------------------------------------------------------------------
(* Changing the tree                                                         *)

\* A new number for the block at level j, which belongs to the old revision.
Renumbered(tb, j) ==
  [TookBlock(tb) EXCEPT !.C[j].p.rev = tb.rev + 1, !.C[j].n = get_block(tb)]

PointUp(tb, j) == [tb EXCEPT !.C[j+1].p.items[tb.C[j+1].c].blk = tb.C[j].n]

RECURSIVE AlterFrom(_, _), AlterAbove(_, _)
AlterFrom(tb, j) ==
  IF tb.C[j].rewrite THEN tb
  ELSE IF tb.C[j].p.rev = tb.rev + 1 THEN [tb EXCEPT !.C[j].rewrite = TRUE]
  ELSE AlterAbove(Renumbered(mark_block_unused([tb EXCEPT !.C[j].rewrite = TRUE],
                                               tb.C[j].n), j), j)
AlterAbove(tb, j) == IF j = tb.level THEN tb ELSE AlterFrom(PointUp(tb, j), j + 1)

alter(tb) == IF Dangerous THEN [tb EXCEPT !.C[0].rewrite = TRUE] ELSE AlterFrom(tb, 0)

\* The directory entry where the data of a block is cut in about two halves.
mid_point(p) ==
  LET size == Capacity - p.total - Len(p.items)
      upto[c \in 0..Len(p.items)] ==
        IF c = 0 THEN 0 ELSE upto[c-1] + 2 * ItemSize(p.items[c], p.level)
      cut(c) == IF ItemSize(p.items[c], p.level) < upto[c] - size THEN c ELSE c + 1
  IN cut(CHOOSE c \in DOMAIN p.items : upto[c] >= size /\ upto[c-1] < size)

Needed(it, j) == ItemSize(it, j) + 1

\* add_item_to_leaf, add_item_to_branch.
add_item(p, it, c) ==
  [p EXCEPT !.items = InsertAt(@, c, it),
            !.total = @ - Needed(it, p.level), !.max = @ - Needed(it, p.level)]

\* The shortest prefix of a key that differs from the key before it.
Truncated(prev, key) ==
  SubSeq(key, 1, Min({Len(key),
                      Cardinality({i \in DOMAIN key : IsPrefix(SubSeq(key, 1, i), prev)}) + 1}))

\* The item for block n that separates its first item from the one before it.
Separator(prev, it, j, n) ==
  [key |-> IF j = 0 THEN Truncated(prev.key, it.key) ELSE it.key, comp |-> it.comp, blk |-> n]

\* Gains a level: a new root block that points to the old one.
split_root(tb, lev, split_n) ==
  [TookBlock(tb) EXCEPT
     !.level = lev,
     !.C[lev] = [n |-> get_block(tb), c |-> 1, rewrite |-> TRUE,
                 p |-> add_item(compact([EmptyBlock EXCEPT !.rev = tb.rev + 1, !.level = lev]),
                                NullKeyTo(split_n), 1)]]

\* Where the last addition to a leaf went.
Changed(tb, j, n, c) == IF j > 0 THEN tb ELSE [tb EXCEPT !.changed_n = n, !.changed_c = c]

\* Mutant of NullFirst: the space of the key is not given back.
NullFirstKeepingSpace(tb, j) ==
  IF j = 0 THEN tb ELSE [tb EXCEPT !.C[j].p.items[1] = NullKeyTo(@.blk)]

\* The first key of a branch block that was split off is not needed in it.
NullFirst(tb, j) ==
  IF j = 0 THEN tb
  ELSE [tb EXCEPT !.C[j].p.total = @ + Len(tb.C[j].p.items[1].key),
                  !.C[j].p.items[1] = NullKeyTo(@.blk)]

Roomy(p, needed) == IF p.max < needed THEN compact(p) ELSE p

\* The block of level j split in two, the lower half written, the upper one kept.
Halves(tb, j, low, up) ==
  write_block([TookBlock(tb) EXCEPT !.C[j].n = get_block(tb), !.C[j].p = up], tb.C[j].n, low)

Heightened(tb, j, split_n) == IF j = tb.level THEN split_root(tb, j + 1, split_n) ELSE tb

(* add_leaf_item and add_branch_item: a block without room is split in two,  *)
(* the lower half keeps the number, and a separating key goes one level up   *)
(* (enter_key_above_leaf, enter_key_above_branch).                           *)
RECURSIVE AddItem(_, _, _), SplitAt(_, _, _, _), Split(_, _, _, _, _, _),
          EnterKey(_, _, _, _), AddAbove(_, _, _)
AddItem(tb, it, j) ==
  IF tb.C[j].p.total < Needed(it, j)
  THEN SplitAt(tb, it, j, IF tb.seq_count < 0 THEN mid_point(tb.C[j].p) ELSE tb.C[j].c)
  ELSE Changed([tb EXCEPT !.C[j].p = add_item(Roomy(@, Needed(it, j)), it, tb.C[j].c)],
               j, tb.C[j].n, tb.C[j].c)

SplitAt(tb, it, j, m) ==
  Split(tb, it, j, m, compact([tb.C[j].p EXCEPT !.items = SubSeq(@, 1, m - 1)]),
                      compact([tb.C[j].p EXCEPT !.items = SubSeq(@, m, Len(@))]))

Split(tb, it, j, m, low, up) ==
  IF IF tb.seq_count < 0 THEN tb.C[j].c >= m ELSE low.total < Needed(it, j)
  THEN Changed(EnterKey(tb, j, low, add_item(up, it, tb.C[j].c - (m - 1))),
               j, get_block(tb), tb.C[j].c - (m - 1))
  ELSE Changed(EnterKey(tb, j, add_item(low, it, tb.C[j].c), up), j, tb.C[j].n, tb.C[j].c)

EnterKey(tb, j, low, up) ==
  NullFirst(AddAbove(Heightened(Halves(tb, j, low, up), j, tb.C[j].n), j,
                     Separator(Last(low.items), Head(up.items), j, get_block(tb))), j)

AddAbove(tb, j, sep) ==
  AddItem([tb EXCEPT !.C[j+1].c = @ + 1, !.C[j+1].rewrite = TRUE], sep, j + 1)

\* Takes item c out of the block at level j, as delete_leaf_item(false) does.
Without(tb, j) ==
  [tb EXCEPT !.C[j].p.items = RemoveAt(@, tb.C[j].c), !.C[j].p.max = @ + 1,
             !.C[j].p.total = @ + Needed(tb.C[j].p.items[tb.C[j].c], j)]

\* A root with a single item goes, and the block it points to is the root.
RECURSIVE LoseLevels(_)
LoseLevels(tb) ==
  IF tb.level > 0 /\ Len(tb.C[tb.level].p.items) = 1
  THEN LoseLevels(Back(block_to_cursor(
         Own([mark_block_unused(tb, tb.C[tb.level].n) EXCEPT
                !.C[tb.level] = [NoEntry EXCEPT !.c = tb.C[tb.level].c], !.level = @ - 1]),
         tb.level - 1, tb.C[tb.level].p.items[1].blk)))
  ELSE tb

\* The block of level j has no item left.
Emptied(tb, j) ==
  [mark_block_unused(tb, tb.C[j].n) EXCEPT
     !.C[j].rewrite = FALSE, !.C[j].n = Unused, !.C[j+1].rewrite = TRUE]

(* delete_leaf_item(true) and delete_branch_item: a block left empty is      *)
(* freed and its item one level up goes too.                                 *)
RECURSIVE DeleteItem(_, _), AfterDelete(_, _)
DeleteItem(tb, j) == AfterDelete(Without(tb, j), j)
AfterDelete(tb, j) ==
  IF j = tb.level THEN (IF j = 0 THEN tb ELSE LoseLevels(tb))
  ELSE IF tb.C[j].p.items = <<>> THEN DeleteItem(Emptied(tb, j), j + 1) ELSE tb

NotSequential(tb) == [tb EXCEPT !.seq_count = SEQ_START_POINT, !.sequential = FALSE]

\* The item it is put over old, which has its key: in place, in free space, the long way.
Replace(tb, it, old) ==
  IF LeafSize(it) > LeafSize(old) /\ tb.C[0].p.max < LeafSize(it)
  THEN AddItem(Without(tb, 0), it, 0)
  ELSE [tb EXCEPT !.C[0].p.items[tb.C[0].c] = it,
                  !.C[0].p.total = @ - (LeafSize(it) - LeafSize(old)),
                  !.C[0].p.max = IF LeafSize(it) <= LeafSize(old) THEN @ ELSE @ - LeafSize(it)]

\* Mutant of Following: an addition out of order leaves the table marked sequential.
FollowingUnmarked(tb) ==
  IF tb.changed_n = tb.C[0].n /\ tb.changed_c = tb.C[0].c
  THEN [tb EXCEPT !.seq_count = IF @ < 0 THEN @ + 1 ELSE @]
  ELSE [tb EXCEPT !.seq_count = SEQ_START_POINT]

\* Counts the additions that each follow the one before.
Following(tb) ==
  IF tb.changed_n = tb.C[0].n /\ tb.changed_c = tb.C[0].c
  THEN [tb EXCEPT !.seq_count = IF @ < 0 THEN @ + 1 ELSE @] ELSE NotSequential(tb)

Stepped(tb) == [tb EXCEPT !.C[0].c = @ + 1]

add_kt(tb, it, found) ==
  IF found THEN Replace(NotSequential(alter(tb)), it, Here(tb))
  ELSE AddItem(Stepped(Following(alter(tb))), it, 0)

(* delete_kt for component i of a key and those after it, until the one that *)
(* is the last.                                                              *)
RECURSIVE DeleteComponents(_, _, _), delete_kt(_, _)
DeleteComponents(tb, key, i) ==
  delete_kt(find(Own(NotSequential(tb)), [key |-> key, comp |-> i]), [key |-> key, comp |-> i])
delete_kt(s, k) ==
  IF ~Exact(s, k) THEN Back(s)
  ELSE IF Here(s).last THEN DeleteItem(alter(Back(s)), 0)
  ELSE DeleteComponents(DeleteItem(alter(Back(s)), 0), k.key, k.comp + 1)

Present(tb, k) == Exact(find(Own(tb), k), k)

\* Cursors made before a change have to rebuild.
Modified(tb) ==
  IF tb.cursor_created
  THEN [tb EXCEPT !.cursor_created = FALSE, !.cursor_version = @ + 1] ELSE tb

\* The largest piece of a tag, and the room for one left in a block.
LargestPiece == MaxItemSize - 1
RoomFor(total) == (total % (MaxItemSize + 1)) - 2

(* The pieces a tag is cut into.  The first one may be made shorter so that  *)
(* it fills the block, when that takes no extra item.                        *)
FirstPiece(size, found, total) ==
  CASE size <= LargestPiece -> size
    [] size > LargestPiece /\ ~found /\ RoomFor(total) > 0
         /\ RoomFor(total) >= size % LargestPiece -> RoomFor(total)
    [] OTHER -> LargestPiece

CutAfter(tag, first) ==
  [i \in 1..((Len(tag) - first + LargestPiece - 1) \div LargestPiece + 1) |->
     IF i = 1 THEN SubSeq(tag, 1, first)
     ELSE SubSeq(tag, first + 1 + (i - 2) * LargestPiece,
                 Min({Len(tag), first + (i - 1) * LargestPiece}))]

PieceItem(key, pieces, i) ==
  [key |-> key, comp |-> i, last |-> i = Len(pieces), data |-> pieces[i]]

\* Mutant of AddPiece: the rest of a longer tag stays behind.
AddPieceOnly(r, s, it) ==
  [t |-> add_kt(Back(s), it, Exact(s, it)), replacement |-> r.replacement \/ Exact(s, it),
   todel |-> FALSE]

AddPiece(r, s, it) ==
  [t |-> add_kt(Back(s), it, Exact(s, it)), replacement |-> r.replacement \/ Exact(s, it),
   todel |-> Exact(s, it) /\ ~Here(s).last]

\* Adds the pieces from i on, then deletes the pieces of a longer tag that was there.
RECURSIVE AddPieces(_, _, _, _)
AddPieces(r, key, pieces, i) ==
  IF i > Len(pieces)
  THEN [r EXCEPT !.t = IF r.todel THEN DeleteComponents(@, key, i) ELSE @]
  ELSE AddPieces(AddPiece(r, find(Own(r.t), PieceItem(key, pieces, i)),
                          PieceItem(key, pieces, i)), key, pieces, i + 1)

Counted(r) ==
  Modified(IF r.replacement THEN r.t ELSE [r.t EXCEPT !.item_count = @ + 1])

AddAt(s, key, tag) ==
  Counted(AddPieces([t |-> Back(s), replacement |-> FALSE, todel |-> FALSE], key,
                    CutAfter(tag, FirstPiece(Len(tag), Exact(s, KeyItem(key)),
                                             s.C[0].p.total)), 1))

add(tb, key, tag) == AddAt(find(Own(tb), KeyItem(key)), key, tag)

Uncounted(tb, present) ==
  IF present THEN Modified([tb EXCEPT !.item_count = @ - 1]) ELSE tb

del(tb, key) == Uncounted(DeleteComponents(tb, key, 1), Present(tb, KeyItem(key)))

------------------------------------------------------------------------------
(* Opening, committing, cancelling                                           *)

Cleared(C, lev) == [j \in DOMAIN C |-> IF j <= lev THEN NoEntry ELSE C[j]]

\* A fresh root block for an empty table, or the root block on disk.
read_root(tb, root) ==
  IF tb.fake
  THEN [TookBlock(tb) EXCEPT
          !.C[0] = [n |-> get_block(tb), c |-> -1, rewrite |-> TRUE,
                    p |-> compact([EmptyBlock EXCEPT !.rev = tb.rev + 1,
                                                     !.items = <<NullItem>>])]]
  ELSE Back(block_to_cursor(Own(tb), tb.level, root))

Restarted(tb) == [tb EXCEPT !.changed_n = 0, !.changed_c = 1, !.seq_count = SEQ_START_POINT]

WrittenAt(tb, j) == IF tb.C[j].rewrite THEN write_block(tb, tb.C[j].n, tb.C[j].p) ELSE tb

RECURSIVE FlushFrom(_, _)
FlushFrom(tb, j) ==
  IF j = 0 THEN WrittenAt(tb, 0) ELSE FlushFrom(WrittenAt(tb, j), j - 1)

flush_db(tb) == [FlushFrom(tb, tb.level) EXCEPT !.fake = FALSE]

RootOf(tb) == tb.C[tb.level].n

commit(tb) ==
  Restarted(read_root([tb EXCEPT !.C = Cleared(@, tb.level), !.avail = @ \o tb.freed,
                                 !.freed = <<>>, !.rev = @ + 1], RootOf(tb)))

\* What GlassTable::commit puts into the RootInfo, when tb is about to commit.
RootInfo(tb) ==
  [root |-> RootOf(tb), level |-> tb.level, item_count |-> tb.item_count, fake |-> tb.fake,
   sequential |-> tb.sequential, rev |-> tb.rev + 1, first_unused |-> tb.first_unused,
   avail |-> tb.avail \o tb.freed]

\* The members that cancel and basic_open take from the RootInfo.
FromInfo(tb, i) ==
  [tb EXCEPT !.rev = i.rev, !.level = i.level, !.item_count = i.item_count,
             !.fake = i.fake, !.sequential = i.sequential,
             !.first_unused = i.first_unused, !.avail = i.avail, !.freed = <<>>]

cancel(tb, i) ==
  Modified(Restarted(read_root(
    [FromInfo(tb, i) EXCEPT !.C = Cleared(@, i.level)], i.root)))

\* The RootInfo of a table that is created, and the table opened with one.
NewInfo ==
  [root |-> 0, level |-> 0, item_count |-> 0, fake |-> TRUE, sequential |-> TRUE,
   rev |-> 0, first_unused |-> 0, avail |-> <<>>]

do_open_to_write(disk, i) ==
  Restarted(read_root(FromInfo(
    [disk |-> disk, C |-> [j \in 0..MaxLevel |-> NoEntry], level |-> 0, rev |-> 0,
     item_count |-> 0, sequential |-> TRUE, seq_count |-> 0, changed_n |-> 0,
     changed_c |-> 1, cursor_version |-> 0, cursor_created |-> FALSE, fake |-> TRUE,
     first_unused |-> 0, avail |-> <<>>, freed |-> <<>>], i), i.root))

------------------------------------------------------------------------------
(* Moving along the leaves: the cursor afterwards, and whether it moved      *)

RECURSIVE prev_default(_, _), ToLast(_, _)
prev_default(s, j) ==
  IF s.C[j].c > 1 THEN <<Settle(s, j, s.C[j].c - 1), TRUE>>
  ELSE IF j = s.t.level THEN <<s, FALSE>>
  ELSE ToLast(prev_default(s, j + 1), j)
ToLast(m, j) ==
  IF ~m[2] \/ m[1].err THEN <<m[1], FALSE>>
  ELSE <<Settle(m[1], j, Len(m[1].C[j].p.items)), TRUE>>

RECURSIVE next_default(_, _), ToFirst(_, _)
next_default(s, j) ==
  IF s.C[j].c + 1 <= Len(s.C[j].p.items) THEN <<Settle(s, j, s.C[j].c + 1), TRUE>>
  ELSE IF j = s.t.level THEN <<s, FALSE>>
  ELSE ToFirst(next_default(s, j + 1), j)
ToFirst(m, j) ==
  IF ~m[2] \/ m[1].err THEN <<m[1], FALSE>> ELSE <<Settle(m[1], j, 1), TRUE>>

\* A block above the leaves that the built-in cursor holds may not be on disk yet.
InBranches(s, n) == \E j \in 1..s.t.level : Builtin(s)[j].n = n

\* Takes block n as the leaf, whatever was there, without a look at its parent.
TakeLeaf(s, e) == [s EXCEPT !.C[0] = e, !.err = @ \/ e.p.rev > s.t.rev + 1]

ScanEntry(s, n) ==
  IF n = Builtin(s)[0].n THEN [s.C[0] EXCEPT !.n = n, !.p = Builtin(s)[0].p]
  ELSE [NoEntry EXCEPT !.n = n, !.p = read_block(s.t, n)]

(* The neighbour of a leaf in a table that was built in order is the next    *)
(* leaf block in the file, in the direction d.                               *)
RECURSIVE Scan(_, _, _), ScanAt(_, _, _)
Scan(s, n, d) ==
  IF n < 0 \/ (d = 1 /\ n >= s.t.first_unused) THEN <<s, FALSE>>
  ELSE IF n # Builtin(s)[0].n /\ InBranches(s, n) THEN Scan(s, n + d, d)
  ELSE ScanAt(TakeLeaf(s, ScanEntry(s, n)), n, d)
ScanAt(s, n, d) ==
  IF s.C[0].p.level # 0 THEN Scan(s, n + d, d)
  ELSE <<[s EXCEPT !.C[0].c = IF d = 1 THEN 1 ELSE Len(s.C[0].p.items)], TRUE>>

next_for_sequential(s) ==
  IF s.C[0].c + 1 > Len(s.C[0].p.items) THEN Scan(s, s.C[0].n + 1, 1)
  ELSE <<[s EXCEPT !.C[0].c = @ + 1], TRUE>>

prev_for_sequential(s) ==
  IF s.C[0].c = 1 THEN Scan(s, s.C[0].n - 1, -1)
  ELSE <<[s EXCEPT !.C[0].c = @ - 1], TRUE>>

NextItem(s) == IF s.t.sequential THEN next_for_sequential(s) ELSE next_default(s, 0)
PrevItem(s) == IF s.t.sequential THEN prev_for_sequential(s) ELSE prev_default(s, 0)

Failed(s) == [s EXCEPT !.err = TRUE]

\* GlassTable::read_tag: the pieces up to the last one, joined.
RECURSIVE ReadTag(_, _), ReadMore(_, _)
ReadTag(s, tag) ==
  IF Here(s).last THEN <<s, tag \o Here(s).data>>
  ELSE ReadMore(NextItem(s), tag \o Here(s).data)
ReadMore(m, tag) ==
  IF ~m[2] \/ m[1].err THEN <<Failed(m[1]), tag>> ELSE ReadTag(m[1], tag)

------------------------------------------------------------------------------
(* GlassCursor                                                               *)

NoCursor ==
  [C |-> [j \in 0..MaxLevel |-> NoEntry], version |-> -1, level |-> 0, positioned |-> FALSE,
   after_end |-> FALSE, status |-> "UNREAD", key |-> <<>>]

Clone(e, b) == [e EXCEPT !.n = b.n, !.p = b.p]

NewCursor(tb) ==
  [NoCursor EXCEPT !.version = tb.cursor_version, !.level = tb.level,
     !.C = [j \in DOMAIN @ |-> IF j <= tb.level THEN Clone(NoEntry, tb.C[j]) ELSE NoEntry]]

\* Entry j of a cursor that rebuilds: shared with the built-in cursor, its hint kept.
RebuiltEntry(tb, cu, j) ==
  CASE j = tb.level -> Clone(IF j <= cu.level THEN cu.C[j] ELSE NoEntry, tb.C[j])
    [] j < tb.level /\ j < cu.level -> Clone(cu.C[j], tb.C[j])
    [] OTHER -> NoEntry

(* A call at work on a cursor: the table, the cursor, whether the key was    *)
(* found, whether an exception was thrown, and the tag read.                 *)
Call(tb, cu) == [t |-> tb, cu |-> cu, found |-> FALSE, err |-> FALSE, tag |-> <<>>]

\* rebuild, if the table was modified since the cursor was placed.
Rebuilt(tb, cu) ==
  IF tb.cursor_version = cu.version THEN Call(tb, cu)
  ELSE Call([tb EXCEPT !.cursor_created = TRUE],
            [cu EXCEPT !.version = tb.cursor_version, !.level = tb.level,
                       !.C = [j \in DOMAIN @ |-> RebuiltEntry(tb, cu, j)]])

At(r) == Other(r.t, r.cu.C)

\* The call ends at s, not positioned on an entry.
Nowhere(r, s, end) ==
  [r EXCEPT !.cu.C = s.C, !.cu.positioned = FALSE, !.cu.after_end = end, !.err = s.err]

\* The call ends on an entry.
Placed(r, s, status, key) ==
  [r EXCEPT !.cu.C = s.C, !.cu.positioned = TRUE, !.cu.after_end = FALSE,
            !.cu.status = status, !.cu.key = key, !.err = s.err]

Key255(key) == KeyItem(SubSeq(key, 1, Min({Len(key), MaxKeyLen})))

FoundIn(s, key) == Len(key) <= MaxKeyLen /\ Exact(s, KeyItem(key))

\* Before the first item of a leaf: the entry wanted is the last one before the leaf.
SteppedBack(r, m) ==
  Placed(r, m[1], IF m[2] THEN "UNREAD_ON_LAST_CHUNK" ELSE "UNREAD", Here(m[1]).key)

EntryAt(r, s, key) ==
  CASE FoundIn(s, key) -> Placed([r EXCEPT !.found = TRUE], s, "UNREAD", key)
    [] ~FoundIn(s, key) /\ s.C[0].c >= 1 -> Placed(r, s, "UNREAD_ON_LAST_CHUNK", Here(s).key)
    [] OTHER -> SteppedBack(r, PrevItem([s EXCEPT !.C[0].c = 1]))

FindEntryIn(r, key) == EntryAt(r, find(At(r), Key255(key)), key)

find_entry(tb, cu, key) == FindEntryIn(Rebuilt(tb, cu), key)

\* Moves to the first chunk of the next tag.
RECURSIVE Advance(_, _)
Advance(m, status) ==
  IF ~m[2] \/ m[1].err \/ status = "UNREAD_ON_LAST_CHUNK" \/ Here(m[1]).comp = 1 THEN m
  ELSE Advance(NextItem(m[1]), status)

\* Mutant of Moved: the move that reading the tag made is made again.
MovedAgain(r) == Advance(NextItem(At(r)), r.cu.status)

\* Once a tag has been read the cursor is on the next entry already.
Moved(r) ==
  IF r.cu.status = "READ" THEN <<At(r), r.cu.positioned>>
  ELSE Advance(NextItem(At(r)), r.cu.status)

NextAt(r, m) ==
  IF m[2] THEN Placed(r, m[1], "UNREAD", Here(m[1]).key) ELSE Nowhere(r, m[1], TRUE)

NextIn(r) == NextAt(r, Moved(r))

next(tb, cu) ==
  NextIn(IF tb.cursor_version # cu.version THEN find_entry(tb, cu, cu.key) ELSE Call(tb, cu))

LtAt(r, m) ==
  IF m[2] THEN Placed(r, m[1], "UNREAD_ON_LAST_CHUNK", Here(m[1]).key)
  ELSE Nowhere(r, m[1], FALSE)

LtIn(r) == IF r.found THEN LtAt(r, PrevItem(At(r))) ELSE r

find_entry_lt(tb, cu, key) == LtIn(find_entry(tb, cu, key))

GeAt(r, s, key) ==
  IF FoundIn(s, key) THEN Placed([r EXCEPT !.found = TRUE], s, "UNREAD", key)
  ELSE NextAt(r, NextItem(s))

GeIn(r, key) == GeAt(r, find(At(r), Key255(key)), key)

find_entry_ge(tb, cu, key) == GeIn(Rebuilt(tb, cu), key)

(* The tag is read at once, and the cursor stays on its last chunk: EXACT    *)
(* marks a cursor that is only asked for find_exact or placed anew.          *)
ExactRead(r, m, key) ==
  [Placed(r, m[1], "EXACT", key) EXCEPT !.tag = m[2], !.found = TRUE]

ExactAt(r, s, key) ==
  IF Exact(s, KeyItem(key)) THEN ExactRead(r, ReadTag(s, <<>>), key)
  ELSE Nowhere([r EXCEPT !.cu.status = "EXACT"], s, FALSE)

ExactIn(r, key) == ExactAt(r, find(At(r), KeyItem(key)), key)

find_exact(tb, cu, key) ==
  IF Len(key) > MaxKeyLen
  THEN Nowhere(Call(tb, [cu EXCEPT !.status = "EXACT"]), Other(tb, cu.C), FALSE)
  ELSE ExactIn(Rebuilt(tb, cu), key)

RECURSIVE ToFirstChunk(_), OneChunkBack(_)
ToFirstChunk(s) == IF s.err \/ Here(s).comp = 1 THEN s ELSE OneChunkBack(PrevItem(s))
OneChunkBack(m) == IF m[2] THEN ToFirstChunk(m[1]) ELSE Failed(m[1])

TagRead(r, tag, m) ==
  [r EXCEPT !.cu.C = m[1].C, !.cu.positioned = m[2], !.cu.status = "READ",
            !.err = m[1].err, !.tag = tag, !.found = TRUE]

ReadFrom(r, m) == TagRead(r, m[2], IF m[1].err THEN <<m[1], FALSE>> ELSE NextItem(m[1]))

\* The tag, after which the cursor is on the next key already.
read_tag(tb, cu) ==
  ReadFrom(Call(tb, cu),
           ReadTag(IF cu.status = "UNREAD_ON_LAST_CHUNK" THEN ToFirstChunk(Other(tb, cu.C))
                   ELSE Other(tb, cu.C), <<>>))

DelIn(r) == IF r.found THEN next(r.t, r.cu) ELSE r

\* MutableGlassCursor::del: deletes the entry and moves to the one after it.
cursor_del(tb, cu) == DelIn(find_entry_ge(del(tb, cu.key), cu, cu.key))

------------------------------------------------------------------------------
(* The calls.  Each one notes whether its answer was what map asks for.      *)

Before(k1, k2) == compare(KeyItem(k1), KeyItem(k2)) < 0
Entries(m) == DOMAIN m \union {<<>>}
Upto(m, k) == {x \in Entries(m) : ~Before(k, x)}
Under(m, k) == {x \in Entries(m) : Before(x, k)}
From(m, k) == {x \in Entries(m) : ~Before(x, k)}
After(m, k) == {x \in Entries(m) : Before(k, x)}
Highest(S) == CHOOSE x \in S : \A y \in S : ~Before(x, y)
Lowest(S) == CHOOSE x \in S : \A y \in S : ~Before(y, x)

\* Whether a cursor is on the lowest key of S, or past the end if there is none.
OnLowest(r, S) ==
  ~r.err /\ (IF S = {} THEN r.cu.after_end /\ ~r.cu.positioned
             ELSE ~r.cu.after_end /\ r.cu.positioned /\ r.cu.key = Lowest(S))

OnHighest(r, S) == ~r.err /\ r.cu.positioned /\ r.cu.key = Highest(S)

TagOf(m, k) == IF k = <<>> THEN <<>> ELSE m[k]

Step == todo = <<>> /\ UNCHANGED todo /\ steps < MaxSteps /\ steps' = steps + 1

Cursor(op, r, right) ==
  /\ t' = r.t
  /\ cur' = r.cu
  /\ wrong' = IF right THEN wrong ELSE wrong \union {op}
  /\ UNCHANGED <<info, saved>>

Open == cur.version # -1

\* Nobody moves on a cursor that find_exact placed.
Positioned ==
  Open /\ ~cur.after_end /\ cur.status # "EXACT" /\ (cur.positioned \/ cur.status = "READ")

Adding(key, tag) ==
  /\ t' = add(t, key, tag)
  /\ map' = [k \in DOMAIN map \union {key} |-> IF k = key THEN tag ELSE map[k]]
  /\ UNCHANGED <<info, saved, cur, wrong>>

Committing ==
  /\ t' = commit(flush_db(t))
  /\ info' = RootInfo(flush_db(t))
  /\ saved' = map
  /\ UNCHANGED <<map, cur, wrong>>

\* Fills the table: a pair is added, and <<>> stands for a commit.
Fill ==
  /\ todo # <<>>
  /\ todo' = Tail(todo)
  /\ UNCHANGED steps
  /\ IF Head(todo) = <<>> THEN Committing ELSE Adding(Head(todo)[1], Head(todo)[2])

AddTag(key, tag) == Step /\ Adding(key, tag)

Commit == Step /\ Committing

Without1(m, key) == [k \in DOMAIN m \ {key} |-> m[k]]

DelKey(key) ==
  /\ Step
  /\ QuietDeletes => (key \in DOMAIN map \/ ~t.sequential \/ ~Open)
  /\ t' = del(t, key)
  /\ map' = Without1(map, key)
  /\ UNCHANGED <<info, saved, cur, wrong>>

\* get_exact_entry, and key_exists when the tag is not asked for.
GetExactEntry(key) ==
  LET s == find(Own(t), KeyItem(key))
      rd == ReadTag(s, <<>>)
      found == Exact(s, KeyItem(key))
      right == ~s.err /\ (found <=> key \in DOMAIN map)
                      /\ (found => ~rd[1].err /\ rd[2] = map[key])
  IN /\ Step
     /\ t' = Back(IF found THEN rd[1] ELSE s)
     /\ wrong' = IF right THEN wrong ELSE wrong \union {"get_exact_entry"}
     /\ UNCHANGED <<info, saved, cur, map>>

\* Not supported with DB_DANGEROUS.
Cancel ==
  /\ Step
  /\ ~Dangerous
  /\ t' = cancel(t, info)
  /\ map' = saved
  /\ UNCHANGED <<info, saved, cur, wrong>>

\* The process ends, whatever it had not committed is lost, and a writer opens.
Reopen ==
  /\ Step
  /\ ~Dangerous
  /\ t' = do_open_to_write(t.disk, info)
  /\ map' = saved
  /\ cur' = NoCursor
  /\ UNCHANGED <<info, saved, wrong>>

\* Not counted as a step, as there is one cursor.
cursor_get ==
  /\ todo = <<>> /\ UNCHANGED <<todo, steps>>
  /\ ~Open
  /\ cur' = NewCursor(t)
  /\ t' = [t EXCEPT !.cursor_created = TRUE]
  /\ UNCHANGED <<info, saved, map, wrong>>

FindEntry(key) ==
  /\ Step /\ Open /\ UNCHANGED map
  /\ \E r \in {find_entry(t, cur, key)} :
       Cursor("find_entry", r, OnHighest(r, Upto(map, key)) /\ (r.found <=> key \in Entries(map)))

FindEntryLt(key) ==
  /\ Step /\ Open /\ UNCHANGED map
  /\ key # <<>>
  /\ \E r \in {find_entry_lt(t, cur, key)} :
       Cursor("find_entry_lt", r, OnHighest(r, Under(map, key)))

FindEntryGe(key) ==
  /\ Step /\ Open /\ UNCHANGED map
  /\ \E r \in {find_entry_ge(t, cur, key)} :
       Cursor("find_entry_ge", r, OnLowest(r, From(map, key)) /\ (r.found <=> key \in Entries(map)))

FindExact(key) ==
  /\ Step /\ Open /\ UNCHANGED map
  /\ \E r \in {find_exact(t, cur, key)} :
       Cursor("find_exact", r, ~r.err /\ (r.found <=> key \in Entries(map))
                                      /\ (r.found => r.tag = TagOf(map, key)))

CursorNext ==
  /\ Step /\ Positioned /\ UNCHANGED map
  /\ \E r \in {next(t, cur)} : Cursor("next", r, OnLowest(r, After(map, cur.key)))

ReadCursorTag ==
  /\ Step /\ Positioned /\ UNCHANGED map
  /\ cur.status \in {"UNREAD", "UNREAD_ON_LAST_CHUNK"}
  /\ StaleReads \/ cur.version = t.cursor_version
  /\ \E r \in {read_tag(t, cur)} :
       Cursor("read_tag", r, ~r.err /\ (cur.version = t.cursor_version =>
                                            r.tag = TagOf(map, cur.key)))

\* The callers delete the entry that they have just moved to.
CursorDel ==
  /\ Step /\ Positioned
  /\ cur.key \in DOMAIN map
  /\ map' = Without1(map, cur.key)
  /\ \E r \in {cursor_del(t, cur)} :
       Cursor("del", r, OnLowest(r, After(map, cur.key)))

Next ==
  \/ Fill
  \/ \E key \in Keys, tag \in Tags : AddTag(key, tag)
  \/ \E key \in Keys : DelKey(key)
  \/ \E key \in Keys : GetExactEntry(key)
  \/ Commit
  \/ Cancel
  \/ Reopen
  \/ cursor_get
  \/ \E key \in SearchKeys : FindEntry(key)
  \/ \E key \in SearchKeys : FindEntryLt(key)
  \/ \E key \in SearchKeys : FindEntryGe(key)
  \/ \E key \in SearchKeys : FindExact(key)
  \/ CursorNext
  \/ ReadCursorTag
  \/ CursorDel

\* An empty table, and how it is filled before the calls begin.
Init ==
  /\ t = do_open_to_write(<<>>, NewInfo)
  /\ info = NewInfo
  /\ map = <<>>
  /\ saved = <<>>
  /\ cur = NoCursor
  /\ wrong = {}
  /\ steps = 0
  /\ todo \in Prebuilt

Spec == Init /\ [][Next]_vars

------------------------------------------------------------------------------
(* Properties                                                                *)

\* The block that the writer means by number n at level j.
View(tb, j, n) == IF tb.C[j].n = n THEN tb.C[j].p ELSE tb.disk[n]

\* Every block of the tree under block n: <<number, level>>, left to right.
RECURSIVE BlocksUnder(_, _, _)
BlocksUnder(tb, j, n) ==
  IF j = 0 THEN <<<<n, 0>>>>
  ELSE FlattenSeq(<<<<<<n, j>>>>>> \o
         [i \in DOMAIN View(tb, j, n).items |->
            BlocksUnder(tb, j - 1, View(tb, j, n).items[i].blk)])

TreeBlocks(tb) == BlocksUnder(tb, tb.level, RootOf(tb))

LeafItems(tb, blocks) ==
  FlattenSeq(<<>> \o [i \in DOMAIN blocks |->
    IF blocks[i][2] = 0 THEN View(tb, 0, blocks[i][1]).items ELSE <<>>])

\* The map that a sequence of leaf items stores.
Stored(items) ==
  LET firsts == {i \in DOMAIN items : items[i].comp = 1 /\ items[i].key # <<>>}
      end(i) == CHOOSE e \in i..Len(items) : items[e].last /\ \A f \in i..e-1 : ~items[f].last
      data(i, e) == FlattenSeq(<<>> \o [x \in 1..(e - i + 1) |-> items[i + x - 1].data])
  IN [k \in {items[i].key : i \in firsts} |->
        LET i == CHOOSE i \in firsts : items[i].key = k IN data(i, end(i))]

InOrder(items) == \A i \in 2..Len(items) : compare(items[i-1], items[i]) < 0

(* The leaves, left to right, hold the null item and then exactly the tags   *)
(* that were added and not deleted since, in the order of their keys, and    *)
(* item_count counts them: whatever splits, replacements, emptied blocks,    *)
(* lost levels and cancels came between (add, del, alter, AddItem).          *)
(* Searching from the root finds every component of every tag and no key     *)
(* that is not there, with the positions left over from earlier searches as  *)
(* hints and with separators cut to their shortest form (find, find_in_leaf, *)
(* find_in_branch_, enter_key_above_leaf).                                   *)
TreeHoldsMap ==
  LET items == LeafItems(t, TreeBlocks(t))
  IN /\ InOrder(items)
     /\ Head(items) = NullItem
     /\ Stored(items) = map
     /\ t.item_count = Cardinality(DOMAIN map)
     /\ \A i \in DOMAIN items : Present(t, items[i])
     /\ \A k \in Keys \ DOMAIN map : ~Present(t, KeyItem(k))

(* Every block number handed out is in the tree once, or is free once, and   *)
(* never both: no block leaks when a block is emptied, a level is lost or a  *)
(* block is copied, and none is freed twice (alter, DeleteItem, LoseLevels). *)
(* The blocks of a path have their level and no block is newer than its      *)
(* parent, which is what block_to_cursor relies on to notice overwriting.    *)
(* TOTAL_FREE of every block of the tree is the space that its items really  *)
(* leave, never negative, MAX_FREE is no more, and none is without an item   *)
(* (add_item, compact, Replace, the null keys of AddItem).                   *)
BlocksAccounted ==
  LET blocks == TreeBlocks(t)
      all == [i \in DOMAIN blocks |-> blocks[i][1]] \o t.avail \o t.freed
  IN /\ Len(all) = t.first_unused
     /\ {all[i] : i \in DOMAIN all} = 0..t.first_unused - 1
     /\ \A i \in DOMAIN blocks :
          LET p == View(t, blocks[i][2], blocks[i][1])
          IN /\ p.level = blocks[i][2]
             /\ p.level > 0 => \A c \in DOMAIN p.items :
                  View(t, p.level - 1, p.items[c].blk).rev <= p.rev
             /\ p.total = FreeWith(p.items, p.level)
             /\ 0 <= p.max /\ p.max <= p.total
             /\ p.items # <<>>

\* The committed revision as a process that opens the table finds it.
Committed == do_open_to_write(t.disk, info)

(* At every moment the file and the RootInfo of the version file hold all of *)
(* the committed revision: a reader, or a writer after a crash, finds the    *)
(* tags of the last commit and their number, and none of its blocks has been *)
(* written over (alter, get_block, flush_db, commit, cancel).                *)
CommittedReadable ==
  LET tb == Committed
      blocks == TreeBlocks(tb)
      items == LeafItems(tb, blocks)
  IN /\ Stored(items) = saved
     /\ InOrder(items)
     /\ info.item_count = Cardinality(DOMAIN saved)
     /\ ~info.fake => \A b \in DOMAIN blocks :
                        View(tb, blocks[b][2], blocks[b][1]).rev <= info.rev

LeavesOf(blocks) == SelectSeq(blocks, LAMBDA b : b[2] = 0)

\* The leaf blocks in the order of the file, as next_for_sequential meets them.
LeavesInFile(tb) ==
  SelectSeq([i \in 1..tb.first_unused |-> <<i - 1, 0>>],
            LAMBDA b : IF tb.C[0].n = b[1] THEN TRUE
                       ELSE /\ \A j \in 1..tb.level : tb.C[j].n # b[1]
                            /\ read_block(tb, b[1]).level = 0)

(* While a table is marked sequential the leaves of its tree are exactly the *)
(* leaf blocks of the file, in the order of their numbers, so that the walk  *)
(* along the file (next_for_sequential, prev_for_sequential) visits what the *)
(* walk over the branches would; both for the writer and in what it commits  *)
(* (add_kt, delete_kt, the sequential member of RootInfo).                   *)
SequentialInOrder ==
  /\ t.sequential => LeavesOf(TreeBlocks(t)) = LeavesInFile(t)
  /\ info.sequential => LeavesOf(TreeBlocks(Committed)) = LeavesInFile(Committed)

(* Every look-up returns what the table holds at that moment, and every move *)
(* of a cursor ends on the entry that the order of the keys asks for, the    *)
(* tag read there is whole, and no call throws: whatever was added, deleted, *)
(* committed or cancelled since the cursor was placed (GlassCursor::next,    *)
(* find_entry, find_entry_lt, find_entry_ge, find_exact, read_tag, rebuild,  *)
(* MutableGlassCursor::del, GlassTable::get_exact_entry).  Two situations in  *)
(* which the code breaks this are left to constants: with QuietDeletes no key *)
(* that is missing is deleted while a cursor is in use, and without           *)
(* StaleReads no tag is read through a cursor older than a cancel.            *)
AnswersRight == wrong = {}
=============================================================================
