--------------------------- MODULE GlassFreeList ---------------------------
(***************************************************************************)
(* The free list of one glass table (class GlassFreeList), as operators on *)
(* a record that holds the C++ object's members together with the table    *)
(* file the object reads and writes:                                       *)
(*                                                                         *)
(*   disk      the table file, a function from block numbers to blocks     *)
(*   revision, first_unused_block, flw_appending   as in the class         *)
(*   fl        where the next free block is read                           *)
(*   fl_end    where this transaction must stop reading                    *)
(*   flw       where the next freed block is written                       *)
(*   p, pw     the cached read block and write block, NULL when not loaded *)
(*   corrupt   TRUE once the code has thrown DatabaseCorruptError          *)
(*                                                                         *)
(* A freelist block is a sequence of Slots entries and, in the last place, *)
(* the number of the next freelist block.  Offsets into a block count      *)
(* entries instead of bytes: offset 0 is the code's 0 (no freelist yet),   *)
(* C_BASE is 1 and FREELIST_END - 4 is NextSlot.                           *)
(***************************************************************************)
EXTENDS Integers, Sequences, FiniteSets

CONSTANT Slots    \* entries per freelist block; GLASS_FREELIST_SIZE - 1 or more

ASSUME SlotsAssumption == Slots \in Nat /\ Slots >= 2

UNUSED == -1
Junk == -2                  \* the content of memory that was never written
NULL == <<>>
C_BASE == 1
NextSlot == Slots + 1
LEVEL_FREELIST == 254

NoCursor == [n |-> 0, c |-> 0]

FreeListBlock(rev, entries) ==
    [level |-> LEVEL_FREELIST, rev |-> rev, entries |-> entries]

Fail(s) == [s EXCEPT !.corrupt = TRUE]

NewFreeList(disk) ==
    [disk |-> disk, revision |-> 0, first_unused_block |-> 0,
     fl |-> NoCursor, fl_end |-> NoCursor, flw |-> NoCursor,
     flw_appending |-> FALSE, p |-> NULL, pw |-> NULL, corrupt |-> FALSE]

-----------------------------------------------------------------------------
(* Reading and writing whole blocks.                                       *)

IsFreeListBlock(s, n) ==
    n \in DOMAIN s.disk /\ s.disk[n].level = LEVEL_FREELIST

read_block(s, n, cache) ==
    IF IsFreeListBlock(s, n)
    THEN [s EXCEPT ![cache] = s.disk[n].entries]
    ELSE Fail(s)

write_block(s, n, rev) ==
    [s EXCEPT !.disk[n] = FreeListBlock(rev, s.pw)]

-----------------------------------------------------------------------------
(* get_block.  A result pairs the object with the block returned and with  *)
(* the exhausted freelist block that the caller has still to free.         *)

Result(s, blk, blk_to_free) ==
    [s |-> s, blk |-> blk, blk_to_free |-> blk_to_free]

ExtendFile(s) ==
    Result([s EXCEPT !.first_unused_block = @ + 1],
           s.first_unused_block, UNUSED)

TakeEntry(s) ==
    LET blk == s.p[s.fl.c] IN
    IF blk = UNUSED
    THEN Result(Fail(s), UNUSED, UNUSED)
    ELSE Result([s EXCEPT !.fl.c = @ + 1], blk, UNUSED)

LoadRead(s) ==
    IF s.p # NULL THEN s ELSE read_block(s, s.fl.n, "p")

FollowNext(s) ==
    LET n == s.p[NextSlot] IN
    IF n = UNUSED THEN Fail(s)
    ELSE read_block([s EXCEPT !.fl = [n |-> n, c |-> C_BASE]], n, "p")

(* The code's tail call, made just after fl entered a new freelist block.  *)
(* At most one of that block's Slots entries has been taken since, so it   *)
(* never has to follow a next pointer itself; were it to, Fail shows it.   *)
get_block_again(s) ==
    CASE s.corrupt -> Result(s, UNUSED, UNUSED)
      [] ~s.corrupt /\ s.fl = s.fl_end -> ExtendFile(s)
      [] ~s.corrupt /\ s.fl # s.fl_end /\ s.fl.c # NextSlot -> TakeEntry(s)
      [] OTHER -> Result(Fail(s), UNUSED, UNUSED)

get_block_delaying(s) ==
    IF s.fl = s.fl_end THEN ExtendFile(s)
    ELSE LET loaded == LoadRead(s) IN
         IF loaded.corrupt THEN Result(loaded, UNUSED, UNUSED)
         ELSE IF loaded.fl.c # NextSlot THEN TakeEntry(loaded)
         ELSE [get_block_again(FollowNext(loaded))
                   EXCEPT !.blk_to_free = loaded.fl.n]

-----------------------------------------------------------------------------
(* mark_block_unused.                                                      *)

LoadWrite(s) ==
    CASE s.pw # NULL -> s
      [] s.pw = NULL /\ s.flw.c # 0 ->
           [read_block(s, s.flw.n, "pw") EXCEPT !.flw_appending = TRUE]
      [] OTHER -> [s EXCEPT !.pw = [i \in 1..NextSlot |-> Junk]]

CopyToRead(s) ==
    IF s.p # NULL /\ s.flw.n = s.fl.n THEN [s EXCEPT !.p = s.pw] ELSE s

StartWriteBlock(s, n) ==
    [s EXCEPT !.flw = [n |-> n, c |-> C_BASE],
              !.flw_appending = (n = s.first_unused_block - 1),
              !.pw[NextSlot] = UNUSED]

FirstWriteBlock(s, n) ==
    LET t == StartWriteBlock(s, n) IN
    IF s.fl.c = 0 THEN [t EXCEPT !.fl = t.flw, !.fl_end = t.flw] ELSE t

ChainWriteBlock(s, n) ==
    LET linked == [s EXCEPT !.pw[NextSlot] = n]
        written == write_block(linked, s.flw.n, s.revision + 1)
    IN StartWriteBlock(CopyToRead(written), n)

(* Mutant: the freed block may be used again in this transaction.          *)
AppendEntryAtOnce(s, blk) ==
    IF s.flw.c \in 1..Slots
    THEN [s EXCEPT !.pw[s.flw.c] = blk, !.flw.c = @ + 1,
                   !.fl_end = [s.flw EXCEPT !.c = @ + 1]]
    ELSE Fail(s)

AppendEntry(s, blk) ==
    IF s.flw.c \in 1..Slots
    THEN [s EXCEPT !.pw[s.flw.c] = blk, !.flw.c = @ + 1]
    ELSE Fail(s)

mark_block_unused(s, blk) ==
    LET ready == LoadWrite(s)
        got == get_block_delaying(ready)
        roomy == IF ready.flw.c = 0 THEN FirstWriteBlock(got.s, got.blk)
                                    ELSE ChainWriteBlock(got.s, got.blk)
    IN CASE ready.corrupt -> ready
         [] ~ready.corrupt /\ ready.flw.c \notin {0, NextSlot} ->
              AppendEntry(ready, blk)
         [] ~ready.corrupt /\ ready.flw.c \in {0, NextSlot} /\ got.s.corrupt -> got.s
         [] OTHER -> IF got.blk_to_free = UNUSED THEN AppendEntry(roomy, blk)
                     ELSE AppendEntry(AppendEntry(roomy, blk), got.blk_to_free)

(* Mutant: an exhausted freelist block is never given back.                *)
get_block_leaking(s) == get_block_delaying(s)

get_block(s) ==
    LET got == get_block_delaying(s)
        moved == FollowNext(LoadRead(s))
    IN IF got.blk_to_free = UNUSED THEN got
       ELSE IF moved.corrupt THEN Result(moved, UNUSED, UNUSED)
       ELSE get_block_again(mark_block_unused(moved, got.blk_to_free))

-----------------------------------------------------------------------------
(* Committing, and saving to and restoring from the version file.          *)

commit(s, rev) ==
    LET t == [s EXCEPT !.revision = rev]
        padded == [t EXCEPT !.pw = [i \in 1..NextSlot |->
                       IF i \in t.flw.c..Slots THEN UNUSED ELSE t.pw[i]]]
        copied == CopyToRead(write_block(padded, t.flw.n, rev))
    IN IF t.pw = NULL \/ t.flw.c = 0 THEN t
       ELSE [copied EXCEPT !.flw_appending = TRUE, !.fl_end = copied.flw]

pack(s) ==
    [revision |-> s.revision, first_unused_block |-> s.first_unused_block,
     fl |-> s.fl, flw |-> s.flw]

EmptyPack == [revision |-> -1]       \* the empty string of a new RootInfo

unpack(s, packed) ==
    [s EXCEPT !.revision = packed.revision,
              !.first_unused_block = packed.first_unused_block,
              !.fl = packed.fl, !.flw = packed.flw, !.fl_end = packed.flw,
              !.flw_appending = FALSE]

reset(s) ==
    [s EXCEPT !.revision = 0, !.first_unused_block = 0,
              !.flw_appending = FALSE]

restore(s, packed) ==
    IF packed = EmptyPack THEN reset(s) ELSE unpack(s, packed)

-----------------------------------------------------------------------------
(* walk(..., inclusive = true) called until empty(), as the checker does:  *)
(* places are the cursor positions it goes through up to and including     *)
(* "to", and walk gives for each one before that the block number there;   *)
(* to these the checker adds from.n.  A cursor has no more positions than  *)
(* the freelist blocks of the file have entries.                           *)

entry(disk, at) == disk[at.n].entries[at.c]

Advance(disk, at) ==
    IF at.n \notin DOMAIN disk \/ disk[at.n].level # LEVEL_FREELIST THEN at
    ELSE IF at.c # NextSlot THEN [at EXCEPT !.c = @ + 1]
    ELSE [n |-> entry(disk, at), c |-> C_BASE]

places(disk, from, to) ==
    LET moves == NextSlot *
            Cardinality({b \in DOMAIN disk : disk[b].level = LEVEL_FREELIST})
        reached[i \in 0..moves] ==
            IF i = 0 THEN {from}
            ELSE UNION {{at} \cup (IF at = to THEN {} ELSE {Advance(disk, at)}) :
                           at \in reached[i - 1]}
    IN reached[moves]

Arrives(disk, from, to) == to \in places(disk, from, to)

walk(disk, from, to) ==
    [at \in places(disk, from, to) \ {to} |-> entry(disk, at)]
=============================================================================
