--------------------------- MODULE PostlistChunks ---------------------------
(***************************************************************************)
(* A posting list in GlassPostListTable: chunks under keys made of the     *)
(* term and, but for the first chunk, of the first docid in the chunk.     *)
(* merge_changes and merge_doclen_changes rewrite the chunks that a batch  *)
(* of changes touches; GlassPostList reads them back, also while the       *)
(* deletion of every document a term indexes flushes changes underneath.   *)
(*                                                                         *)
(* A table is [chunks, tf, cf]: chunks maps a key (0 for the first chunk)  *)
(* to [first, last, is_last, data], where data is a sequence of            *)
(* [inc, wdf]: the first docid is in the header (or the key), the others   *)
(* are increments.  ChunkSize counts entries where CHUNKSIZE counts bytes. *)
(***************************************************************************)
EXTENDS Integers, Sequences, FiniteSets, TLC, FiniteSetsExt, Functions

CONSTANTS ChunkSize,     \* entries after which a chunk is full
          MaxDocid,      \* bound on the docids
          Wdf,           \* the wdfs, or the document lengths
          MaxBatch,      \* bound on the documents with buffered changes
          Kinds,         \* "term" for a term's list, "doclen" for the lengths
          QuietLoops,    \* no flush in a loop but in the last chunk of the list
          NoList         \* no iterator

Docid == 1..MaxDocid
Infinity == MaxDocid + 1
Deleted == -1           \* DELETED_POSTING
EmptyMap == [x \in {} |-> 0]
Drop(f, keys) == Restrict(f, DOMAIN f \ keys)

-----------------------------------------------------------------------------
(* PostlistChunkReader and PostlistChunkWriter.                            *)

Chunk(first, last, is_last, data) ==
    [first |-> first, last |-> last, is_last |-> is_last, data |-> data]

\* The docid of the i-th entry of a chunk.
EntryDid(first, data, i) ==
    first + SumFunction([j \in 2..i |-> data[j].inc + 1])

Decode(first, data) ==
    [i \in 1..Len(data) |-> [did |-> EntryDid(first, data, i), wdf |-> data[i].wdf]]

NextKey(chunks, k) ==
    LET later == {j \in DOMAIN chunks : j > k}
    IN  IF later = {} THEN Infinity ELSE Min(later)

FlushEmptyUnmarked(chunks, to) ==
    IF to.is_first /\ ~to.is_last
    THEN LET n == NextKey(chunks, 0)
         IN  (0 :> [chunks[n] EXCEPT !.first = n]) @@ Drop(chunks, {n})
    ELSE Drop(chunks, {to.key})

\* PostlistChunkWriter::flush of a chunk that lost all its entries.
FlushEmpty(chunks, to) ==
    IF to.is_first /\ to.is_last THEN Drop(chunks, {to.key})
    ELSE IF to.is_first
    THEN LET n == NextKey(chunks, 0)
         IN  (0 :> [chunks[n] EXCEPT !.first = n]) @@ Drop(chunks, {n})
    ELSE LET left == Drop(chunks, {to.key})
             prev == Max({k \in DOMAIN left : k < to.key})
         IN  IF to.is_last THEN [left EXCEPT ![prev].is_last = TRUE] ELSE left

\* PostlistChunkWriter::flush.
WriterFlush(chunks, to) ==
    LET new == Chunk(to.first, to.cur, to.is_last, to.data)
    IN  IF ~to.started THEN FlushEmpty(chunks, to)
        ELSE IF to.is_first THEN (0 :> new) @@ chunks
        ELSE (to.first :> new) @@ Drop(chunks, {to.key})

\* PostlistChunkWriter::append, on a merge in progress.
Append1(m, did, wdf) ==
    LET to == m.to
        entry == <<[inc |-> 0, wdf |-> wdf]>>
    IN  IF ~to.started
        THEN [m EXCEPT !.to = [to EXCEPT !.started = TRUE, !.first = did, !.cur = did,
                                         !.data = entry]]
        ELSE IF Len(to.data) >= ChunkSize
        THEN [m EXCEPT !.chunks = WriterFlush(@, [to EXCEPT !.is_last = FALSE]),
                       !.to = [to EXCEPT !.is_first = FALSE, !.first = did, !.cur = did,
                                         !.key = did, !.data = entry]]
        ELSE [m EXCEPT !.to.data = Append(@, [inc |-> did - to.cur - 1, wdf |-> wdf]),
                       !.to.cur = did]

-----------------------------------------------------------------------------
(* GlassPostListTable.                                                     *)

\* get_chunk: the chunk that a docid belongs to, to be read and rewritten, or
\* copied whole when the docid comes after it.  to_did is the last docid that
\* may go into it.
get_chunk(chunks, did) ==
    LET k == Max({j \in DOMAIN chunks : j <= did})
        c == chunks[k]
        after == did > c.last
        to == [key |-> k, is_first |-> k = 0, is_last |-> c.is_last,
               started |-> after /\ c.data # <<>>, first |-> c.first, cur |-> c.last,
               data |-> IF after THEN c.data ELSE <<>>]
    IN  [chunks |-> chunks, to |-> to,
         from |-> IF after THEN <<>> ELSE Decode(c.first, c.data),
         max_did |-> IF c.is_last THEN Infinity ELSE NextKey(chunks, k) - 1]

RECURSIVE CopyBelow(_, _)
\* Copies the entries below a docid, and skips the entry of that docid.
CopyBelow(m, did) ==
    IF m.from = <<>> \/ Head(m.from).did > did THEN m
    ELSE IF Head(m.from).did = did THEN [m EXCEPT !.from = Tail(@)]
    ELSE CopyBelow([Append1(m, Head(m.from).did, Head(m.from).wdf)
                       EXCEPT !.from = Tail(@)], did)

RECURSIVE MergeOne(_, _, _)
\* One change: on to the next chunk while this one ends before the docid.
MergeOne(m, did, wdf) ==
    LET c == CopyBelow(m, did)
    IN  IF c.from = <<>> /\ did > c.max_did
        THEN MergeOne(get_chunk(WriterFlush(c.chunks, c.to), did), did, wdf)
        ELSE IF wdf = Deleted THEN c ELSE Append1(c, did, wdf)

MergeAllCutShort(chunks, changes) ==
    LET start == get_chunk(chunks, Min(DOMAIN changes))
        m == MapThenFoldSet(LAMBDA did, n : MergeOne(n, did, changes[did]), start,
                            LAMBDA did : did, Max, DOMAIN changes)
    IN  WriterFlush(m.chunks, m.to)

\* The loop that merge_changes and merge_doclen_changes share.
MergeAll(chunks, changes) ==
    LET start == get_chunk(chunks, Min(DOMAIN changes))
        merged == MapThenFoldSet(LAMBDA did, m : MergeOne(m, did, changes[did]), start,
                                 LAMBDA did : did, Max, DOMAIN changes)
        m == CopyBelow(merged, Infinity)
    IN  WriterFlush(m.chunks, m.to)

DummyChunk == 0 :> Chunk(1, 1, TRUE, <<>>)

merge_changes(tab, changes, tf, cf) ==
    LET chunks == IF 0 \in DOMAIN tab.chunks THEN tab.chunks ELSE DummyChunk
    IN  IF tab.tf + tf = 0 THEN [chunks |-> EmptyMap, tf |-> 0, cf |-> 0]
        ELSE [chunks |-> MergeAll(chunks, changes), tf |-> tab.tf + tf, cf |-> tab.cf + cf]

merge_doclen_changes(tab, changes) ==
    LET chunks == IF 0 \in DOMAIN tab.chunks THEN tab.chunks ELSE DummyChunk
    IN  IF DOMAIN changes = {} THEN tab
        ELSE [tab EXCEPT !.chunks = MergeAll(chunks, changes)]

\* get_freqs: an upper bound of the wdfs from the first one.
wdf_upper_bound(tab) ==
    IF tab.cf = 0 \/ tab.tf = 1 THEN tab.cf
    ELSE LET w == Head(tab.chunks[0].data).wdf IN Max({tab.cf - w, w})

get_used_docid_range(tab) ==
    IF 0 \notin DOMAIN tab.chunks THEN <<0, 0>>
    ELSE <<tab.chunks[0].first, tab.chunks[Max(DOMAIN tab.chunks)].last>>

-----------------------------------------------------------------------------
(* GlassPostList.  The chunk it is in was copied when it was read: key is  *)
(* where, at what follows of it.                                           *)

\* Entering the chunk under a key.
EnterChunk(chunks, k) ==
    LET c == chunks[k]
    IN  [key |-> k, did |-> c.first, wdf |-> Head(c.data).wdf, at |-> Tail(c.data),
         first |-> c.first, last |-> c.last, is_last |-> c.is_last, end |-> "no"]

AtEnd == [key |-> 0, did |-> 0, wdf |-> 0, at |-> <<>>, first |-> 0, last |-> 0,
          is_last |-> TRUE, end |-> "yes"]

OpenList(chunks) == IF DOMAIN chunks = {} THEN AtEnd ELSE EnterChunk(chunks, 0)

\* next_chunk, where the cursor moves on to the first key after the one it
\* was on.  Running out of keys, or going back, is DatabaseCorruptError.
next_chunk(chunks, it) ==
    IF it.is_last THEN [it EXCEPT !.end = "yes"]
    ELSE IF NextKey(chunks, it.key) \notin it.did + 1..MaxDocid THEN [it EXCEPT !.end = "corrupt"]
    ELSE EnterChunk(chunks, NextKey(chunks, it.key))

NextInChunk(it) ==
    [it EXCEPT !.did = @ + Head(it.at).inc + 1, !.wdf = Head(it.at).wdf, !.at = Tail(@)]

NextPosting(chunks, it) == IF it.at = <<>> THEN next_chunk(chunks, it) ELSE NextInChunk(it)

move_to_chunk_before(chunks, did) == EnterChunk(chunks, Max({k \in DOMAIN chunks : k <= did}))

move_to_chunk_containing(chunks, did) ==
    LET it == EnterChunk(chunks, Max({k \in DOMAIN chunks : k <= did}))
    IN  IF did > it.last THEN next_chunk(chunks, it) ELSE it

RECURSIVE MoveForward(_, _)
\* move_forward_in_chunk_to_at_least.
MoveForward(it, did) ==
    IF it.did >= did \/ it.at = <<>> THEN it ELSE MoveForward(NextInChunk(it), did)

skip_to(chunks, it, did) ==
    IF it.end # "no" \/ did <= it.did THEN it
    ELSE LET c == IF did \in it.first..it.last THEN it
                  ELSE move_to_chunk_containing(chunks, did)
         IN  IF c.end # "no" THEN c ELSE MoveForward(c, did)


\* jump_to, which may also go back: where it stops, and whether it is there.
jump_to(chunks, it, did) ==
    LET moves == it.end # "no" \/ did \notin it.first..it.last \/ did < it.did
        c == IF moves THEN move_to_chunk_containing(chunks, did) ELSE it
    IN  IF c.end # "no" THEN c ELSE MoveForward(c, did)

JumpedTo(it, did) == it.end = "no" /\ it.did = did

-----------------------------------------------------------------------------
(* The list at work.  pend is the Inverter's buffer for it, live the list  *)
(* it should be; loop is the delete_document or replace_document by term   *)
(* that is under way with its iterator it.  For the list of lengths it is  *)
(* doclen_pl, which keeps its place between two calls.                     *)

VARIABLES kind, tab, pend, live, it, loop

vars == <<kind, tab, pend, live, it, loop>>

NoChanges == [tf |-> 0, cf |-> 0, pl |-> EmptyMap]
NoLoop == [on |-> FALSE, kept |-> {}]
EmptyTable == [chunks |-> EmptyMap, tf |-> 0, cf |-> 0]

Posting(tf, cf, did, wdf) ==
    [tf |-> pend.tf + tf, cf |-> pend.cf + cf, pl |-> (did :> wdf) @@ pend.pl]

\* flush_post_list or flush_doclengths on the buffered changes.
Flushed(changes) ==
    IF DOMAIN changes.pl = {} THEN tab
    ELSE IF kind = "term" THEN merge_changes(tab, changes.pl, changes.tf, changes.cf)
    ELSE merge_doclen_changes(tab, changes.pl)

Buffers(did) == ~loop.on /\ Cardinality(DOMAIN pend.pl \cup {did}) <= MaxBatch

add_posting(did, wdf) ==
    /\ Buffers(did) /\ did \notin DOMAIN live
    /\ pend' = Posting(1, wdf, did, wdf)
    /\ live' = (did :> wdf) @@ live
    /\ UNCHANGED <<kind, tab, it, loop>>

remove_posting(did) ==
    /\ Buffers(did) /\ did \in DOMAIN live
    /\ pend' = Posting(-1, -live[did], did, Deleted)
    /\ live' = Drop(live, {did})
    /\ UNCHANGED <<kind, tab, it, loop>>

update_posting(did, wdf) ==
    /\ Buffers(did) /\ did \in DOMAIN live /\ live[did] # wdf
    /\ pend' = Posting(0, wdf - live[did], did, wdf)
    /\ live' = [live EXCEPT ![did] = wdf]
    /\ UNCHANGED <<kind, tab, it, loop>>

\* A flush, after which doclen_pl is made anew.
Flush ==
    /\ ~loop.on /\ DOMAIN pend.pl # {}
    /\ tab' = Flushed(pend)
    /\ pend' = NoChanges
    /\ it' = NoList
    /\ UNCHANGED <<kind, live, loop>>

\* get_doclength of a document whose length is not buffered.
get_doclength(did) ==
    LET pl == IF it = NoList THEN OpenList(tab.chunks) ELSE it
    IN  /\ kind = "doclen" /\ DOMAIN tab.chunks # {} /\ did \notin DOMAIN pend.pl
        /\ it' = jump_to(tab.chunks, pl, did)
        /\ UNCHANGED <<kind, tab, pend, live, loop>>


\* The loop opens the list, which flushes the term's changes.
OpenByTerm ==
    /\ kind = "term" /\ ~loop.on
    /\ tab' = Flushed(pend)
    /\ pend' = NoChanges
    /\ it' = OpenList(tab'.chunks)
    /\ it'.end = "no"
    /\ loop' = [NoLoop EXCEPT !.on = TRUE]
    /\ UNCHANGED <<kind, live>>

\* The threshold falls anywhere; QuietLoops keeps it to the last chunk.
FlushDue(flush) == flush /\ QuietLoops => it.is_last

\* The end of an iteration: the threshold flush, if it is due, then next().
Advance(changes, flush) ==
    /\ tab' = IF flush THEN Flushed(changes) ELSE tab
    /\ pend' = IF flush THEN NoChanges ELSE changes
    /\ it' = NextPosting(tab'.chunks, it)

\* One iteration: the document is deleted.
DeleteInLoop(flush) ==
    /\ loop.on /\ it.end = "no" /\ FlushDue(flush)
    /\ Advance(Posting(-1, -it.wdf, it.did, Deleted), flush)
    /\ live' = Drop(live, {it.did})
    /\ UNCHANGED <<kind, loop>>

\* replace_document by term replaces the first document by one which the
\* term indexes too, and deletes the others.
ReplaceFirst(wdf, flush) ==
    /\ loop.on /\ it.end = "no" /\ FlushDue(flush) /\ it.key = 0 /\ it.did = it.first /\ loop.kept = {}
    /\ it.did = Min(DOMAIN live)
    /\ DOMAIN pend.pl = {}
    /\ IF wdf = it.wdf THEN Advance(pend, flush)
       ELSE Advance(Posting(0, wdf - it.wdf, it.did, wdf), flush)
    /\ live' = [live EXCEPT ![it.did] = wdf]
    /\ loop' = [loop EXCEPT !.kept = {it.did}]
    /\ UNCHANGED kind

LoopEnds ==
    /\ loop.on /\ it.end # "no"
    /\ it' = NoList
    /\ loop' = NoLoop
    /\ UNCHANGED <<kind, tab, pend, live>>

Changes ==
    \/ \E did \in Docid, wdf \in Wdf : add_posting(did, wdf) \/ update_posting(did, wdf)
    \/ \E did \in Docid : remove_posting(did) \/ get_doclength(did)
    \/ Flush

ByTerm ==
    \/ OpenByTerm
    \/ \E flush \in BOOLEAN : DeleteInLoop(flush)
    \/ \E wdf \in Wdf, flush \in BOOLEAN : ReplaceFirst(wdf, flush)
    \/ LoopEnds

Init ==
    /\ kind \in Kinds
    /\ tab = EmptyTable
    /\ pend = NoChanges
    /\ live = EmptyMap
    /\ it = NoList
    /\ loop = NoLoop

Next == Changes \/ ByTerm

Spec == Init /\ [][Next]_vars

-----------------------------------------------------------------------------
(* Properties.                                                             *)

\* The chunks of a list, read in the order of their keys.
Stored ==
    LET Pairs(c) == {<<EntryDid(c.first, c.data, i), c.data[i].wdf>> : i \in DOMAIN c.data}
    IN  UNION {Pairs(tab.chunks[k]) : k \in DOMAIN tab.chunks}

\* What the chunks hold together with the buffered changes is the list.
ListAsChanged ==
    /\ LET stored == Stored
       IN  /\ \A did \in DOMAIN live :
                 IF did \in DOMAIN pend.pl THEN pend.pl[did] = live[did]
                 ELSE <<did, live[did]>> \in stored
           /\ \A p \in stored : p[1] \in DOMAIN pend.pl \/ p[1] \in DOMAIN live
    /\ \A did \in DOMAIN pend.pl : did \in DOMAIN live \/ pend.pl[did] = Deleted

\* The chunks stay in order: each is filed under its first docid, its header
\* gives its last docid, only the last one is marked so, and none is empty or
\* larger than a chunk may be, which get_chunk and next_chunk rely on.  The
\* header has the frequencies of the list that is stored, and the bound on
\* the wdf that get_freqs derives from the first one is a bound on all.
ChunksInOrder ==
    /\ \A k \in DOMAIN tab.chunks :
          LET c == tab.chunks[k]
              n == NextKey(tab.chunks, k)
          IN  /\ Len(c.data) \in 1..ChunkSize
              /\ k # 0 => c.first = k
              /\ c.last = EntryDid(c.first, c.data, Len(c.data))
              /\ c.last < n
              /\ c.is_last <=> n = Infinity
              /\ 0 \in DOMAIN tab.chunks
    /\ kind = "term" =>
          LET stored == Stored
          IN  /\ tab.tf = Cardinality(stored)
              /\ tab.cf = MapThenSumSet(LAMBDA p : p[2], stored)
              /\ DOMAIN tab.chunks # {} => \A p \in stored : p[2] <= wdf_upper_bound(tab)

\* Wherever an iterator over the stored list is, skip_to finds the first
\* posting that is not before the docid asked for, or the end.
SkipFinds ==
    LET stored == Stored
        dids == {p[1] : p \in stored}
        Found(s, later) == IF later = {} THEN s.end = "yes"
                           ELSE s.end = "no" /\ <<s.did, s.wdf>> \in stored
                                /\ s.did = Min(later)
        FromHere(i, a) == \A did \in a..MaxDocid :
                             Found(skip_to(tab.chunks, i, did), {d \in dids : d >= did})
    IN  DOMAIN pend.pl = {} /\ DOMAIN tab.chunks # {} =>
            \A a \in dids : FromHere(skip_to(tab.chunks, OpenList(tab.chunks), a), a)


=============================================================================
