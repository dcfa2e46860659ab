---------------------------- MODULE CowReaders ----------------------------
(***************************************************************************)
(* Readers of a copy-on-write file.  A reader takes no lock: it opens the  *)
(* revision that the version file names and then follows block pointers,   *)
(* while the writer goes on to reuse the blocks that later revisions freed.*)
(* The revisions stamped on the blocks are all it has to notice by.        *)
(***************************************************************************)
EXTENDS CowStore

CONSTANT Reader    \* processes reading the table

VARIABLES
    snap,      \* for each committed revision, the contents it consists of
    reader     \* per reader: the revision it opened, the blocks it accepted,
               \* and whether it met a DatabaseModifiedError

vars == <<disk, owner, committed, saved, rev, snap, reader>>

NothingSeen == [b \in Block |-> Absent]

RInit ==
    /\ Init
    /\ snap = [r \in 0..0 |-> NothingSeen]
    /\ reader = [x \in Reader |-> [rev |-> -1, seen |-> NothingSeen,
                                   modified |-> FALSE]]

Write ==
    /\ Build \/ Abandon
    /\ UNCHANGED <<snap, reader>>

CommitRevision ==
    /\ Commit
    /\ snap' = [r \in 0..rev + 1 |-> IF r \in 0..rev THEN snap[r] ELSE saved']
    /\ UNCHANGED reader

(* open() and reopen().                                                    *)
Open(x) ==
    /\ reader' = [reader EXCEPT ![x] = [rev |-> rev, seen |-> NothingSeen,
                                        modified |-> FALSE]]
    /\ UNCHANGED <<store, snap>>

(* Mutant: the revision is not looked at.                                  *)
AcceptAny(x, b, limit) ==
    /\ reader' = [reader EXCEPT ![x].seen[b] = disk[b]]
    /\ UNCHANGED <<store, snap>>

(* block_to_cursor and read_root: the block is accepted if its revision is *)
(* no later than limit; otherwise throw_overwritten.                       *)
Accept(x, b, limit) ==
    /\ reader' = IF disk[b].rev <= limit
                 THEN [reader EXCEPT ![x].seen[b] = disk[b]]
                 ELSE [reader EXCEPT ![x].modified = TRUE]
    /\ UNCHANGED <<store, snap>>

Reading(x) == reader[x].rev >= 0 /\ ~reader[x].modified

(* The version file gives the number of the root: some block of the        *)
(* revision opened.                                                        *)
ReadRoot(x, b) ==
    /\ Reading(x)
    /\ snap[reader[x].rev][b] # Absent
    /\ Accept(x, b, reader[x].rev)

ReadChild(x, parent, b) ==
    /\ Reading(x)
    /\ reader[x].seen[parent] # Absent
    /\ b \in reader[x].seen[parent].kids
    /\ Accept(x, b, reader[x].seen[parent].rev)

Read(x) ==
    \/ Open(x)
    \/ \E b \in Block : ReadRoot(x, b)
    \/ \E parent, b \in Block : ReadChild(x, parent, b)

RNext == Write \/ CommitRevision \/ \E x \in Reader : Read(x)

RSpec == RInit /\ [][RNext]_vars

-----------------------------------------------------------------------------
(* Types of what the readers of a table know (GlassTable::open onwards).   *)
ReadersTypeOK ==
    /\ snap \in [0..rev -> [Block -> Contents \cup {Absent}]]
    /\ reader \in [Reader -> [rev : {-1} \cup 0..rev,
                              seen : [Block -> Contents \cup {Absent}],
                              modified : BOOLEAN]]

(* A reader never takes a block for part of its revision that a later      *)
(* transaction has overwritten: what block_to_cursor accepted is what that *)
(* revision holds, however many commits have passed since it opened.       *)
ReaderSeesItsRevision ==
    \A x \in Reader, b \in Block :
        reader[x].seen[b] # Absent =>
            reader[x].rev >= 0 /\ reader[x].seen[b] = snap[reader[x].rev][b]

(* Why: a block of an old revision is as it was, or has been stamped by a  *)
(* transaction that began after the next revision was committed (what is   *)
(* freed waits for a commit); and old revisions point only into themselves.*)
OverwrittenShows ==
    \A r \in 0..rev, b \in Block : snap[r][b] # Absent =>
        /\ snap[r][b].rev <= r
        /\ disk[b] = snap[r][b] \/ disk[b].rev > r + 1
        /\ \A k \in snap[r][b].kids : snap[r][k] # Absent

(* The inductive invariant of writer and readers together.                 *)
RInv ==
    /\ Inv
    /\ ReadersTypeOK
    /\ snap[rev] = saved
    /\ OverwrittenShows
    /\ ReaderSeesItsRevision
=============================================================================
