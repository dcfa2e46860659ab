---------------------------- MODULE GlassCommit ----------------------------
(***************************************************************************)
(* How a glass database commits: several tables, the version file that     *)
(* names their roots (iamglass), and the changeset kept for replicas, with *)
(* I/O errors at every step, a killed writer, a power failure, and readers *)
(* that open the database meanwhile.                                       *)
(*                                                                         *)
(* A table's root stands for the set of transactions its tree contains.    *)
(* That the blocks under a committed root stay in the table file until the *)
(* next commit is what CowStore shows; here it is taken for granted.       *)
(* A rename is atomic and lasts; a file's content lasts once it is synced. *)
(***************************************************************************)
EXTENDS Integers, Sequences, FiniteSets, Functions

CONSTANTS Tables,          \* the tables, in the order set_revision_number takes them
          Reader,          \* processes that open the database to read
          MaxTxn,          \* bound on the number of transactions
          MaxChangesets    \* XAPIAN_MAX_CHANGESETS is at most this

ASSUME TablesAssumption == Tables \in Seq(STRING) /\ Len(Tables) > 0
ASSUME BoundsAssumption == MaxTxn \in Nat /\ MaxChangesets \in Nat

Table == Range(Tables)
Txn == 1..MaxTxn
Root == [Table -> SUBSET Txn]
NoRoot == [t \in Table |-> {}]

VARIABLES
    iamglass,   \* the version file: revision, a root per table, statistics
    vtmp,       \* v.tmp, a sequence that is empty while there is no such file
    tfile,      \* per table, the roots whose blocks are written, and synced
    files,      \* the changeset files changesN, a function from N
    v,          \* GlassVersion version_file
    tab,        \* the GlassTable objects: revision, root, modified, handle
    chg,        \* GlassChanges changes, and the changestmp file it writes
    pc,         \* where the writer is, and at which table
    txn,        \* the transaction being built
    outcome,    \* per transaction: the tables it changed, and how it ended
    done,       \* per revision: the version file that committed it
    reader      \* per reader: version_file and the tables' roots

disk == <<iamglass, vtmp, tfile, files>>
writer == <<v, tab, chg, pc, txn>>
vars == <<disk, writer, outcome, done, reader>>

At(where) == [at |-> where, i |-> 1]
idle == pc = At("idle")
here == Tables[pc.i]

Version(rev, root, stats, oldest) ==
    [rev |-> rev, root |-> root, stats |-> stats, oldest |-> oldest]

NewVersion(file) ==
    [rev |-> file.rev, root |-> file.root, old_root |-> file.root,
     stats |-> file.stats, serialised_stats |-> file.stats]

OpenTable(rev, root) == [rev |-> rev, root |-> root, modified |-> FALSE, open |-> TRUE]

OpenTables(file, rev) == [t \in Table |-> OpenTable(rev, file.root[t])]

-----------------------------------------------------------------------------
(* GlassChanges.  on: changes_fd is open; used: the tables hold a pointer  *)
(* to it; the rest is what changestmp says.  Every start() looks up        *)
(* XAPIAN_MAX_CHANGESETS again: max is any value.                          *)

NoChanges == [on |-> FALSE, used |-> FALSE, start |-> 0, end |-> 0,
              blocks |-> NoRoot, version |-> 0, max |-> 0, oldest |-> 0]

start(c, old_rev, rev, max) ==
    IF max = 0 THEN [c EXCEPT !.max = 0, !.used = FALSE]
    ELSE [on |-> TRUE, used |-> TRUE, start |-> old_rev, end |-> rev,
          blocks |-> NoRoot, version |-> 0, max |-> max, oldest |-> c.oldest]

Changeset(c) == [start |-> c.start, end |-> c.end,
                 blocks |-> c.blocks, version |-> c.version]

(* GlassChanges::commit: changestmp becomes changes<new_rev - 1>, and the  *)
(* changesets from before the last max revisions go.                       *)
Kept(c, new_rev) ==
    IF new_rev <= c.max THEN c.oldest
    ELSE LET stop == new_rev - c.max IN IF c.oldest < stop THEN stop ELSE c.oldest

commit_changes(c, new_rev) ==
    LET all == [n \in DOMAIN files \cup {new_rev - 1} |->
                   IF n = new_rev - 1 THEN Changeset(c) ELSE files[n]]
        removed == c.oldest..Kept(c, new_rev) - 1
    IN IF ~c.on THEN files ELSE [n \in DOMAIN all \ removed |-> all[n]]

-----------------------------------------------------------------------------
Empty == Version(0, NoRoot, {}, 0)

(* A reader's Database object; built is TRUE once its constructor, which   *)
(* calls open_tables for the first time, has returned.                     *)
NoDatabase == [rev |-> 0, want |-> NoRoot, root |-> NoRoot, i |-> 0,
               built |-> FALSE, failed |-> FALSE, closed |-> FALSE]

(* create_and_open_tables, which starts no changeset.                      *)
Init ==
    /\ iamglass = Empty
    /\ vtmp = <<>>
    /\ tfile = [t \in Table |-> [written |-> {{}}, synced |-> {{}}]]
    /\ files = [n \in {} |-> {}]
    /\ v = NewVersion(Empty)
    /\ tab = OpenTables(Empty, 0)
    /\ chg = NoChanges
    /\ pc = At("idle")
    /\ txn = 1
    /\ outcome = [k \in Txn |-> [result |-> "none", touched |-> {}]]
    /\ done = [r \in {0} |-> Empty]
    /\ reader = [x \in Reader |-> NoDatabase]

-----------------------------------------------------------------------------
(* The writer.                                                             *)

new_revision == v.rev + 1

Ends(result) ==
    /\ outcome' = [outcome EXCEPT ![txn].result = result]
    /\ txn' = txn + 1

(* A modification changes one table, and the statistics.                   *)
modify(t) ==
    /\ idle /\ txn <= MaxTxn
    /\ txn \notin tab[t].root
    /\ tab' = [tab EXCEPT ![t].modified = TRUE, ![t].root = @ \cup {txn}]
    /\ v' = [v EXCEPT !.stats = @ \cup {txn}]
    /\ outcome' = [outcome EXCEPT ![txn].touched = @ \cup {t}]
    /\ UNCHANGED <<disk, chg, pc, txn, done, reader>>

Restored(w) == [w EXCEPT !.root = w.old_root, !.stats = w.serialised_stats]

CancelTables(w) ==
    [t \in Table |-> IF tab[t].open THEN OpenTable(w.rev, w.root[t]) ELSE tab[t]]

cancel ==
    /\ idle
    /\ v.stats # v.serialised_stats
    /\ v' = Restored(v)
    /\ tab' = CancelTables(v')
    /\ Ends("cancelled")
    /\ UNCHANGED <<disk, chg, pc, done, reader>>

apply ==
    /\ idle
    /\ \E t \in Table : tab[t].modified
    /\ pc' = At("flush_db")
    /\ UNCHANGED <<disk, v, tab, chg, txn, outcome, done, reader>>

(* After a step of set_revision_number: the next table, or the next stage. *)
Then(stage) ==
    pc' = IF pc.i < Len(Tables) THEN [pc EXCEPT !.i = @ + 1] ELSE At(stage)

(* Mutant: the blocks are not added to the changeset.                      *)
flush_db_only ==
    /\ pc.at = "flush_db"
    /\ tfile' = [tfile EXCEPT ![here].written = @ \cup {tab[here].root}]
    /\ Then("commit")
    /\ UNCHANGED <<iamglass, vtmp, files, v, tab, chg, txn, outcome, done, reader>>

flush_db ==
    /\ pc.at = "flush_db"
    /\ tfile' = [tfile EXCEPT ![here].written = @ \cup {tab[here].root}]
    /\ chg' = IF chg.used THEN [chg EXCEPT !.blocks[here] = @ \cup tab[here].root]
                          ELSE chg
    /\ Then("commit")
    /\ UNCHANGED <<iamglass, vtmp, files, v, tab, txn, outcome, done, reader>>

commit_table ==
    /\ pc.at = "commit"
    /\ v' = [v EXCEPT !.root[here] = tab[here].root]
    /\ tab' = [tab EXCEPT ![here] = OpenTable(new_revision, @.root)]
    /\ Then("write")
    /\ UNCHANGED <<disk, chg, txn, outcome, done, reader>>

write_version ==
    /\ pc.at = "write"
    /\ v' = [v EXCEPT !.serialised_stats = v.stats]
    /\ vtmp' = <<Version(new_revision, v.root, v.stats, chg.oldest)>>
    /\ chg' = IF chg.used THEN [chg EXCEPT !.version = new_revision] ELSE chg
    /\ pc' = At("sync")
    /\ UNCHANGED <<iamglass, tfile, files, tab, txn, outcome, done, reader>>

(* Mutant: only the first table is synced.                                 *)
sync_first ==
    /\ pc.at = "sync"
    /\ tfile' = [tfile EXCEPT ![Tables[1]].synced = tfile[Tables[1]].written]
    /\ pc' = At("version_sync")
    /\ UNCHANGED <<iamglass, vtmp, files, v, tab, chg, txn, outcome, done, reader>>

sync_table ==
    /\ pc.at = "sync"
    /\ tfile' = [tfile EXCEPT ![here].synced = tfile[here].written]
    /\ Then("version_sync")
    /\ UNCHANGED <<iamglass, vtmp, files, v, tab, chg, txn, outcome, done, reader>>

(* v.tmp is synced, closed and renamed.                                    *)
sync_version ==
    /\ pc.at = "version_sync"
    /\ iamglass' = vtmp[1]
    /\ vtmp' = <<>>
    /\ done' = [r \in DOMAIN done \cup {new_revision} |->
                   IF r = new_revision THEN vtmp[1] ELSE done[r]]
    /\ v' = [v EXCEPT !.old_root = v.root, !.rev = new_revision]
    /\ pc' = At("changes")
    /\ UNCHANGED <<tfile, files, tab, chg, txn, outcome, reader>>

(* changes.commit, and changes.start for the next revision, after which    *)
(* commit() returns.                                                       *)
commit_and_start(max) ==
    /\ pc.at = "changes"
    /\ files' = commit_changes(chg, v.rev)
    /\ chg' = start([chg EXCEPT !.on = FALSE,
                                !.oldest = IF chg.on THEN Kept(chg, v.rev) ELSE @],
                    v.rev, v.rev + 1, max)
    /\ Ends("committed")
    /\ pc' = At("idle")
    /\ UNCHANGED <<iamglass, vtmp, tfile, v, tab, done, reader>>

-----------------------------------------------------------------------------
(* An I/O error: commit() throws, after modifications_failed.  That goes   *)
(* back to the version file on disk, or closes the database if it cannot.  *)

Unlinked == IF pc.at \in {"sync", "version_sync"} THEN <<>> ELSE vtmp

(* Mutant: the version file is not read again, only cancelled.             *)
modifications_half_failed(new_rev, max) ==
    /\ Ends("failed")
    /\ vtmp' = Unlinked
    /\ \/ /\ v' = Restored(v)
          /\ tab' = OpenTables(iamglass, v.rev)
          /\ chg' = start(chg, v.rev, new_rev, max)
          /\ pc' = At("idle")
       \/ /\ pc' = At("closed")
          /\ UNCHANGED <<v, tab, chg>>
    /\ UNCHANGED <<iamglass, tfile, files, done, reader>>

(* Mutant: the tables are not opened again.                                *)
modifications_left(new_rev, max) ==
    /\ Ends("failed")
    /\ vtmp' = Unlinked
    /\ \/ /\ v' = NewVersion(iamglass)
          /\ tab' = tab
          /\ chg' = start(chg, v.rev, new_rev, max)
          /\ pc' = At("idle")
       \/ /\ pc' = At("closed")
          /\ UNCHANGED <<v, tab, chg>>
    /\ UNCHANGED <<iamglass, tfile, files, done, reader>>

modifications_failed(new_rev, max) ==
    /\ Ends("failed")
    /\ vtmp' = Unlinked
    /\ \/ /\ v' = NewVersion(iamglass)
          /\ tab' = OpenTables(iamglass, v.rev)
          /\ chg' = start(chg, v.rev, new_rev, max)
          /\ pc' = At("idle")
       \/ /\ pc' = At("closed")
          /\ UNCHANGED <<v, tab, chg>>
    /\ UNCHANGED <<iamglass, tfile, files, done, reader>>

commit_fails(max) ==
    /\ pc.at \in {"flush_db", "commit", "write", "sync", "version_sync"}
    /\ modifications_failed(new_revision, max)

(* changes.commit fails, once the version file has been renamed.           *)
changes_fail(max) ==
    /\ pc.at = "changes" /\ chg.on
    /\ modifications_failed(v.rev, max)

(* The writer is killed, at any point, and another one opens the database. *)
Restart(max) ==
    /\ txn <= MaxTxn
    /\ Ends(IF outcome[txn].touched = {} THEN "none" ELSE "killed")
    /\ v' = NewVersion(iamglass)
    /\ tab' = OpenTables(iamglass, iamglass.rev)
    /\ chg' = start([NoChanges EXCEPT !.oldest = iamglass.oldest],
                    iamglass.rev, iamglass.rev + 1, max)
    /\ pc' = At("idle")
    /\ UNCHANGED <<iamglass, vtmp, files, done, reader>>

killed(max) == Restart(max) /\ UNCHANGED tfile

power_failure(max) ==
    /\ Restart(max)
    /\ tfile' = [t \in Table |-> [tfile[t] EXCEPT !.written = @ \cap tfile[t].synced]]

-----------------------------------------------------------------------------
(* Readers.  open_tables reads the version file, and then opens the tables *)
(* in the order opposite to the one they are committed in.                 *)

Returned(x) == reader[x].i = 0

open_version(x) ==
    LET cur_rev == reader[x].rev IN
    /\ Returned(x) /\ ~reader[x].closed
    /\ reader' = IF cur_rev # 0 /\ cur_rev = iamglass.rev
                 THEN [reader EXCEPT ![x].failed = FALSE]
                 ELSE [reader EXCEPT ![x].rev = iamglass.rev,
                                     ![x].want = iamglass.root,
                                     ![x].i = Len(Tables),
                                     ![x].failed = FALSE]
    /\ UNCHANGED <<disk, writer, outcome, done>>

(* Mutant: the version file is read again for every table.                 *)
open_newest_table(x) ==
    LET t == Tables[reader[x].i] IN
    /\ ~Returned(x)
    /\ iamglass.root[t] \in tfile[t].written
    /\ reader' = [reader EXCEPT ![x].root[t] = iamglass.root[t], ![x].i = @ - 1,
                                ![x].built = @ \/ reader[x].i = 1]
    /\ UNCHANGED <<disk, writer, outcome, done>>

open_table(x) ==
    LET t == Tables[reader[x].i] IN
    /\ ~Returned(x)
    /\ reader[x].want[t] \in tfile[t].written
    /\ reader' = [reader EXCEPT ![x].root[t] = reader[x].want[t], ![x].i = @ - 1,
                                ![x].built = @ \/ reader[x].i = 1]
    /\ UNCHANGED <<disk, writer, outcome, done>>

(* The table has been closed, and opening it again throws.  A constructor  *)
(* that throws leaves no object.  The next reopen() of one that exists     *)
(* throws if the table that failed is the postlist table.                  *)
OpenThrows(x) ==
    LET t == Tables[reader[x].i] IN
    /\ ~Returned(x)
    /\ reader' = IF ~reader[x].built THEN [reader EXCEPT ![x] = NoDatabase]
                 ELSE [reader EXCEPT ![x].root[t] = {}, ![x].i = 0, ![x].failed = TRUE,
                                     ![x].closed = (reader[x].i = 1 /\ reader[x].rev # 0)]
    /\ UNCHANGED <<disk, writer, outcome, done>>

(* read_root: a later revision has been committed since, and the next one  *)
(* is being built over the blocks it freed: DatabaseModifiedError.         *)
open_overwritten(x) ==
    /\ iamglass.rev > reader[x].rev
    /\ OpenThrows(x)

(* Too many open files, say.                                               *)
open_fails(x) == OpenThrows(x)

-----------------------------------------------------------------------------
WriterStep ==
    \/ \E t \in Table : modify(t)
    \/ cancel
    \/ apply
    \/ flush_db
    \/ commit_table
    \/ write_version
    \/ sync_table
    \/ sync_version
    \/ \E max \in 0..MaxChangesets : commit_and_start(max)
    \/ \E max \in 0..MaxChangesets : commit_fails(max)
    \/ \E max \in 0..MaxChangesets : killed(max)
    \/ \E max \in 0..MaxChangesets : power_failure(max)

ReaderStep ==
    \E x \in Reader : open_version(x) \/ open_table(x) \/ open_overwritten(x)

Next == WriterStep \/ ReaderStep

Spec == Init /\ [][Next]_vars

(* With what the properties below do not survive.                          *)
SpecChangesFail == Init /\ [][Next \/ \E max \in 0..MaxChangesets : changes_fail(max)]_vars

SpecOpenFails == Init /\ [][Next \/ \E x \in Reader : open_fails(x)]_vars

-----------------------------------------------------------------------------
(* Types; set_revision_number takes the tables one by one and none beyond the *)
(* last.                                                                   *)
TypeOK ==
    /\ iamglass.root \in Root /\ v.root \in Root /\ v.old_root \in Root
    /\ \A t \in Table : tab[t].root \subseteq Txn
    /\ pc.i \in DOMAIN Tables
    /\ txn \in 1..MaxTxn + 1
    /\ DOMAIN files \subseteq 0..MaxTxn
    /\ \A x \in Reader : reader[x].i \in 0..Len(Tables) /\ reader[x].root \in Root

(* A power failure at any moment leaves a version file whose roots' blocks *)
(* are all on disk: every table is synced before the version file is       *)
(* renamed.                                                                *)
SurvivesPowerFailure ==
    \A t \in Table : iamglass.root[t] \in tfile[t].synced

(* "in any committed revision of the database either none are present or   *)
(* they all are" (include/xapian/database.h): a transaction's changes to   *)
(* all tables and to the statistics are committed together, whatever       *)
(* failed before.                                                          *)
AllOrNothing ==
    \A k \in Txn :
        \/ /\ k \in iamglass.stats
           /\ \A t \in outcome[k].touched : k \in iamglass.root[t]
        \/ /\ k \notin iamglass.stats
           /\ \A t \in Table : k \notin iamglass.root[t]

(* What commit() or cancel() has told the caller stays true: no later      *)
(* failure, crash or rollback loses a transaction that was committed, and  *)
(* "If the commit operation fails, then any pending modifications are      *)
(* discarded" (include/xapian/database.h), from the file and from memory.  *)
OutcomeStands ==
    \A k \in Txn :
        /\ outcome[k].result = "committed" => k \in iamglass.stats
        /\ outcome[k].result \in {"failed", "cancelled"} =>
              /\ k \notin iamglass.stats
              /\ pc.at # "closed" => k \notin v.stats
              /\ \A t \in Table : k \notin iamglass.root[t] /\
                                  (pc.at # "closed" => k \notin tab[t].root)

(* A changeset file takes a copy of the revision in its name to the next   *)
(* one: it holds the blocks of every transaction committed between them,   *)
(* and that revision's version file.  No more of them are kept than the    *)
(* largest XAPIAN_MAX_CHANGESETS, restarts from an older oldest_changeset  *)
(* included.                                                               *)
ChangesetsApply ==
    /\ \A n \in DOMAIN files :
          /\ files[n].start = n /\ files[n].end = n + 1 /\ files[n].version = n + 1
          /\ \A t \in Table : done[n + 1].root[t] \ done[n].root[t] \subseteq files[n].blocks[t]
    /\ Cardinality(DOMAIN files) <= MaxChangesets

(* "We're reopening a database and the revision hasn't changed so we don't *)
(* need to do anything": when open_tables has returned, every table is at  *)
(* the revision that the database object reports.                          *)
ReaderAtOneRevision ==
    \A x \in Reader : Returned(x) /\ ~reader[x].failed =>
        reader[x].root = done[reader[x].rev].root
=============================================================================
