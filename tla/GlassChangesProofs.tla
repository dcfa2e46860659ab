-------------------------- MODULE GlassChangesProofs --------------------------
(***************************************************************************)
(* The changeset files and the readers of GlassCommit, for any number of   *)
(* tables, transactions and readers and any XAPIAN_MAX_CHANGESETS.         *)
(*                                                                         *)
(* A changeset file holds what its name says because start() is called     *)
(* with the revision on disk after every commit and every failure          *)
(* (BeingWritten), because each table adds its blocks before its root is   *)
(* put into the version (Contents), and because a file that is still open  *)
(* when XAPIAN_MAX_CHANGESETS goes to 0 is removed by the commit that      *)
(* names it.  That no more than the limit are left needs a lower bound on  *)
(* their names that survives a restart from an older version file          *)
(* (FilesKept).  A reader's tables are at one revision because an object   *)
(* whose reopen() failed is behind the version file or closed (ReaderOK).  *)
(***************************************************************************)
EXTENDS GlassCommitProofs, FiniteSetTheorems

GlassChanges == [on : BOOLEAN, used : BOOLEAN, start : Nat, end : Nat, blocks : Root,
                 version : Nat, max : 0..MaxChangesets, oldest : Nat]

\* Every revision there has been, the last one in the version file.
History ==
    /\ DOMAIN done = 0..iamglass.rev
    /\ done[0] = Empty /\ done[iamglass.rev] = iamglass
    /\ \A r \in 0..iamglass.rev : done[r].root \in Root

\* The revision that the present commit starts from.
base == IF pc.at = "changes" THEN v.rev - 1 ELSE v.rev

\* The changeset being written, if the tables write one, is of this commit;
\* one that is still open but not written to is removed when it is committed.
BeingWritten ==
    pc.at # "closed" =>
        /\ iamglass.oldest <= chg.oldest /\ chg.oldest <= base
        /\ \A n \in DOMAIN files : chg.oldest <= n /\ n < base
        /\ chg.on /\ ~chg.used => chg.max = 0
        /\ chg.used => chg.on /\ chg.start = base /\ chg.end = base + 1

\* It has the blocks of the tables written so far, and the version.
Contents ==
    chg.used =>
        /\ pc.at = "flush_db" => \A t \in Passed : tab[t].root \subseteq chg.blocks[t]
        /\ pc.at \in {"commit", "write", "sync", "version_sync", "changes"} =>
              \A t \in Table : tab[t].root \subseteq chg.blocks[t]
        /\ pc.at \in {"sync", "version_sync", "changes"} => chg.version = base + 1

FilesKept ==
    /\ iamglass.oldest \in Nat /\ iamglass.oldest <= iamglass.rev
    /\ \A n \in DOMAIN files : n \in Nat /\ iamglass.oldest <= n /\ n < iamglass.rev

CInv == /\ History /\ chg \in GlassChanges /\ BeingWritten /\ Contents /\ FilesKept
        /\ ChangesetsApply

-----------------------------------------------------------------------------
(* A set of numbers within m below r has at most m members.                *)
LEMMA Few ==
    ASSUME NEW r \in Nat, NEW m \in Nat, NEW S,
           \A n \in S : n \in Nat /\ r - m <= n /\ n < r
    PROVE  IsFiniteSet(S) /\ Cardinality(S) <= m
<1>1. /\ IsFiniteSet((r - m)..(r - 1))
      /\ Cardinality((r - m)..(r - 1)) = IF r - m > r - 1 THEN 0 ELSE (r - 1) - (r - m) + 1
  BY FS_Interval
<1>2. Cardinality((r - m)..(r - 1)) = m
  BY <1>1
<1>3. S \subseteq (r - m)..(r - 1)
  OBVIOUS
<1>4. IsFiniteSet(S) /\ Cardinality(S) <= Cardinality((r - m)..(r - 1))
  BY Zenon, <1>1, <1>3, FS_Subset
<1> QED
  BY <1>2, <1>4

(* Start, with any XAPIAN_MAX_CHANGESETS.                                  *)
LEMMA Starts ==
    ASSUME NEW c \in GlassChanges, NEW r \in Nat, NEW max \in 0..MaxChangesets,
           chg' = start(c, r, r + 1, max)
    PROVE  /\ chg' \in GlassChanges /\ chg'.oldest = c.oldest
           /\ chg'.used => chg'.on /\ chg'.start = r /\ chg'.end = r + 1
           /\ chg'.on /\ ~chg'.used => chg'.max = 0
<1>1. NoRoot \in Root
  BY DEF NoRoot, Root
<1>2. CASE max = 0
  BY Zenon, <1>2 DEF start, GlassChanges
<1>3. CASE max # 0
  BY <1>1, <1>3 DEF start, GlassChanges
<1> QED
  BY <1>2, <1>3

\* A step that starts a changeset for the next revision, from c.
Starting(c, max) ==
    /\ c \in GlassChanges /\ max \in 0..MaxChangesets
    /\ chg' = start(c, iamglass.rev, iamglass.rev + 1, max)
    /\ iamglass' = iamglass /\ done' = done
    /\ pc'.at = "idle" /\ v'.rev = iamglass.rev
    /\ iamglass.oldest <= c.oldest /\ c.oldest <= iamglass.rev
    /\ \A n \in DOMAIN files' : n \in Nat /\ c.oldest <= n /\ n < iamglass.rev
    /\ ChangesetsApply'

(* A new changeset starts at the revision on disk.                         *)
LEMMA StartingC ==
    ASSUME WInv, CInv, NEW c, NEW max, Starting(c, max)
    PROVE  CInv'
<1>1. iamglass.rev \in Nat /\ iamglass.oldest \in Nat
  BY DEF WInv, WTypeOK, CInv, FilesKept
<1>2. /\ chg' \in GlassChanges /\ chg'.oldest = c.oldest
      /\ chg'.used => chg'.on /\ chg'.start = iamglass.rev /\ chg'.end = iamglass.rev + 1
      /\ chg'.on /\ ~chg'.used => chg'.max = 0
  BY <1>1, Starts DEF Starting
<1>3. History'
  BY DEF CInv, History, Starting
<1>4. BeingWritten'
  BY <1>1, <1>2 DEF Starting, BeingWritten, base
<1>5. Contents'
  BY DEF Starting, Contents
<1>6. FilesKept'
  BY <1>1 DEF Starting, FilesKept, GlassChanges
<1> QED
  BY <1>2, <1>3, <1>4, <1>5, <1>6 DEF CInv, Starting

\* A step before the rename that leaves the changeset's header alone.
Before ==
    /\ pc.at \notin {"changes", "closed"} /\ pc'.at \notin {"changes", "closed"}
    /\ UNCHANGED <<iamglass, files, done>> /\ v'.rev = v.rev
    /\ chg' \in GlassChanges
    /\ chg'.on = chg.on /\ chg'.used = chg.used /\ chg'.start = chg.start
    /\ chg'.end = chg.end /\ chg'.max = chg.max /\ chg'.oldest = chg.oldest
    /\ Contents'

(* Such a step keeps the invariant if the changeset has what the stage it  *)
(* leads to asks for.                                                      *)
LEMMA BeforeC ==
    ASSUME WInv, CInv, Before
    PROVE  CInv'
<1>1. History' /\ FilesKept'
  BY DEF CInv, History, FilesKept, Before
<1>2. BeingWritten'
  BY DEF CInv, BeingWritten, base, Before
<1>3. ChangesetsApply'
  BY DEF CInv, ChangesetsApply, Before
<1> QED
  BY <1>1, <1>2, <1>3 DEF CInv, Before

(* Before and between the stages that write blocks.                        *)
LEMMA ModifyC ==
    ASSUME WInv, CInv, (\E t \in Table : modify(t)) \/ cancel \/ apply
    PROVE  CInv'
<1>1. /\ pc.at = "idle" /\ pc'.at \in {"idle", "flush_db"}
      /\ UNCHANGED <<iamglass, files, chg, done>>
      /\ pc'.at = "flush_db" => Passed' = {}
  <2>1. CASE \E t \in Table : modify(t)
    BY <2>1 DEF modify, idle, At, disk
  <2>2. CASE cancel
    BY <2>2 DEF cancel, idle, At, disk
  <2>3. CASE apply
    BY <2>3 DEF apply, idle, At, disk, Passed
  <2> QED
    BY SMTT(60), <2>1, <2>2, <2>3
<1>2. v'.rev = v.rev
  BY Zenon DEF modify, cancel, Restored, apply, WInv, WTypeOK, GlassVersion
<1> QED
  BY <1>1, <1>2, BeforeC DEF Before, Contents, CInv

(* The stages that write no blocks.                                        *)
LEMMA CommitTableC ==
    ASSUME WInv, CInv, commit_table \/ sync_table
    PROVE  CInv'
<1>1. /\ pc.at \in {"commit", "sync"}
      /\ pc'.at \in {"commit", "write", "sync", "version_sync"}
      /\ pc'.at \in {"sync", "version_sync"} <=> pc.at = "sync"
      /\ UNCHANGED <<iamglass, files, chg, done>>
  BY ThenW DEF commit_table, sync_table, disk, Places
<1>2. v'.rev = v.rev /\ \A t \in Table : tab'[t].root = tab[t].root
  <2>1. here \in Table
    BY ThenW DEF commit_table, sync_table, Places
  <2>2. CASE commit_table
    <3>1. v'.rev = v.rev
      BY <2>2 DEF commit_table, WInv, WTypeOK, GlassVersion
    <3>2. tab' = [tab EXCEPT ![here] = OpenTable(new_revision, tab[here].root)]
      BY <2>2 DEF commit_table
    <3> QED
      BY <2>1, <3>1, <3>2 DEF OpenTable, WInv, WTypeOK
  <2>3. CASE sync_table
    BY <2>3 DEF sync_table
  <2> QED
    BY <2>2, <2>3
<1> QED
  BY <1>1, <1>2, BeforeC DEF Before, Contents, CInv, base

(* flush_db() adds the blocks that it writes to the changeset.             *)
LEMMA FlushC ==
    ASSUME WInv, CInv, flush_db
    PROVE  CInv'
<1>1. /\ here \in Table /\ pc.at = "flush_db"
      /\ \/ pc'.at = "flush_db" /\ Passed' = Passed \cup {here}
         \/ pc'.at = "commit" /\ Passed' = {} /\ Table = Passed \cup {here}
      /\ UNCHANGED <<iamglass, files, tab, v, done>>
  BY ThenW DEF flush_db, Places
<1>2. tab[here].root \in SUBSET Txn /\ chg \in GlassChanges
  BY Zenon, <1>1 DEF WInv, WTypeOK, GlassTable, CInv
<1>3. CASE chg.used
  <2>1. chg' = [chg EXCEPT !.blocks[here] = chg.blocks[here] \cup tab[here].root]
    BY <1>3 DEF flush_db
  <2>2. /\ chg' \in GlassChanges
        /\ chg'.on = chg.on /\ chg'.used = chg.used /\ chg'.start = chg.start
        /\ chg'.end = chg.end /\ chg'.max = chg.max /\ chg'.oldest = chg.oldest
        /\ \A t \in Table \ {here} : chg'.blocks[t] = chg.blocks[t]
        /\ chg'.blocks[here] = chg.blocks[here] \cup tab[here].root
    <3>1. chg.blocks \in [Table -> SUBSET Txn]
      BY <1>2 DEF GlassChanges, Root
    <3>2. [chg.blocks EXCEPT ![here] = chg.blocks[here] \cup tab[here].root] \in Root
      BY <1>1, <1>2, <3>1 DEF Root
    <3>3. /\ chg' \in GlassChanges
          /\ chg'.on = chg.on /\ chg'.used = chg.used /\ chg'.start = chg.start
          /\ chg'.end = chg.end /\ chg'.max = chg.max /\ chg'.oldest = chg.oldest
          /\ chg'.blocks = [chg.blocks EXCEPT ![here] = chg.blocks[here] \cup tab[here].root]
      BY Zenon, <1>2, <2>1, <3>2 DEF GlassChanges
    <3> QED
      BY <1>1, <3>1, <3>3
  <2>3. Passed \subseteq Table
    BY TableNames DEF WInv, WTypeOK, Passed
  <2>4. \A t \in Passed \cup {here} : tab'[t].root \subseteq chg'.blocks[t]
    BY <1>1, <1>3, <2>2, <2>3 DEF CInv, Contents
  <2>5. Contents'
    BY <1>1, <2>4 DEF Contents
  <2> QED
    BY SMTT(60), <1>1, <2>2, <2>5, BeforeC DEF Before
<1>4. CASE ~chg.used
  BY SMTT(60), <1>1, <1>2, <1>4, BeforeC DEF Before, Contents, flush_db
<1> QED
  BY <1>3, <1>4

(* The version file goes into the changeset as it is written.              *)
LEMMA WriteVersionC ==
    ASSUME WInv, CInv, write_version
    PROVE  CInv'
<1>1. /\ pc.at = "write" /\ pc'.at = "sync"
      /\ UNCHANGED <<iamglass, files, tab, done>>
      /\ v'.rev = v.rev /\ v.rev \in Nat /\ chg \in GlassChanges
  BY DEF write_version, At, WInv, WTypeOK, GlassVersion, CInv
<1>2. CASE chg.used
  <2>1. chg' = [chg EXCEPT !.version = v.rev + 1]
    BY <1>2 DEF write_version, new_revision
  <2>2. /\ chg' \in GlassChanges
        /\ chg'.on = chg.on /\ chg'.used = chg.used /\ chg'.start = chg.start
        /\ chg'.end = chg.end /\ chg'.max = chg.max /\ chg'.oldest = chg.oldest
        /\ chg'.blocks = chg.blocks /\ chg'.version = v.rev + 1
    BY <1>1, <2>1 DEF GlassChanges
  <2>3. Contents'
    BY <1>1, <1>2, <2>2 DEF CInv, Contents, base
  <2> QED
    BY <1>1, <2>2, <2>3, BeforeC DEF Before
<1>3. CASE ~chg.used
  BY <1>1, <1>3, BeforeC DEF Before, Contents, write_version
<1> QED
  BY <1>2, <1>3

(* The rename makes the next revision, whose version file says where the   *)
(* changesets start.                                                       *)
LEMMA SyncVersionC ==
    ASSUME WInv, CInv, sync_version
    PROVE  CInv'
<1>1. /\ pc.at = "version_sync" /\ pc'.at = "changes"
      /\ UNCHANGED <<files, tab, chg>>
      /\ v.rev \in Nat /\ v.rev = iamglass.rev
      /\ v' = [v EXCEPT !.old_root = v.root, !.rev = v.rev + 1]
  BY DEF sync_version, At, new_revision, WInv, WTypeOK, GlassVersion, Built
<1>2. v'.rev = v.rev + 1 /\ v.root \in Root
  BY <1>1 DEF WInv, WTypeOK, GlassVersion
<1>3. iamglass' = Version(v.rev + 1, v.root, v.stats, chg.oldest)
  <2>1. vtmp = <<Version(v.rev + 1, v.root, v.stats, chg.oldest)>>
    BY <1>1 DEF WInv, Progress
  <2> QED
    BY <2>1 DEF sync_version
<1>4. /\ iamglass'.rev = v.rev + 1 /\ iamglass'.root = v.root
      /\ iamglass'.oldest = chg.oldest
  BY <1>3 DEF Version
<1>5. /\ DOMAIN done' = 0..v.rev + 1 /\ done'[v.rev + 1] = iamglass'
      /\ \A r \in 0..v.rev : done'[r] = done[r]
  <2>1. done' = [r \in DOMAIN done \cup {v.rev + 1} |->
                    IF r = v.rev + 1 THEN iamglass' ELSE done[r]]
    BY DEF sync_version, new_revision
  <2>2. DOMAIN done \cup {v.rev + 1} = 0..v.rev + 1
    BY <1>1 DEF CInv, History
  <2> QED
    BY <1>1, <2>1, <2>2
<1>6. History'
  BY SMTT(60), <1>1, <1>2, <1>4, <1>5 DEF CInv, History
<1>7. BeingWritten'
  BY <1>1, <1>2, <1>4 DEF CInv, BeingWritten, base, GlassChanges
<1>8. Contents'
  BY <1>1, <1>2 DEF CInv, Contents, base
<1>9. FilesKept'
  BY <1>1, <1>4 DEF CInv, BeingWritten, base, FilesKept, GlassChanges
<1>10. ChangesetsApply'
  BY SMTT(60), <1>1, <1>5 DEF CInv, FilesKept, ChangesetsApply
<1> QED
  BY SMTT(60), <1>1, <1>6, <1>7, <1>8, <1>9, <1>10 DEF CInv

(* GlassChanges::commit(): the changesets that are left are of the last    *)
(* max revisions, and the one it adds, if it stays, is of this commit.     *)
LEMMA CommitChanges ==
    ASSUME WInv, CInv, pc.at = "changes", chg.on,
           files' = commit_changes(chg, v.rev), done' = done
    PROVE  /\ Kept(chg, v.rev) \in Nat
           /\ chg.oldest <= Kept(chg, v.rev) /\ Kept(chg, v.rev) <= v.rev
           /\ \A n \in DOMAIN files' : n \in Nat /\ Kept(chg, v.rev) <= n /\ n < v.rev
           /\ ChangesetsApply'
<1> DEFINE r == v.rev
           kept == Kept(chg, r)
<1>1. /\ r \in Nat /\ r = iamglass.rev /\ chg.oldest \in Nat /\ chg.oldest <= r - 1
      /\ chg.max \in 0..MaxChangesets /\ chg.max \in Nat
      /\ \A n \in DOMAIN files : n \in Nat /\ chg.oldest <= n /\ n < r - 1
  BY BoundsAssumption
     DEF WInv, WTypeOK, Built, GlassVersion, CInv, BeingWritten, base, GlassChanges, FilesKept
<1>2. /\ kept \in Nat /\ chg.oldest <= kept /\ kept <= r /\ r - chg.max <= kept
      /\ chg.max = 0 => kept = r
  BY <1>1 DEF Kept
<1> HIDE DEF kept
<1>3. /\ DOMAIN files' = (DOMAIN files \cup {r - 1}) \ (chg.oldest..(kept - 1))
      /\ \A n \in DOMAIN files' :
            files'[n] = IF n = r - 1 THEN Changeset(chg) ELSE files[n]
  BY DEF commit_changes, kept
<1>4. \A n \in DOMAIN files' : n \in Nat /\ kept <= n /\ n < r
  BY SMTT(60), <1>1, <1>2, <1>3
<1>5. Cardinality(DOMAIN files') <= MaxChangesets
  <2>1. \A n \in DOMAIN files' : n \in Nat /\ r - chg.max <= n /\ n < r
    BY SMTT(60), <1>1, <1>2, <1>4
  <2>2. IsFiniteSet(DOMAIN files') /\ Cardinality(DOMAIN files') <= chg.max
    BY <1>1, <2>1, Few
  <2>3. Cardinality(DOMAIN files') \in Nat
    BY SMTT(60), <2>2, FS_CardinalityType
  <2> QED
    BY SMTT(60), <1>1, <2>2, <2>3, BoundsAssumption
<1>6. ASSUME NEW n \in DOMAIN files'
      PROVE  /\ files'[n].start = n /\ files'[n].end = n + 1 /\ files'[n].version = n + 1
             /\ \A t \in Table :
                   done[n + 1].root[t] \ done[n].root[t] \subseteq files'[n].blocks[t]
  <2>1. CASE n = r - 1
    <3>1. chg.max # 0
      BY SMTT(60), <1>2, <1>4, <2>1
    <3>2. chg.used
      BY SMTT(60), <3>1 DEF CInv, BeingWritten
    <3>3. /\ chg.start = n /\ chg.end = n + 1 /\ chg.version = n + 1
          /\ \A t \in Table : tab[t].root \subseteq chg.blocks[t]
      BY SMTT(60), <1>1, <2>1, <3>2 DEF CInv, BeingWritten, Contents, base
    <3>4. done[n + 1] = iamglass /\ \A t \in Table : tab[t].root = iamglass.root[t]
      BY SMTT(60), <1>1, <2>1 DEF CInv, History, WInv, Progress
    <3>5. files'[n] = Changeset(chg)
      BY SMTT(60), <1>3, <2>1
    <3> QED
      BY SMTT(60), <3>3, <3>4, <3>5 DEF Changeset
  <2>2. CASE n # r - 1
    BY SMTT(60), <1>3, <2>2 DEF CInv, ChangesetsApply
  <2> QED
    BY SMTT(60), <2>1, <2>2
<1>7. ChangesetsApply'
  BY <1>5, <1>6 DEF ChangesetsApply
<1> QED
  BY <1>1, <1>2, <1>4, <1>7 DEF kept

(* commit() and start() of the changesets, at the end of a commit.         *)
LEMMA CommittedC ==
    ASSUME WInv, CInv, NEW max \in 0..MaxChangesets, commit_and_start(max)
    PROVE  CInv'
<1>1. /\ pc.at = "changes" /\ pc'.at = "idle" /\ UNCHANGED <<iamglass, v, done>>
      /\ files' = commit_changes(chg, v.rev)
      /\ v.rev \in Nat /\ v.rev = iamglass.rev /\ chg \in GlassChanges
  BY DEF commit_and_start, At, WInv, WTypeOK, GlassVersion, Built, CInv
<1>2. CASE chg.on
  <2> DEFINE c == [chg EXCEPT !.on = FALSE, !.oldest = Kept(chg, v.rev)]
  <2>1. /\ Kept(chg, v.rev) \in Nat
        /\ chg.oldest <= Kept(chg, v.rev) /\ Kept(chg, v.rev) <= v.rev
        /\ \A n \in DOMAIN files' : n \in Nat /\ Kept(chg, v.rev) <= n /\ n < v.rev
        /\ ChangesetsApply'
    BY <1>1, <1>2, CommitChanges
  <2>2. chg' = start(c, v.rev, v.rev + 1, max)
    BY <1>2 DEF commit_and_start
  <2>3. c \in GlassChanges /\ c.oldest = Kept(chg, v.rev)
    BY Zenon, <1>1, <2>1 DEF GlassChanges
  <2>4. iamglass.oldest <= Kept(chg, v.rev)
    BY SMTT(60), <1>1, <2>1 DEF CInv, FilesKept, BeingWritten, GlassChanges
  <2> HIDE DEF c
  <2>5. Starting(c, max)
    BY SMTT(60), <1>1, <2>1, <2>2, <2>3, <2>4 DEF Starting
  <2> QED
    BY <2>5, StartingC
<1>3. CASE ~chg.on
  <2> DEFINE c == [chg EXCEPT !.on = FALSE, !.oldest = chg.oldest]
  <2>1. files' = files /\ ChangesetsApply'
    BY <1>1, <1>3 DEF commit_changes, CInv, ChangesetsApply
  <2>2. chg' = start(c, v.rev, v.rev + 1, max)
    BY <1>3 DEF commit_and_start
  <2>3. c \in GlassChanges /\ c.oldest = chg.oldest
    BY Zenon, <1>1 DEF GlassChanges
  <2>4. /\ iamglass.oldest <= chg.oldest /\ chg.oldest <= v.rev
        /\ \A n \in DOMAIN files : n \in Nat /\ chg.oldest <= n /\ n < v.rev
    BY <1>1 DEF CInv, FilesKept, BeingWritten, base, GlassChanges
  <2> HIDE DEF c
  <2>5. Starting(c, max)
    BY SMTT(60), <1>1, <2>1, <2>2, <2>3, <2>4 DEF Starting
  <2> QED
    BY <2>5, StartingC
<1> QED
  BY <1>2, <1>3

(* A commit that fails leaves the changeset files alone.                   *)
LEMMA CommitFailsC ==
    ASSUME WInv, CInv, NEW max \in 0..MaxChangesets, commit_fails(max)
    PROVE  CInv'
<1>1. /\ pc.at \notin {"changes", "closed"} /\ UNCHANGED <<iamglass, files, done>>
      /\ v.rev = iamglass.rev /\ v.rev \in Nat /\ chg \in GlassChanges
  BY DEF commit_fails, modifications_failed, WInv, WTypeOK, GlassVersion, Built, CInv
<1>2. ChangesetsApply'
  BY <1>1 DEF CInv, ChangesetsApply
<1>3. CASE /\ v' = NewVersion(iamglass) /\ pc' = At("idle")
           /\ chg' = start(chg, v.rev, v.rev + 1, max)
  <2>1. v'.rev = iamglass.rev /\ pc'.at = "idle"
    BY <1>3 DEF NewVersion, At
  <2>2. /\ iamglass.oldest <= chg.oldest /\ chg.oldest <= v.rev
        /\ \A n \in DOMAIN files : n \in Nat /\ chg.oldest <= n /\ n < v.rev
    BY <1>1 DEF CInv, FilesKept, BeingWritten, base
  <2>3. Starting(chg, max)
    BY SMTT(60), <1>1, <1>2, <1>3, <2>1, <2>2 DEF Starting
  <2> QED
    BY SMTT(60), <2>3, StartingC
<1>4. CASE pc' = At("closed") /\ chg' = chg
  <2>1. pc'.at = "closed"
    BY <1>4 DEF At
  <2>2. History' /\ FilesKept'
    BY <1>1 DEF CInv, History, FilesKept
  <2>3. BeingWritten' /\ Contents'
    BY <2>1 DEF BeingWritten, Contents
  <2> QED
    BY SMTT(60), <1>2, <1>4, <2>2, <2>3 DEF CInv
<1> QED
  BY SMTT(60), <1>3, <1>4 DEF commit_fails, modifications_failed, new_revision

(* A new writer takes the oldest changeset from the version file, which    *)
(* may say less than the last one knew.                                    *)
LEMMA RestartC ==
    ASSUME WInv, CInv, NEW max \in 0..MaxChangesets, Restart(max)
    PROVE  CInv'
<1> DEFINE c == [NoChanges EXCEPT !.oldest = iamglass.oldest]
<1>1. /\ UNCHANGED <<iamglass, files, done>> /\ pc'.at = "idle" /\ v'.rev = iamglass.rev
      /\ chg' = start(c, iamglass.rev, iamglass.rev + 1, max)
  BY DEF Restart, At, NewVersion
<1>2. /\ iamglass.oldest \in Nat /\ iamglass.oldest <= iamglass.rev
      /\ \A n \in DOMAIN files : n \in Nat /\ iamglass.oldest <= n /\ n < iamglass.rev
  BY DEF CInv, FilesKept
<1>3. c \in GlassChanges /\ c.oldest = iamglass.oldest
  <2>1. NoRoot \in Root
    BY DEF NoRoot, Root
  <2>2. NoChanges \in GlassChanges
    BY <2>1, BoundsAssumption DEF NoChanges, GlassChanges
  <2> QED
    BY <1>2, <2>2 DEF GlassChanges
<1>4. ChangesetsApply'
  BY <1>1 DEF CInv, ChangesetsApply
<1> HIDE DEF c
<1>5. Starting(c, max)
  <2>1. iamglass.oldest <= c.oldest /\ c.oldest <= iamglass.rev
    BY SMTT(60), <1>2, <1>3
  <2> QED
    BY SMTT(60), <1>1, <1>2, <1>3, <1>4, <2>1 DEF Starting
<1> QED
  BY <1>5, StartingC

(* Readers leave the changesets alone.                                     *)
LEMMA ReaderC ==
    ASSUME CInv, UNCHANGED <<disk, writer, done>>
    PROVE  CInv'
BY SMTT(60) DEF CInv, History, BeingWritten, Contents, FilesKept, ChangesetsApply, base, Passed,
       disk, writer

(* A new database has no changesets.                                       *)
LEMMA InitC == Init => CInv
<1> SUFFICES ASSUME Init
             PROVE  CInv
  OBVIOUS
<1>1. /\ pc.at = "idle" /\ v.rev = 0 /\ DOMAIN files = {}
      /\ iamglass = Empty /\ iamglass.rev = 0 /\ iamglass.oldest = 0
      /\ Empty.root = NoRoot /\ NoRoot \in Root
  BY SMTT(60) DEF Init, At, Empty, Version, NewVersion, NoRoot, Root
<1>2. chg \in GlassChanges /\ chg.on = FALSE /\ chg.used = FALSE /\ chg.oldest = 0
  BY SMTT(60), <1>1, BoundsAssumption DEF Init, NoChanges, GlassChanges
<1>3. DOMAIN done = 0..0 /\ done[0] = Empty
  BY DEF Init
<1>4. History
  BY SMTT(60), <1>1, <1>3 DEF History
<1>5. BeingWritten /\ Contents /\ FilesKept
  BY SMTT(60), <1>1, <1>2 DEF BeingWritten, Contents, FilesKept, base
<1>6. ChangesetsApply
  BY SMTT(60), <1>1, FS_EmptySet, BoundsAssumption DEF ChangesetsApply
<1> QED
  BY <1>2, <1>4, <1>5, <1>6 DEF CInv

(* Every step keeps the invariant of the changesets.                       *)
LEMMA NextC == WInv /\ CInv /\ [Next]_vars => CInv'
<1> SUFFICES ASSUME WInv, CInv, [Next]_vars
             PROVE  CInv'
  OBVIOUS
<1>1. CASE WriterStep
  <2>1. CASE (\E t \in Table : modify(t)) \/ cancel \/ apply
    BY <2>1, ModifyC
  <2>2. CASE flush_db \/ commit_table \/ sync_table
    BY SMTT(60), <2>2, FlushC, CommitTableC
  <2>3. CASE write_version \/ sync_version
    BY SMTT(60), <2>3, WriteVersionC, SyncVersionC
  <2>4. CASE \E max \in 0..MaxChangesets : commit_and_start(max) \/ commit_fails(max)
    BY <2>4, CommittedC, CommitFailsC
  <2>5. CASE \E max \in 0..MaxChangesets : killed(max) \/ power_failure(max)
    BY <2>5, RestartC DEF killed, power_failure
  <2> QED
    BY SMTT(60), <1>1, <2>1, <2>2, <2>3, <2>4, <2>5 DEF WriterStep
<1>2. CASE ReaderStep
  <2>1. UNCHANGED <<disk, writer, done>>
    BY Zenon, <1>2 DEF ReaderStep, open_version, open_table, open_overwritten, OpenThrows
  <2> QED
    BY SMTT(60), <2>1, ReaderC
<1>3. CASE UNCHANGED vars
  BY <1>3, ReaderC DEF vars
<1> QED
  BY SMTT(60), <1>1, <1>2, <1>3 DEF Next

(* The inductive invariant of the changesets: the one being written is of  *)
(* the commit under way and has the blocks written so far, and those on    *)
(* disk are within what the version file says is the oldest.               *)
THEOREM ChangesetsInvariant == Spec => []CInv
BY InitC, NextC, CommitInvariant, PTL DEF Spec

(* For any number of tables and any limit, every changeset file holds what *)
(* takes a copy of the revision in its name to the next one, and no more   *)
(* of them are left than the largest XAPIAN_MAX_CHANGESETS, through every  *)
(* failure and restart.                                                    *)
THEOREM ChangesetsApplyHolds == Spec => []ChangesetsApply
<1>1. CInv => ChangesetsApply
  BY SMTT(60) DEF CInv
<1> QED
  BY <1>1, ChangesetsInvariant, PTL

-----------------------------------------------------------------------------
\* A reader has opened the tables after the one it is at.
ReaderOK(x) ==
    LET r == reader[x] IN
    /\ r.rev \in 0..iamglass.rev /\ r.root \in Root /\ r.i \in 0..Len(Tables)
    /\ r.failed => r.i = 0 /\ (r.closed \/ r.rev < iamglass.rev)
    /\ r.i > 0 => r.want = done[r.rev].root
    /\ ~r.failed => \A j \in r.i + 1..Len(Tables) :
                       r.root[Tables[j]] = done[r.rev].root[Tables[j]]

Database == [rev : Nat, want : Root, root : Root, i : Nat,
             built : BOOLEAN, failed : BOOLEAN, closed : BOOLEAN]

RInv == reader \in [Reader -> Database] /\ \A x \in Reader : ReaderOK(x)

(* A later revision, or none.                                              *)
LEMMA WriterR ==
    ASSUME WInv, CInv, RInv, reader' = reader, iamglass.rev <= iamglass'.rev,
           iamglass'.rev \in Nat, \A r \in 0..iamglass.rev : done'[r] = done[r]
    PROVE  RInv'
<1>1. iamglass.rev \in Nat
  BY DEF WInv, WTypeOK
<1> QED
  BY SMTT(60), <1>1 DEF RInv, ReaderOK

\* A step of the reader x.
ReaderMove(x) ==
    /\ UNCHANGED <<iamglass, done>>
    /\ reader' \in [Reader -> Database] /\ \A y \in Reader \ {x} : reader'[y] = reader[y]

(* It concerns no other reader.                                            *)
LEMMA ReaderMoveR ==
    ASSUME RInv, NEW x \in Reader, ReaderMove(x), ReaderOK(x)'
    PROVE  RInv'
BY SMTT(60) DEF RInv, ReaderMove, ReaderOK

(* open_tables() reads the version file: an object at that revision        *)
(* already has its tables there.                                           *)
LEMMA OpenVersionR ==
    ASSUME WInv, CInv, RInv, NEW x \in Reader, open_version(x)
    PROVE  RInv'
<1>1. /\ UNCHANGED <<iamglass, done>> /\ iamglass.rev \in Nat
      /\ iamglass.root \in Root /\ done[iamglass.rev].root = iamglass.root
      /\ reader \in [Reader -> Database] /\ Len(Tables) \in Nat
      /\ reader[x].i = 0 /\ reader[x].closed = FALSE
  BY TableNames DEF open_version, disk, WInv, WTypeOK, CInv, History, RInv, Returned, Database
<1>2. CASE reader[x].rev # 0 /\ reader[x].rev = iamglass.rev
  <2>1. reader' = [reader EXCEPT ![x].failed = FALSE]
    BY SMTT(60), <1>2 DEF open_version
  <2>2. reader[x].failed = FALSE
    BY <1>1, <1>2 DEF RInv, ReaderOK, Database
  <2>3. reader' = reader
    BY SMTT(60), <1>1, <2>1, <2>2 DEF Database
  <2> QED
    BY <1>1, <2>3 DEF RInv, ReaderOK
<1>3. CASE ~(reader[x].rev # 0 /\ reader[x].rev = iamglass.rev)
  <2>1. reader' = [reader EXCEPT ![x].rev = iamglass.rev, ![x].want = iamglass.root,
                                 ![x].i = Len(Tables), ![x].failed = FALSE]
    BY <1>3 DEF open_version
  <2> DEFINE r == [reader[x] EXCEPT !.rev = iamglass.rev, !.want = iamglass.root,
                                    !.i = Len(Tables), !.failed = FALSE]
  <2>2. /\ r \in Database /\ r.rev = iamglass.rev /\ r.want = iamglass.root
        /\ r.i = Len(Tables) /\ r.failed = FALSE /\ r.root = reader[x].root
    BY Zenon, <1>1 DEF Database
  <2>3. reader' = [reader EXCEPT ![x] = r]
    BY Zenon, <1>1, <2>1 DEF Database
  <2> HIDE DEF r
  <2>4. ReaderMove(x) /\ reader'[x] = r
    BY SMTT(60), <1>1, <2>2, <2>3 DEF ReaderMove
  <2>5. ReaderOK(x)'
    BY SMTT(60), <1>1, <2>2, <2>4 DEF RInv, ReaderOK
  <2> QED
    BY SMTT(60), <2>4, <2>5, ReaderMoveR
<1> QED
  BY <1>2, <1>3

(* A table is opened at the root that the version file read before gave.   *)
LEMMA OpenTableR ==
    ASSUME WInv, CInv, RInv, NEW x \in Reader, open_table(x)
    PROVE  RInv'
<1> DEFINE i == reader[x].i
           t == Tables[i]
           b == reader[x].built \/ i = 1
           r == [reader[x] EXCEPT !.root[t] = reader[x].want[t], !.i = i - 1, !.built = b]
<1>1. /\ UNCHANGED <<iamglass, done>> /\ reader \in [Reader -> Database]
      /\ Len(Tables) \in Nat /\ i \in 1..Len(Tables) /\ t \in Table
      /\ reader[x].rev \in 0..iamglass.rev
      /\ reader[x].want = done[reader[x].rev].root
      /\ reader[x].want \in Root /\ reader[x].root \in Root
      /\ reader[x].failed = FALSE
  <2>1. UNCHANGED <<iamglass, done>> /\ i # 0
    BY DEF open_table, disk, Returned
  <2>2. reader \in [Reader -> Database] /\ reader[x] \in Database /\ ReaderOK(x)
    BY SMTT(60) DEF RInv
  <2>3. i \in 1..Len(Tables) /\ Len(Tables) \in Nat /\ t \in Table
    BY SMTT(60), <2>1, <2>2, TableNames DEF ReaderOK
  <2>4. reader[x].failed = FALSE
    BY SMTT(60), <2>1, <2>2 DEF ReaderOK, Database
  <2> QED
    BY SMTT(60), <2>1, <2>2, <2>3, <2>4 DEF ReaderOK, Database
<1>2. reader' = [reader EXCEPT ![x] = r]
  BY Zenon, <1>1 DEF open_table, Database
<1>3. [reader[x].root EXCEPT ![t] = reader[x].want[t]] \in Root
  BY SMTT(60), <1>1 DEF Root
<1>4. /\ r \in Database /\ r.rev = reader[x].rev /\ r.want = reader[x].want
      /\ r.i = i - 1 /\ r.failed = FALSE
      /\ r.root = [reader[x].root EXCEPT ![t] = reader[x].want[t]]
  <2>1. b \in BOOLEAN /\ i - 1 \in Nat /\ reader[x] \in Database
    BY <1>1
  <2> HIDE DEF b, i, t
  <2>2. r \in Database
    BY Zenon, <1>3, <2>1 DEF Database
  <2> QED
    BY SMTT(60), <1>1, <2>2 DEF Database
<1> HIDE DEF r
<1>5. ReaderMove(x) /\ reader'[x] = r
  BY SMTT(60), <1>1, <1>2, <1>4 DEF ReaderMove
<1>6. \A j \in i..Len(Tables) : r.root[Tables[j]] = done[r.rev].root[Tables[j]]
  <2> SUFFICES ASSUME NEW j \in i..Len(Tables)
               PROVE  r.root[Tables[j]] = done[r.rev].root[Tables[j]]
    OBVIOUS
  <2>1. Tables[j] \in Table /\ DOMAIN reader[x].root = Table
    BY SMTT(60), <1>1, TableNames DEF Root
  <2>2. CASE Tables[j] = t
    BY SMTT(60), <1>1, <1>4, <2>1, <2>2
  <2>3. CASE Tables[j] # t
    <3>1. j \in i + 1..Len(Tables)
      BY SMTT(60), <1>1, <2>3
    <3>2. reader[x].root[Tables[j]] = done[reader[x].rev].root[Tables[j]]
      BY SMTT(60), <1>1, <3>1 DEF RInv, ReaderOK
    <3> QED
      BY SMTT(60), <1>1, <1>4, <2>1, <2>3, <3>2
  <2> QED
    BY SMTT(60), <2>2, <2>3
<1>7. ReaderOK(x)'
  <2>1. /\ r.rev \in 0..iamglass'.rev /\ r.root \in Root /\ r.i \in 0..Len(Tables)
        /\ r.failed = FALSE /\ r.want = done'[r.rev].root /\ r.i + 1 = i
    BY SMTT(60), <1>1, <1>3, <1>4
  <2> HIDE DEF i
  <2>2. \A j \in r.i + 1..Len(Tables) : r.root[Tables[j]] = done'[r.rev].root[Tables[j]]
    BY SMTT(60), <1>1, <1>6, <2>1
  <2> QED
    BY SMTT(60), <1>5, <2>1, <2>2 DEF ReaderOK
<1> QED
  BY <1>5, <1>7, ReaderMoveR

(* A table that has been overwritten: the version file is at a later       *)
(* revision.                                                               *)
LEMMA OverwrittenR ==
    ASSUME WInv, CInv, RInv, NEW x \in Reader, open_overwritten(x)
    PROVE  RInv'
<1>1. /\ UNCHANGED <<iamglass, done>> /\ reader \in [Reader -> Database]
      /\ Len(Tables) \in Nat /\ reader[x].i \in 1..Len(Tables)
      /\ Tables[reader[x].i] \in Table
      /\ reader[x].rev \in 0..iamglass.rev /\ reader[x].rev < iamglass.rev
      /\ iamglass.rev \in Nat /\ reader[x] \in Database
  BY TableNames DEF open_overwritten, OpenThrows, disk, RInv, ReaderOK, Returned, Database,
                    WInv, WTypeOK
<1>2. CASE ~reader[x].built
  <2>1. reader' = [reader EXCEPT ![x] = NoDatabase]
    BY <1>2 DEF open_overwritten, OpenThrows
  <2>2. NoRoot \in Root
    BY DEF NoRoot, Root
  <2>3. NoDatabase \in Database
    BY <2>2 DEF NoDatabase, Database
  <2>4. ReaderMove(x) /\ reader'[x] = NoDatabase
    BY SMTT(60), <1>1, <2>1, <2>3 DEF ReaderMove
  <2>5. done[0].root = NoRoot
    BY SMTT(60) DEF CInv, History, Empty, Version
  <2>6. ReaderOK(x)'
    BY SMTT(60), <1>1, <2>2, <2>4, <2>5 DEF ReaderOK, NoDatabase
  <2> QED
    BY SMTT(60), <2>4, <2>6, ReaderMoveR
<1>3. CASE reader[x].built
  <2> DEFINE t == Tables[reader[x].i]
             r == [reader[x] EXCEPT !.root[t] = {}, !.i = 0, !.failed = TRUE,
                                    !.closed = (reader[x].i = 1 /\ reader[x].rev # 0)]
  <2>1. reader' = [reader EXCEPT ![x] = r]
    BY SMTT(60), <1>1, <1>3 DEF open_overwritten, OpenThrows, Database
  <2>2. [reader[x].root EXCEPT ![t] = {}] \in Root
    BY <1>1 DEF Database, Root
  <2>3. /\ r \in Database /\ r.rev = reader[x].rev /\ r.i = 0 /\ r.failed = TRUE
        /\ r.root = [reader[x].root EXCEPT ![t] = {}]
    BY Zenon, <1>1, <2>2 DEF Database
  <2> HIDE DEF r
  <2>4. ReaderMove(x) /\ reader'[x] = r
    BY SMTT(60), <1>1, <2>1, <2>3 DEF ReaderMove
  <2>5. ReaderOK(x)'
    BY SMTT(60), <1>1, <2>2, <2>3, <2>4 DEF ReaderOK
  <2> QED
    BY <2>4, <2>5, ReaderMoveR
<1> QED
  BY SMTT(60), <1>2, <1>3

(* No reader has a database yet.                                           *)
LEMMA InitR == Init => RInv
<1> SUFFICES ASSUME Init
             PROVE  RInv
  OBVIOUS
<1>1. /\ NoRoot \in Root /\ iamglass.rev = 0 /\ done[0].root = NoRoot
      /\ Len(Tables) \in Nat
  BY Zenon, TableNames DEF Init, Empty, Version, NoRoot, Root
<1>2. NoDatabase \in Database
  BY SMTT(60), <1>1 DEF NoDatabase, Database
<1>3. reader = [x \in Reader |-> NoDatabase]
  BY DEF Init
<1>4. \A j \in 1..Len(Tables) : NoRoot[Tables[j]] = done[0].root[Tables[j]]
  BY <1>1
<1> QED
  BY SMTT(60), <1>1, <1>2, <1>3, <1>4 DEF RInv, ReaderOK, NoDatabase

(* Every step keeps the invariant of the readers.                          *)
LEMMA NextR == WInv /\ CInv /\ RInv /\ [Next]_vars => RInv'
<1> SUFFICES ASSUME WInv, CInv, RInv, [Next]_vars
             PROVE  RInv'
  OBVIOUS
<1>1. iamglass.rev \in Nat /\ DOMAIN done = 0..iamglass.rev
  BY DEF WInv, WTypeOK, CInv, History
<1>2. CASE UNCHANGED <<iamglass, done, reader>>
  BY SMTT(60), <1>1, <1>2, WriterR
<1>3. CASE WriterStep /\ ~sync_version
  <2>1. UNCHANGED <<iamglass, done, reader>>
    BY Zenon, <1>3
       DEF WriterStep, modify, cancel, apply, flush_db, commit_table, write_version, sync_table,
           commit_and_start, commit_fails, modifications_failed,
           killed, power_failure, Restart, disk
  <2> QED
    BY SMTT(60), <1>2, <2>1
<1>4. CASE sync_version
  <2>1. vtmp = <<Version(v.rev + 1, v.root, v.stats, chg.oldest)>> /\ v.rev = iamglass.rev
    BY SMTT(60), <1>4 DEF sync_version, WInv, Progress, Built
  <2>2. iamglass' = Version(v.rev + 1, v.root, v.stats, chg.oldest)
    BY SMTT(60), <1>4, <2>1 DEF sync_version
  <2>3. iamglass'.rev = iamglass.rev + 1
    BY SMTT(60), <2>1, <2>2 DEF Version
  <2>4. reader' = reader /\ \A r \in 0..iamglass.rev : done'[r] = done[r]
    BY SMTT(60), <1>1, <1>4, <2>1 DEF sync_version, new_revision
  <2> QED
    BY SMTT(60), <1>1, <2>3, <2>4, WriterR
<1>5. CASE ReaderStep
  BY SMTT(60), <1>5, OpenVersionR, OpenTableR, OverwrittenR DEF ReaderStep
<1>6. CASE UNCHANGED vars
  BY <1>2, <1>6 DEF vars, disk
<1> QED
  BY SMTT(60), <1>3, <1>4, <1>5, <1>6 DEF Next

(* For any number of readers and tables, an open_tables() that has         *)
(* returned left every table at the revision the object reports, even if   *)
(* an earlier reopen() failed half way.                                    *)
THEOREM OpenedTogether == Spec => []ReaderAtOneRevision
<1>1. CInv /\ RInv => ReaderAtOneRevision
  <2> SUFFICES ASSUME CInv, RInv, NEW x \in Reader, Returned(x), ~reader[x].failed
               PROVE  reader[x].root = done[reader[x].rev].root
    BY SMTT(60) DEF ReaderAtOneRevision
  <2>1. /\ reader[x].i = 0 /\ reader[x].rev \in 0..iamglass.rev
        /\ reader[x].root \in Root /\ done[reader[x].rev].root \in Root
    BY SMTT(60) DEF CInv, History, RInv, ReaderOK, Returned
  <2>2. \A j \in 1..Len(Tables) :
           reader[x].root[Tables[j]] = done[reader[x].rev].root[Tables[j]]
    BY SMTT(60), <2>1 DEF RInv, ReaderOK
  <2>3. \A t \in Table : reader[x].root[t] = done[reader[x].rev].root[t]
    BY <2>2, TableNames
  <2> QED
    BY SMTT(60), <2>1, <2>3 DEF Root
<1>2. Spec => []RInv
  BY InitR, NextR, CommitInvariant, ChangesetsInvariant, PTL DEF Spec
<1> QED
  BY <1>1, <1>2, ChangesetsInvariant, PTL
=============================================================================
