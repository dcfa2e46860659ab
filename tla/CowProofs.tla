----------------------------- MODULE CowProofs -----------------------------
(***************************************************************************)
(* The committed revision survives whatever a transaction does, for every  *)
(* set of blocks and every number of revisions (CowStore), and readers     *)
(* without locks see one revision, for every number of readers, blocks and *)
(* revisions (CowReaders).                                                 *)
(***************************************************************************)
EXTENDS CowReaders, TLAPS

(* Provers for the leaves that do not name one.                            *)
USE ZenonT(8), SMTT(30)

(* The store.                                                              *)

(* A committed tree block is never written: it is neither fresh nor list.  *)
LEMMA WritesSpareTheTree ==
    ASSUME Inv, NEW use, Writes(use),
           NEW b \in Block, saved[b] # Absent, use[b] \in {"kept", "pending"}
    PROVE  disk'[b] = saved[b]
BY DEF Inv, CommittedIntact, Writes

(* The marker of an unused block cannot be taken for a block's contents.   *)
LEMMA AbsentIsNoContents == Absent \notin Contents
BY DEF Absent, Contents

(* A new table satisfies the invariant.                                    *)
LEMMA InitInv == Init => Inv
<1> SUFFICES ASSUME Init PROVE Inv
  OBVIOUS
<1>1. TypeOK
  BY DEF Init, TypeOK, Use
<1>2. CommittedIntact /\ Discipline
  BY DEF Init, CommittedIntact, Discipline
<1> QED
  BY <1>1, <1>2 DEF Inv

(* Building on, or starting again from the committed revision, keeps it.   *)
LEMMA BuildInv == Inv /\ (Build \/ Abandon) => Inv'
<1> SUFFICES ASSUME Inv, Build \/ Abandon PROVE Inv'
  OBVIOUS
<1> USE DEF Inv
<1>1. /\ Writes(owner')
      /\ UNCHANGED <<committed, saved, rev>>
      /\ owner' \in [Block -> Use]
  BY DEF Build, Abandon
<1>2. TypeOK'
  BY <1>1 DEF TypeOK, Writes
<1>3. ASSUME NEW b \in Block, committed[b] = "kept"
      PROVE  owner'[b] \in {"kept", "pending"}
  <2>1. CASE Build
    BY <1>3, <2>1 DEF Build, Discipline, MayBecome, TypeOK
  <2>2. CASE Abandon
    BY <1>3, <2>2 DEF Abandon, MayBecome, TypeOK
  <2> QED
    BY <2>1, <2>2
<1>4. ASSUME NEW b \in Block, owner'[b] = "kept"
      PROVE  committed[b] = "kept"
  <2>1. CASE Build
    <3>1. owner[b] \in Use /\ owner'[b] \in MayBecome(owner[b])
      BY <2>1 DEF Build, TypeOK
    <3>2. owner[b] = "kept"
      BY <1>4, <3>1 DEF MayBecome, Use
    <3> QED
      BY <3>2 DEF Discipline
  <2>2. CASE Abandon
    <3>1. committed[b] \in Use /\ owner'[b] \in MayBecome(committed[b])
      BY <2>2 DEF Abandon, TypeOK, Use
    <3> QED
      BY <1>4, <3>1 DEF MayBecome, Use
  <2> QED
    BY <2>1, <2>2
<1>5. Discipline'
  BY <1>1, <1>3, <1>4 DEF Discipline
<1>6. CommittedIntact'
  <2> SUFFICES ASSUME NEW b \in Block, saved[b] # Absent
               PROVE  disk'[b] = saved[b]
    BY <1>1 DEF CommittedIntact
  <2>1. owner'[b] \in {"kept", "pending"}
    BY <1>3 DEF Discipline
  <2> QED
    BY <1>1, <2>1, WritesSpareTheTree
<1> QED
  BY <1>2, <1>5, <1>6

(* So does the commit that replaces it.                                    *)
LEMMA CommitInv == Inv /\ Commit => Inv'
<1> SUFFICES ASSUME Inv, Commit PROVE Inv'
  OBVIOUS
<1> USE DEF Inv
<1>1. disk' \in [Block -> Contents]
  BY DEF Commit, Writes
<1>2. \A b \in Block : /\ owner'[b] \in {"free", "kept", "list"}
                       /\ owner'[b] = "kept" <=> InTree(owner[b])
  BY DEF Commit, AtCommit, InTree, TypeOK, Use
<1>3. committed' \in [Block -> {"free", "kept", "list"}] /\ committed' = owner'
  BY <1>2 DEF Commit
<1>4. /\ saved' \in [Block -> Contents \cup {Absent}]
      /\ \A b \in Block : saved'[b] = IF InTree(owner[b]) THEN disk'[b] ELSE Absent
  BY <1>1 DEF Commit
<1>5. TypeOK'
  BY <1>1, <1>3, <1>4 DEF Commit, TypeOK, Use
<1>6. CommittedIntact'
  BY <1>4 DEF CommittedIntact
<1>7. \A b \in Block : saved'[b] # Absent <=> InTree(owner[b])
  BY <1>1, <1>4, AbsentIsNoContents
<1>8. ASSUME NEW b \in Block, saved'[b] # Absent
      PROVE  saved'[b].rev <= rev'
  <2>1. saved'[b] = disk'[b] /\ rev' = rev + 1 /\ rev \in Nat
    BY <1>4, <1>8 DEF Commit, TypeOK
  <2>2. CASE owner[b] = "fresh"
    BY <2>1, <2>2 DEF Commit
  <2>3. CASE owner[b] = "kept"
    <3>1. saved[b] # Absent /\ saved[b].rev <= rev /\ disk[b] = saved[b]
      BY <2>3 DEF Discipline, CommittedIntact
    <3>2. disk'[b] = disk[b]
      BY <2>3 DEF Commit, Writes
    <3>3. saved[b].rev \in Nat
      BY <3>1 DEF TypeOK, Contents
    <3> QED
      BY <2>1, <3>1, <3>2, <3>3
  <2> QED
    BY <1>7, <1>8, <2>2, <2>3 DEF InTree
<1>9. ASSUME NEW b \in Block, saved'[b] # Absent, NEW k \in saved'[b].kids
      PROVE  saved'[k] # Absent
  <2>1. InTree(owner[b]) /\ saved'[b] = disk'[b]
    BY <1>4, <1>7, <1>9
  <2>2. k \in Block
    BY <1>1, <1>9, <2>1 DEF Contents
  <2>3. InTree(owner[k])
    BY <1>9, <2>1 DEF Commit
  <2> QED
    BY <1>7, <2>2, <2>3
<1>10. Discipline'
  BY <1>2, <1>3, <1>7, <1>8, <1>9 DEF Discipline
<1> QED
  BY <1>5, <1>6, <1>10

(* The invariant is inductive.                                             *)
LEMMA NextInv == Inv /\ [Next]_store => Inv'
<1> SUFFICES ASSUME Inv, [Next]_store PROVE Inv'
  OBVIOUS
<1>1. CASE Build \/ Abandon
  BY <1>1, BuildInv
<1>2. CASE Commit
  BY <1>2, CommitInv
<1>3. CASE UNCHANGED store
  BY <1>3 DEF store, Inv, TypeOK, CommittedIntact, Discipline
<1> QED
  BY <1>1, <1>2, <1>3 DEF Next

(* Type correctness of the block store.                                    *)
THEOREM StoreTypeCorrect == Spec => []TypeOK
<1>1. Inv => TypeOK
  BY DEF Inv
<1> QED
  BY <1>1, InitInv, NextInv, PTL DEF Spec

(* Crash safety of alter(), get_block() and mark_block_unused(): at every  *)
(* moment of every transaction the last committed revision is on disk.     *)
THEOREM CommittedAlwaysIntact == Spec => []CommittedIntact
<1>1. Inv => CommittedIntact
  BY DEF Inv
<1> QED
  BY <1>1, InitInv, NextInv, PTL DEF Spec

-----------------------------------------------------------------------------
(* Its readers.                                                            *)

SnapType == [Block -> Contents \cup {Absent}]

(* A write leaves a block as it was or stamps it with the next revision.   *)
LEMMA WritesStamp ==
    ASSUME RInv, NEW use, Writes(use), NEW b \in Block
    PROVE  disk'[b] = disk[b] \/ disk'[b].rev = rev + 1
BY DEF Writes

(* The block that block_to_cursor accepts for a revision is that revision's. *)
LEMMA AcceptedIsSnap ==
    ASSUME RInv, NEW r \in 0..rev, NEW b \in Block, NEW limit \in Int,
           limit <= r, snap[r][b] # Absent, disk[b].rev <= limit
    PROVE  disk[b] = snap[r][b]
<1>1. rev \in Nat /\ disk[b].rev \in Nat
  BY DEF RInv, Inv, TypeOK, Contents
<1>2. disk[b] = snap[r][b] \/ disk[b].rev > r + 1
  BY DEF RInv, OverwrittenShows
<1> QED
  BY <1>1, <1>2

(* A new table, which no reader has opened, satisfies the invariant.       *)
LEMMA RInitInv == RInit => RInv
<1> SUFFICES ASSUME RInit PROVE RInv
  OBVIOUS
<1>1. Inv /\ rev = 0 /\ saved = NothingSeen
  BY InitInv DEF RInit, Init, NothingSeen
<1>2. snap = [r \in 0..0 |-> NothingSeen] /\ NothingSeen \in SnapType
  BY DEF RInit, NothingSeen, SnapType
<1>3. snap[rev] = saved
  BY <1>1, <1>2
<1>4. ReadersTypeOK
  <2>1. snap \in [0..rev -> SnapType]
    BY <1>1, <1>2
  <2>2. reader \in [Reader -> [rev : {-1} \cup 0..rev, seen : SnapType,
                               modified : BOOLEAN]]
    BY <1>2 DEF RInit
  <2> QED
    BY <2>1, <2>2 DEF ReadersTypeOK, SnapType
<1>5. OverwrittenShows
  BY <1>1, <1>2 DEF OverwrittenShows, NothingSeen
<1>6. ReaderSeesItsRevision
  BY DEF RInit, ReaderSeesItsRevision, NothingSeen
<1> QED
  BY <1>1, <1>3, <1>4, <1>5, <1>6 DEF RInv

(* A writer that builds on or gives up (alter, write_block, cancel) keeps it: *)
(* what it overwrites of an old revision gets a later stamp.               *)
LEMMA WriteRInv == RInv /\ Write => RInv'
<1> SUFFICES ASSUME RInv, Write PROVE RInv'
  OBVIOUS
<1>1. Inv'
  BY BuildInv DEF RInv, Write
<1>2. Writes(owner') /\ UNCHANGED <<committed, saved, rev, snap, reader>>
  BY DEF Write, Build, Abandon
<1>3. ReadersTypeOK' /\ snap'[rev'] = saved'
  BY <1>2 DEF RInv, ReadersTypeOK
<1>4. OverwrittenShows'
  <2> SUFFICES ASSUME NEW r \in 0..rev, NEW b \in Block, snap[r][b] # Absent
               PROVE  /\ snap[r][b].rev <= r
                      /\ disk'[b] = snap[r][b] \/ disk'[b].rev > r + 1
                      /\ \A k \in snap[r][b].kids : snap[r][k] # Absent
    BY <1>2 DEF OverwrittenShows
  <2>1. /\ snap[r][b].rev <= r
        /\ disk[b] = snap[r][b] \/ disk[b].rev > r + 1
        /\ \A k \in snap[r][b].kids : snap[r][k] # Absent
    BY DEF RInv, OverwrittenShows
  <2>2. disk'[b] = disk[b] \/ disk'[b].rev = rev + 1
    BY <1>2, WritesStamp
  <2>3. rev \in Nat
    BY DEF RInv, Inv, TypeOK
  <2>4. CASE r = rev
    <3>1. disk'[b] = snap[r][b]
      BY <1>1, <1>2, <2>4 DEF RInv, Inv, CommittedIntact
    <3> QED
      BY <2>1, <3>1
  <2>5. CASE r # rev
    BY <2>1, <2>2, <2>3, <2>5
  <2> QED
    BY <2>4, <2>5
<1>5. ReaderSeesItsRevision'
  BY <1>2 DEF RInv, ReaderSeesItsRevision
<1> QED
  BY <1>1, <1>3, <1>4, <1>5 DEF RInv

(* A commit keeps it, and adds the new revision to those remembered.       *)
LEMMA CommitRInv == RInv /\ CommitRevision => RInv'
<1> SUFFICES ASSUME RInv, CommitRevision PROVE RInv'
  OBVIOUS
<1>1. Inv'
  BY CommitInv DEF RInv, CommitRevision
<1>2. rev \in Nat /\ rev' = rev + 1 /\ reader' = reader /\ Writes(owner)
  BY DEF RInv, Inv, TypeOK, CommitRevision, Commit
<1>3. /\ DOMAIN snap' = 0..rev'
      /\ \A r \in 0..rev : snap'[r] = snap[r]
      /\ snap'[rev'] = saved'
  BY <1>2 DEF CommitRevision
<1>4. ReadersTypeOK'
  <2>1. saved' \in SnapType /\ snap \in [0..rev -> SnapType]
    BY <1>1 DEF Inv, TypeOK, SnapType, RInv, ReadersTypeOK
  <2>2. snap' \in [0..rev' -> SnapType]
    BY <1>2, <2>1 DEF CommitRevision
  <2>3. reader' \in [Reader -> [rev : {-1} \cup 0..rev', seen : SnapType,
                                modified : BOOLEAN]]
    <3>1. reader \in [Reader -> [rev : {-1} \cup 0..rev, seen : SnapType,
                                 modified : BOOLEAN]]
      BY DEF RInv, ReadersTypeOK, SnapType
    <3>2. 0..rev \subseteq 0..rev'
      BY <1>2
    <3> QED
      BY <1>2, <3>1, <3>2
  <2> QED
    BY <2>2, <2>3 DEF ReadersTypeOK, SnapType
<1>5. OverwrittenShows'
  <2> SUFFICES ASSUME NEW r \in 0..rev', NEW b \in Block, snap'[r][b] # Absent
               PROVE  /\ snap'[r][b].rev <= r
                      /\ disk'[b] = snap'[r][b] \/ disk'[b].rev > r + 1
                      /\ \A k \in snap'[r][b].kids : snap'[r][k] # Absent
    BY DEF OverwrittenShows
  <2>1. CASE r \in 0..rev
    <3>1. /\ snap[r][b].rev <= r
          /\ disk[b] = snap[r][b] \/ disk[b].rev > r + 1
          /\ \A k \in snap[r][b].kids : snap[r][k] # Absent
      BY <1>3, <2>1 DEF RInv, OverwrittenShows
    <3>2. disk'[b] = disk[b] \/ disk'[b].rev = rev + 1
      BY <1>2, WritesStamp
    <3>3. CASE r = rev
      <4>1. snap[r][b] = saved[b] /\ disk[b] = saved[b] /\ owner[b] \in {"kept", "pending"}
        BY <1>3, <2>1, <3>3 DEF RInv, Inv, CommittedIntact, Discipline
      <4>2. disk'[b] = disk[b]
        BY <1>2, <4>1 DEF Writes
      <4> QED
        BY <1>3, <2>1, <3>1, <4>1, <4>2
    <3>4. CASE r # rev
      BY <1>2, <1>3, <2>1, <3>1, <3>2, <3>4
    <3> QED
      BY <3>3, <3>4
  <2>2. CASE r = rev'
    BY <1>1, <1>3, <2>2 DEF Inv, CommittedIntact, Discipline
  <2> QED
    BY <1>2, <2>1, <2>2
<1>6. ReaderSeesItsRevision'
  <2> SUFFICES ASSUME NEW x \in Reader, NEW b \in Block, reader[x].seen[b] # Absent
               PROVE  reader[x].rev >= 0 /\ reader[x].seen[b] = snap'[reader[x].rev][b]
    BY <1>2 DEF ReaderSeesItsRevision
  <2>1. reader[x].rev >= 0 /\ reader[x].seen[b] = snap[reader[x].rev][b]
    BY DEF RInv, ReaderSeesItsRevision
  <2>2. reader[x].rev \in {-1} \cup 0..rev
    BY DEF RInv, ReadersTypeOK
  <2> QED
    BY <1>2, <1>3, <2>1, <2>2
<1> QED
  BY <1>1, <1>3, <1>4, <1>5, <1>6 DEF RInv

(* open() and reopen() keep it.                                            *)
LEMMA OpenRInv == \A x \in Reader : RInv /\ Open(x) => RInv'
<1> SUFFICES ASSUME NEW x \in Reader, RInv, Open(x) PROVE RInv'
  OBVIOUS
<1>1. UNCHANGED <<disk, owner, committed, saved, rev, snap>>
  BY DEF Open, store
<1>2. Inv' /\ snap'[rev'] = saved' /\ OverwrittenShows'
  BY <1>1 DEF RInv, Inv, TypeOK, CommittedIntact, Discipline, OverwrittenShows
<1>3. ReadersTypeOK'
  <2>1. [rev |-> rev, seen |-> NothingSeen, modified |-> FALSE]
            \in [rev : {-1} \cup 0..rev, seen : SnapType, modified : BOOLEAN]
    BY DEF RInv, Inv, TypeOK, NothingSeen, SnapType
  <2>2. reader' \in [Reader -> [rev : {-1} \cup 0..rev, seen : SnapType,
                                modified : BOOLEAN]]
    BY <2>1 DEF RInv, ReadersTypeOK, SnapType, Open
  <2> QED
    BY <1>1, <2>2 DEF RInv, ReadersTypeOK, SnapType
<1>4. ReaderSeesItsRevision'
  <2> SUFFICES ASSUME NEW y \in Reader, NEW b \in Block, reader'[y].seen[b] # Absent
               PROVE  /\ reader'[y].rev >= 0
                      /\ reader'[y].seen[b] = snap[reader'[y].rev][b]
    BY <1>1 DEF ReaderSeesItsRevision
  <2>1. y # x
    BY DEF Open, NothingSeen, RInv, ReadersTypeOK
  <2>2. reader'[y] = reader[y]
    BY <2>1 DEF Open, RInv, ReadersTypeOK
  <2> QED
    BY <2>2 DEF RInv, ReaderSeesItsRevision
<1> QED
  BY <1>2, <1>3, <1>4 DEF RInv

(* Accepting a block that the reader's revision uses.                      *)
LEMMA AcceptRInv ==
    ASSUME NEW x \in Reader, NEW b \in Block, NEW limit \in Int,
           RInv, reader[x].rev >= 0, limit <= reader[x].rev,
           snap[reader[x].rev][b] # Absent, Accept(x, b, limit)
    PROVE  RInv'
<1>1. UNCHANGED <<disk, owner, committed, saved, rev, snap>>
  BY DEF Accept, store
<1>2. Inv' /\ snap'[rev'] = saved' /\ OverwrittenShows'
  BY <1>1 DEF RInv, Inv, TypeOK, CommittedIntact, Discipline, OverwrittenShows
<1>3. reader \in [Reader -> [rev : {-1} \cup 0..rev, seen : SnapType,
                             modified : BOOLEAN]]
  BY DEF RInv, ReadersTypeOK, SnapType
<1>4. disk[b] \in Contents
  BY DEF RInv, Inv, TypeOK
<1>5. reader' \in [Reader -> [rev : {-1} \cup 0..rev, seen : SnapType,
                              modified : BOOLEAN]]
  <2>1. CASE disk[b].rev <= limit
    <3>1. reader' = [reader EXCEPT ![x].seen[b] = disk[b]]
      BY <2>1 DEF Accept
    <3>2. reader[x].seen \in SnapType
      BY <1>3
    <3>3. [reader[x].seen EXCEPT ![b] = disk[b]] \in SnapType
      BY <1>4, <3>2 DEF SnapType
    <3> QED
      BY <1>3, <3>1, <3>3
  <2>2. CASE ~(disk[b].rev <= limit)
    BY <1>3, <2>2 DEF Accept
  <2> QED
    BY <2>1, <2>2
<1>6. ReadersTypeOK'
  BY <1>1, <1>5 DEF RInv, ReadersTypeOK, SnapType
<1>7. ReaderSeesItsRevision'
  <2> SUFFICES ASSUME NEW y \in Reader, NEW c \in Block, reader'[y].seen[c] # Absent
               PROVE  /\ reader'[y].rev >= 0
                      /\ reader'[y].seen[c] = snap[reader'[y].rev][c]
    BY <1>1 DEF ReaderSeesItsRevision
  <2>1. reader'[y].rev = reader[y].rev
    BY <1>3 DEF Accept
  <2>2. CASE reader'[y].seen[c] = reader[y].seen[c]
    BY <2>1, <2>2 DEF RInv, ReaderSeesItsRevision
  <2>3. CASE reader'[y].seen[c] # reader[y].seen[c]
    <3>1. y = x /\ c = b /\ disk[b].rev <= limit /\ reader'[y].seen[c] = disk[b]
      BY <1>3, <2>3 DEF Accept, SnapType
    <3>2. reader[x].rev \in 0..rev
      BY <1>3 DEF RInv, Inv, TypeOK
    <3>3. disk[b] = snap[reader[x].rev][b]
      BY <3>1, <3>2, AcceptedIsSnap
    <3> QED
      BY <2>1, <3>1, <3>3
  <2> QED
    BY <2>2, <2>3
<1> QED
  BY <1>2, <1>6, <1>7 DEF RInv

(* Every step of a reader keeps it (read_root, block_to_cursor, open).     *)
LEMMA ReadRInv == \A x \in Reader : RInv /\ Read(x) => RInv'
<1> SUFFICES ASSUME NEW x \in Reader, RInv, Read(x) PROVE RInv'
  OBVIOUS
<1>1. CASE Open(x)
  BY <1>1, OpenRInv
<1>2. ASSUME NEW b \in Block, ReadRoot(x, b)
      PROVE  RInv'
  <2>1. reader[x].rev \in Int
    BY DEF RInv, ReadersTypeOK, Inv, TypeOK
  <2> QED
    BY <1>2, <2>1, AcceptRInv DEF ReadRoot, Reading
<1>3. ASSUME NEW parent \in Block, NEW b \in Block, ReadChild(x, parent, b)
      PROVE  RInv'
  <2> DEFINE r == reader[x].rev
  <2>1. /\ r >= 0
        /\ reader[x].seen[parent] # Absent
        /\ b \in reader[x].seen[parent].kids
        /\ Accept(x, b, reader[x].seen[parent].rev)
    BY <1>3 DEF ReadChild, Reading
  <2>2. r \in 0..rev /\ reader[x].seen[parent] = snap[r][parent]
    BY <2>1 DEF RInv, ReadersTypeOK, ReaderSeesItsRevision, Inv, TypeOK
  <2>3. snap[r][parent] # Absent /\ snap[r][parent] \in Contents
    BY <2>1, <2>2 DEF RInv, ReadersTypeOK
  <2>4. snap[r][parent].rev <= r /\ snap[r][b] # Absent
    BY <2>1, <2>2, <2>3 DEF RInv, OverwrittenShows
  <2>5. snap[r][parent].rev \in Int
    BY <2>3 DEF Contents
  <2> QED
    BY <2>1, <2>2, <2>4, <2>5, AcceptRInv
<1> QED
  BY <1>1, <1>2, <1>3 DEF Read

(* The invariant is inductive.                                             *)
LEMMA RNextInv == RInv /\ [RNext]_vars => RInv'
<1> SUFFICES ASSUME RInv, [RNext]_vars PROVE RInv'
  OBVIOUS
<1>1. CASE Write
  BY <1>1, WriteRInv
<1>2. CASE CommitRevision
  BY <1>2, CommitRInv
<1>3. CASE \E x \in Reader : Read(x)
  BY <1>3, ReadRInv
<1>4. CASE UNCHANGED vars
  <2>1. /\ disk' = disk /\ owner' = owner /\ committed' = committed /\ saved' = saved
        /\ rev' = rev /\ snap' = snap /\ reader' = reader
    BY <1>4 DEF vars
  <2>2. Inv'
    BY <2>1 DEF RInv, Inv, TypeOK, CommittedIntact, Discipline
  <2>3. ReadersTypeOK'
    BY <2>1 DEF RInv, ReadersTypeOK
  <2>4. OverwrittenShows'
    BY <2>1 DEF RInv, OverwrittenShows
  <2>5. ReaderSeesItsRevision'
    BY <2>1 DEF RInv, ReaderSeesItsRevision
  <2> QED
    BY <2>1, <2>2, <2>3, <2>4, <2>5 DEF RInv
<1> QED
  BY <1>1, <1>2, <1>3, <1>4 DEF RNext

(* The whole invariant, with the type correctness of the readers' state.   *)
THEOREM ReadersInvariant == RSpec => []RInv
BY RInitInv, RNextInv, PTL DEF RSpec

(* Snapshot isolation without locks: the revision checks of read_root and  *)
(* block_to_cursor are enough for a reader never to mix two revisions.     *)
THEOREM ReadersSeeOneRevision == RSpec => []ReaderSeesItsRevision
<1>1. RInv => ReaderSeesItsRevision
  BY DEF RInv
<1> QED
  BY <1>1, ReadersInvariant, PTL
=============================================================================
