-------------------------- MODULE GlassCommitProofs --------------------------
(***************************************************************************)
(* A commit is atomic and lasts, for any number of tables and              *)
(* transactions: an error in any step of set_revision_number, a killed     *)
(* writer or a power failure leaves the whole of a transaction or nothing  *)
(* of it, and what commit() reported stays true.                           *)
(*                                                                         *)
(* None of the three properties is inductive.  What makes them hold is     *)
(* the order of the stages: all blocks are written before the roots are    *)
(* put into the version, all tables synced before v.tmp is renamed         *)
(* (Progress), and until then the version file knows nothing of the        *)
(* present transaction (Ended) while memory is what the version file says  *)
(* and that transaction (Built), so that going back to the one loses       *)
(* exactly the other.                                                      *)
(***************************************************************************)
EXTENDS GlassCommit, TLAPS

Places == {"idle", "flush_db", "commit", "write", "sync", "version_sync",
           "changes", "closed"}

\* The stages of a commit, from the first block written to the rename.
Committing == pc.at \in {"flush_db", "commit", "write", "sync", "version_sync"}

\* The tables that the present stage has passed.
Passed == {Tables[j] : j \in 1..pc.i - 1}

GlassVersion == [rev : Nat, root : Root, old_root : Root,
                 stats : SUBSET Txn, serialised_stats : SUBSET Txn]

GlassTable == [rev : Nat, root : SUBSET Txn, modified : BOOLEAN, open : {TRUE}]

TableFile == [written : SUBSET (SUBSET Txn), synced : SUBSET (SUBSET Txn)]

Results == {"none", "committed", "failed", "cancelled", "killed"}

Outcome == [result : Results, touched : SUBSET Table]

WTypeOK ==
    /\ iamglass.rev \in Nat /\ iamglass.root \in Root /\ iamglass.stats \in SUBSET Txn
    /\ v \in GlassVersion
    /\ tab \in [Table -> GlassTable]
    /\ tfile \in [Table -> TableFile]
    /\ pc \in [at : Places, i : 1..Len(Tables)]
    /\ txn \in 1..MaxTxn + 1
    /\ outcome \in [Txn -> Outcome]

\* The version file's blocks are on disk, and those synced have been written.
Durable ==
    \A t \in Table : /\ iamglass.root[t] \in tfile[t].synced
                     /\ tfile[t].synced \subseteq tfile[t].written

\* What has become of each transaction before the present one, and that the
\* present and later ones are not in the version file until it is renamed.
Ended ==
    \A n \in Txn :
        /\ outcome[n].result = "committed" => n \in iamglass.stats
        /\ (outcome[n].result \in {"failed", "cancelled"} \/ n > txn
               \/ (n = txn /\ pc.at # "changes"))
              => /\ n \notin iamglass.stats
                 /\ \A t \in Table : n \notin iamglass.root[t]
        /\ n >= txn => outcome[n].result = "none"
        /\ (n > txn \/ (n = txn /\ pc.at = "closed")) => outcome[n].touched = {}

\* In memory there is the committed revision and the present transaction.
Built ==
    pc.at # "closed" =>
        /\ v.rev = iamglass.rev /\ v.old_root = iamglass.root
        /\ \A n \in Txn :
              /\ n \in v.stats <=> IF n = txn THEN outcome[n].touched # {}
                                   ELSE n \in iamglass.stats
              /\ \A t \in Table :
                    n \in tab[t].root <=> IF n = txn THEN t \in outcome[n].touched
                                          ELSE n \in iamglass.root[t]

\* What each stage of a commit has done so far.
Progress ==
    /\ Committing \/ pc.at = "changes" => txn \in Txn /\ outcome[txn].touched # {}
    /\ pc.at = "idle" =>
          /\ v.serialised_stats = iamglass.stats
          /\ \A t \in Table : tab[t].modified => txn \in Txn /\ t \in outcome[txn].touched
    /\ pc.at = "flush_db" => \A t \in Passed : tab[t].root \in tfile[t].written
    /\ pc.at \in {"commit", "write", "sync", "version_sync"} =>
          \A t \in Table : tab[t].root \in tfile[t].written
    /\ pc.at = "commit" =>
          \A t \in Passed : v.root[t] = tab[t].root /\ tab[t].modified = FALSE
    /\ pc.at \in {"write", "sync", "version_sync", "changes"} =>
          \A t \in Table : v.root[t] = tab[t].root /\ tab[t].modified = FALSE
    /\ pc.at \in {"sync", "version_sync"} =>
          /\ v.serialised_stats = v.stats
          /\ vtmp = <<Version(v.rev + 1, v.root, v.stats, chg.oldest)>>
    /\ pc.at = "sync" => \A t \in Passed : tab[t].root \in tfile[t].synced
    /\ pc.at = "version_sync" => \A t \in Table : tab[t].root \in tfile[t].synced
    /\ pc.at = "changes" =>
          /\ v.serialised_stats = v.stats
          /\ v.stats = iamglass.stats
          /\ \A t \in Table : tab[t].root = iamglass.root[t]

WInv == WTypeOK /\ Durable /\ Ended /\ AllOrNothing /\ Built /\ Progress

-----------------------------------------------------------------------------
(* The tables and their places in the order they are committed in.         *)
LEMMA TableNames ==
    /\ \A i \in 1..Len(Tables) : Tables[i] \in Table
    /\ \A t \in Table : \E i \in 1..Len(Tables) : t = Tables[i]
    /\ 1 \in 1..Len(Tables) /\ Len(Tables) \in Nat
BY TablesAssumption DEF Table, Range

(* What an assignment to a field leaves of the types.                      *)
LEMMA Typed ==
    /\ \A f \in [Txn -> Outcome], n \in Txn, s \in SUBSET Table :
          [f EXCEPT ![n].touched = s] \in [Txn -> Outcome]
    /\ \A f \in [Txn -> Outcome], n \in Txn, r \in Results :
          [f EXCEPT ![n].result = r] \in [Txn -> Outcome]
    /\ \A f \in [Table -> GlassTable], t \in Table, r \in SUBSET Txn :
          [f EXCEPT ![t].modified = TRUE, ![t].root = r] \in [Table -> GlassTable]
    /\ \A f \in [Table -> TableFile], t \in Table, s \in SUBSET (SUBSET Txn) :
          /\ [f EXCEPT ![t].written = s] \in [Table -> TableFile]
          /\ [f EXCEPT ![t].synced = s] \in [Table -> TableFile]
<1>1. \A f \in [Txn -> Outcome], n \in Txn, s \in SUBSET Table :
          [f EXCEPT ![n].touched = s] \in [Txn -> Outcome]
  BY DEF Outcome
<1>2. \A f \in [Txn -> Outcome], n \in Txn, r \in Results :
          [f EXCEPT ![n].result = r] \in [Txn -> Outcome]
  BY DEF Outcome
<1>3. \A f \in [Table -> GlassTable], t \in Table, r \in SUBSET Txn :
          [f EXCEPT ![t].modified = TRUE, ![t].root = r] \in [Table -> GlassTable]
  BY ZenonT(30) DEF GlassTable
<1>4. \A f \in [Table -> TableFile], t \in Table, s \in SUBSET (SUBSET Txn) :
          /\ [f EXCEPT ![t].written = s] \in [Table -> TableFile]
          /\ [f EXCEPT ![t].synced = s] \in [Table -> TableFile]
  BY DEF TableFile
<1> QED
  BY Zenon, <1>1, <1>2, <1>3, <1>4

(* A modification belongs to the present transaction.                      *)
LEMMA ModifyW ==
    ASSUME WInv, NEW t \in Table, modify(t)
    PROVE  WInv'
<1> USE DEF WInv, idle, At
<1>1. /\ txn \in Txn /\ pc.at = "idle" /\ pc' = pc /\ txn' = txn
      /\ iamglass' = iamglass /\ tfile' = tfile
  BY BoundsAssumption DEF modify, WTypeOK, Txn, disk
<1>2. WTypeOK'
  <2>1. v' \in GlassVersion
    BY <1>1 DEF WTypeOK, modify, GlassVersion
  <2>2. tab' \in [Table -> GlassTable]
    <3>1. tab[t].root \cup {txn} \in SUBSET Txn
      BY Zenon, <1>1 DEF WTypeOK, GlassTable
    <3> QED
      BY Zenon, <3>1, Typed DEF WTypeOK, modify
  <2>3. outcome' \in [Txn -> Outcome]
    <3>1. outcome[txn].touched \cup {t} \in SUBSET Table
      BY <1>1 DEF WTypeOK, Outcome
    <3> QED
      BY Zenon, <1>1, <3>1, Typed DEF WTypeOK, modify
  <2> QED
    BY <1>1, <2>1, <2>2, <2>3 DEF WTypeOK
<1>3. Durable'
  BY <1>1 DEF Durable
<1>4. /\ \A n \in Txn : outcome'[n].result = outcome[n].result
      /\ \A n \in Txn \ {txn} : outcome'[n] = outcome[n]
      /\ outcome'[txn].touched = outcome[txn].touched \cup {t}
  BY <1>1 DEF WTypeOK, modify, Outcome
<1>5. Ended'
  BY <1>1, <1>4 DEF Ended, Txn
<1>6. AllOrNothing'
  BY <1>1, <1>4 DEF AllOrNothing, Ended, Txn
<1>7. Built'
  BY <1>1, <1>4 DEF Built, modify, WTypeOK, GlassVersion, GlassTable
<1>8. Progress'
  BY <1>1, <1>4 DEF Progress, modify, WTypeOK, GlassVersion, GlassTable, Committing
<1> QED
  BY <1>2, <1>3, <1>5, <1>6, <1>7, <1>8

\* The end of a transaction without a commit: back to the version file.
Back(result) ==
    /\ txn \in Txn /\ Ends(result)
    /\ result \in {"none", "failed", "cancelled", "killed"}
    /\ result \in {"failed", "cancelled"} => pc.at # "changes"
    /\ iamglass' = iamglass /\ Durable' /\ pc' = At("idle")
    /\ tfile' \in [Table -> TableFile]
    /\ v' \in GlassVersion /\ v'.rev = iamglass.rev /\ v'.old_root = iamglass.root
    /\ v'.stats = iamglass.stats /\ v'.serialised_stats = iamglass.stats
    /\ tab' \in [Table -> GlassTable]
    /\ \A t \in Table : tab'[t].root = iamglass.root[t] /\ tab'[t].modified = FALSE

(* The end of a transaction changes its result and nothing else of it.     *)
LEMMA EndsW ==
    ASSUME WInv, txn \in Txn, NEW result \in Results, Ends(result)
    PROVE  /\ txn' \in 1..MaxTxn + 1 /\ outcome' \in [Txn -> Outcome]
           /\ txn' = txn + 1
           /\ \A n \in Txn : /\ outcome'[n].touched = outcome[n].touched
                             /\ outcome'[n].result
                                   = IF n = txn THEN result ELSE outcome[n].result
<1>1. txn' \in 1..MaxTxn + 1 /\ txn' = txn + 1
  BY BoundsAssumption DEF Ends, Txn
<1>2. outcome \in [Txn -> Outcome]
  BY DEF WInv, WTypeOK
<1>3. outcome' \in [Txn -> Outcome]
  BY <1>2, Typed DEF Ends
<1>4. \A n \in Txn : /\ outcome'[n].touched = outcome[n].touched
                     /\ outcome'[n].result
                           = IF n = txn THEN result ELSE outcome[n].result
  BY <1>2 DEF Ends, Outcome
<1> QED
  BY <1>1, <1>3, <1>4

(* Going back keeps the invariant: the transaction that ends is not in the *)
(* version file, unless it was renamed, and the next one has not begun.    *)
LEMMA BackW ==
    ASSUME WInv, NEW result, Back(result)
    PROVE  WInv'
<1>1. /\ result \in Results /\ pc'.at = "idle"
      /\ pc' \in [at : Places, i : 1..Len(Tables)]
  BY TableNames DEF Back, Results, At, Places
<1>2. /\ txn' \in 1..MaxTxn + 1 /\ outcome' \in [Txn -> Outcome]
      /\ txn' = txn + 1
      /\ \A n \in Txn : /\ outcome'[n].touched = outcome[n].touched
                        /\ outcome'[n].result
                              = IF n = txn THEN result ELSE outcome[n].result
  BY <1>1, EndsW DEF Back
<1>3. WTypeOK'
  BY <1>1, <1>2 DEF WInv, WTypeOK, Back
<1>4. Durable'
  BY DEF Back
<1>5. Ended'
  BY SMTT(60), <1>1, <1>2, BoundsAssumption DEF WInv, Back, Ended, Txn
<1>6. AllOrNothing'
  BY <1>2 DEF WInv, Back, AllOrNothing
<1>7. Built'
  BY <1>1, <1>2, BoundsAssumption DEF WInv, Back, Ended, Built, Txn
<1>8. Progress'
  BY <1>1 DEF Back, Progress, Committing
<1> QED
  BY <1>3, <1>4, <1>5, <1>6, <1>7, <1>8 DEF WInv

(* Tables opened at the roots that the version file gives.                 *)
LEMMA Opened ==
    ASSUME WInv, NEW rev \in Nat,
           tab' = [t \in Table |-> OpenTable(rev, iamglass.root[t])]
    PROVE  /\ tab' \in [Table -> GlassTable]
           /\ \A t \in Table : tab'[t].root = iamglass.root[t] /\ tab'[t].modified = FALSE
BY DEF WInv, WTypeOK, Root, OpenTable, GlassTable

(* cancel() goes back to the roots and statistics that were committed.     *)
LEMMA CancelW ==
    ASSUME WInv, cancel
    PROVE  WInv'
<1>1. pc.at = "idle" /\ pc' = At("idle") /\ iamglass' = iamglass /\ tfile' = tfile
  BY DEF cancel, idle, At, disk
<1>2. /\ v.serialised_stats = iamglass.stats /\ v.old_root = iamglass.root
      /\ v.rev = iamglass.rev
  BY <1>1 DEF WInv, Built, Progress
<1>3. txn \in Txn
  <2>1. PICK n \in Txn : ~(n \in v.stats <=> n \in iamglass.stats)
    BY Zenon, <1>2 DEF cancel, WInv, WTypeOK, GlassVersion
  <2> QED
    BY <1>1, <2>1 DEF WInv, Built
<1>4. /\ v' \in GlassVersion /\ v'.rev = v.rev /\ v'.root = v.old_root
      /\ v'.old_root = v.old_root
      /\ v'.stats = v.serialised_stats /\ v'.serialised_stats = v.serialised_stats
  BY Zenon DEF WInv, WTypeOK, GlassVersion, cancel, Restored
<1>5. tab' = [t \in Table |-> OpenTable(iamglass.rev, iamglass.root[t])]
  BY Zenon, <1>2, <1>4 DEF cancel, CancelTables, GlassTable, WInv, WTypeOK
<1>6. Back("cancelled")
  <2>1. /\ tab' \in [Table -> GlassTable]
        /\ \A t \in Table : tab'[t].root = iamglass.root[t] /\ tab'[t].modified = FALSE
    BY Zenon, <1>5, Opened DEF WInv, WTypeOK
  <2> QED
    BY <1>1, <1>2, <1>3, <1>4, <2>1 DEF Back, WInv, WTypeOK, Durable, cancel
<1> QED
  BY <1>6, BackW

\* A step between the first modification and the rename.
Within ==
    /\ pc.at \notin {"changes", "closed"} /\ pc'.at \notin {"changes", "closed"}
    /\ iamglass' = iamglass /\ txn' = txn /\ outcome' = outcome

(* Until the rename the version file and the outcomes stay as they are.    *)
LEMMA WithinW ==
    ASSUME WInv, Within
    PROVE  Ended' /\ AllOrNothing'
BY DEF WInv, Within, Ended, AllOrNothing

(* set_revision_number goes through the tables, and then to its next stage. *)
LEMMA ThenW ==
    ASSUME WInv, NEW stage \in Places, Then(stage)
    PROVE  /\ pc' \in [at : Places, i : 1..Len(Tables)]
           /\ here \in Table
           /\ \/ pc'.at = pc.at /\ Passed' = Passed \cup {here}
              \/ pc'.at = stage /\ Passed' = {} /\ Table = Passed \cup {here}
<1>1. pc \in [at : Places, i : 1..Len(Tables)]
  BY DEF WInv, WTypeOK
<1>2. here \in Table
  BY <1>1, TableNames DEF here
<1>3. CASE pc.i < Len(Tables)
  <2>1. pc'.at = pc.at /\ pc'.i = pc.i + 1 /\ pc' \in [at : Places, i : 1..Len(Tables)]
    BY <1>1, <1>3, TableNames DEF Then
  <2>2. Passed' = Passed \cup {here}
    BY <1>1, <2>1, TableNames DEF Passed, here
  <2> QED
    BY <1>2, <2>1, <2>2
<1>4. CASE pc.i = Len(Tables)
  <2>1. pc'.at = stage /\ pc'.i = 1 /\ pc' \in [at : Places, i : 1..Len(Tables)]
    BY <1>1, <1>4, TableNames DEF Then, At
  <2>2. Passed' = {}
    BY <2>1 DEF Passed
  <2>3. Table = Passed \cup {here}
    BY <1>1, <1>4, TableNames DEF Passed, here
  <2> QED
    BY <1>2, <2>1, <2>2, <2>3
<1> QED
  BY <1>1, <1>3, <1>4, TableNames

(* apply() starts a commit only when a table has been modified.            *)
LEMMA ApplyW ==
    ASSUME WInv, apply
    PROVE  WInv'
<1>1. /\ pc.at = "idle" /\ pc'.at = "flush_db" /\ Passed' = {}
      /\ pc' \in [at : Places, i : 1..Len(Tables)]
  BY TableNames DEF apply, idle, At, Places, Passed
<1>2. WTypeOK' /\ Durable' /\ Built'
  BY <1>1 DEF WInv, WTypeOK, Durable, Built, apply, disk
<1>3. Ended' /\ AllOrNothing'
  BY <1>1, WithinW DEF Within, apply, disk
<1>4. Progress'
  BY <1>1 DEF WInv, Progress, Committing, apply
<1> QED
  BY <1>2, <1>3, <1>4 DEF WInv

(* flush_db() writes a table's blocks.                                     *)
LEMMA FlushW ==
    ASSUME WInv, flush_db
    PROVE  WInv'
<1>1. /\ pc' \in [at : Places, i : 1..Len(Tables)] /\ here \in Table
      /\ \/ pc'.at = "flush_db" /\ Passed' = Passed \cup {here}
         \/ pc'.at = "commit" /\ Passed' = {} /\ Table = Passed \cup {here}
  BY ThenW DEF flush_db, Places
<1>2. /\ tfile' \in [Table -> TableFile]
      /\ \A t \in Table : /\ tfile'[t].synced = tfile[t].synced
                          /\ tfile[t].written \subseteq tfile'[t].written
      /\ tab[here].root \in tfile'[here].written
  <2>1. tfile \in [Table -> TableFile]
    BY DEF WInv, WTypeOK
  <2>2. tfile[here].written \cup {tab[here].root} \in SUBSET (SUBSET Txn)
    <3>1. tfile[here].written \in SUBSET (SUBSET Txn)
      BY <1>1, <2>1 DEF TableFile
    <3>2. tab[here].root \in SUBSET Txn
      BY Zenon, <1>1 DEF WInv, WTypeOK, GlassTable
    <3> QED
      BY <3>1, <3>2
  <2>3. tfile' \in [Table -> TableFile]
    BY Zenon, <1>1, <2>1, <2>2, Typed DEF flush_db
  <2> QED
    BY SMTT(60), <1>1, <2>1, <2>3 DEF TableFile, flush_db
<1>3. WTypeOK' /\ Durable' /\ Built'
  BY <1>1, <1>2 DEF WInv, WTypeOK, Durable, Built, flush_db
<1>4. Ended' /\ AllOrNothing'
  BY <1>1, WithinW DEF Within, flush_db
<1>5. Progress'
  BY <1>1, <1>2 DEF WInv, Progress, Committing, flush_db
<1> QED
  BY <1>3, <1>4, <1>5 DEF WInv

(* commit() of a table puts its root into the version.                     *)
LEMMA CommitTableW ==
    ASSUME WInv, commit_table
    PROVE  WInv'
<1>1. /\ pc' \in [at : Places, i : 1..Len(Tables)] /\ here \in Table
      /\ \/ pc'.at = "commit" /\ Passed' = Passed \cup {here}
         \/ pc'.at = "write" /\ Passed' = {} /\ Table = Passed \cup {here}
  BY ThenW DEF commit_table, Places
<1>2. /\ v' \in GlassVersion
      /\ v'.rev = v.rev /\ v'.old_root = v.old_root /\ v'.stats = v.stats
      /\ v'.root[here] = tab[here].root
      /\ \A t \in Table \ {here} : v'.root[t] = v.root[t]
  BY Zenon, <1>1 DEF WInv, WTypeOK, GlassVersion, GlassTable, Root, commit_table
<1>3. /\ tab' \in [Table -> GlassTable]
      /\ \A t \in Table : tab'[t].root = tab[t].root
      /\ \A t \in Table \ {here} : tab'[t] = tab[t]
      /\ tab'[here].modified = FALSE
  <2>1. tab \in [Table -> GlassTable] /\ v.rev + 1 \in Nat
    BY DEF WInv, WTypeOK, GlassVersion
  <2>2. tab' = [tab EXCEPT ![here] = OpenTable(v.rev + 1, tab[here].root)]
    BY DEF commit_table, new_revision
  <2>3. OpenTable(v.rev + 1, tab[here].root) \in GlassTable
    BY Zenon, <1>1, <2>1 DEF OpenTable, GlassTable
  <2> QED
    BY <1>1, <2>1, <2>2, <2>3 DEF OpenTable
<1>4. WTypeOK' /\ Durable'
  BY <1>1, <1>2, <1>3 DEF WInv, WTypeOK, Durable, commit_table, disk
<1>5. Built'
  BY <1>1, <1>2, <1>3 DEF WInv, Built, commit_table, disk
<1>6. Ended' /\ AllOrNothing'
  BY SMTT(60), <1>1, WithinW DEF Within, commit_table, disk
<1>7. Progress'
  BY <1>1, <1>2, <1>3 DEF WInv, Progress, Committing, commit_table, disk
<1> QED
  BY <1>4, <1>5, <1>6, <1>7 DEF WInv

(* The version file's new content is written beside it.                    *)
LEMMA WriteVersionW ==
    ASSUME WInv, write_version
    PROVE  WInv'
<1>1. /\ pc' \in [at : Places, i : 1..Len(Tables)] /\ pc'.at = "sync" /\ Passed' = {}
      /\ pc.at = "write"
  BY TableNames DEF write_version, At, Places, Passed
<1>2. /\ v' \in GlassVersion
      /\ v'.rev = v.rev /\ v'.old_root = v.old_root /\ v'.stats = v.stats
      /\ v'.root = v.root /\ v'.serialised_stats = v.stats
  BY DEF WInv, WTypeOK, GlassVersion, write_version
<1>3. chg'.oldest = chg.oldest
  BY DEF write_version
<1>4. WTypeOK' /\ Durable' /\ Built'
  BY <1>1, <1>2 DEF WInv, WTypeOK, Durable, Built, write_version
<1>5. Ended' /\ AllOrNothing'
  BY <1>1, WithinW DEF Within, write_version
<1>6. Progress'
  BY <1>1, <1>2, <1>3 DEF WInv, Progress, Committing, write_version, new_revision
<1> QED
  BY <1>4, <1>5, <1>6 DEF WInv

(* sync() of a table.                                                      *)
LEMMA SyncTableW ==
    ASSUME WInv, sync_table
    PROVE  WInv'
<1>1. /\ pc' \in [at : Places, i : 1..Len(Tables)] /\ here \in Table
      /\ \/ pc'.at = "sync" /\ Passed' = Passed \cup {here}
         \/ pc'.at = "version_sync" /\ Passed' = {} /\ Table = Passed \cup {here}
  BY ThenW DEF sync_table, Places
<1>2. /\ tfile' \in [Table -> TableFile]
      /\ \A t \in Table : tfile'[t].written = tfile[t].written
      /\ \A t \in Table \ {here} : tfile'[t].synced = tfile[t].synced
      /\ tfile'[here].synced = tfile[here].written
  <2>1. tfile \in [Table -> TableFile] /\ tfile[here].written \in SUBSET (SUBSET Txn)
    BY <1>1 DEF WInv, WTypeOK, TableFile
  <2>2. tfile' \in [Table -> TableFile]
    BY Zenon, <1>1, <2>1, Typed DEF sync_table
  <2> QED
    BY <1>1, <2>1, <2>2 DEF TableFile, sync_table
<1>3. WTypeOK' /\ Built'
  BY <1>1, <1>2 DEF WInv, WTypeOK, Built, sync_table
<1>4. Durable'
  BY <1>1, <1>2 DEF WInv, Durable, sync_table
<1>5. Ended' /\ AllOrNothing'
  BY <1>1, WithinW DEF Within, sync_table
<1>6. Progress'
  BY <1>1, <1>2 DEF WInv, Progress, Committing, sync_table
<1> QED
  BY <1>3, <1>4, <1>5, <1>6 DEF WInv

(* The rename: what v.tmp has is the committed revision and the present    *)
(* transaction, and all of its blocks have been synced.                    *)
LEMMA SyncVersionW ==
    ASSUME WInv, sync_version
    PROVE  WInv'
<1>1. /\ pc' \in [at : Places, i : 1..Len(Tables)] /\ pc'.at = "changes"
      /\ pc.at = "version_sync"
      /\ UNCHANGED <<tfile, files, tab, chg, txn, outcome>>
      /\ v' = [v EXCEPT !.old_root = v.root, !.rev = v.rev + 1]
  BY TableNames DEF sync_version, At, Places, new_revision
<1>2. /\ iamglass' = Version(v.rev + 1, v.root, v.stats, chg.oldest)
      /\ \A t \in Table : v.root[t] = tab[t].root /\ tab[t].modified = FALSE
      /\ \A t \in Table : tab[t].root \in tfile[t].synced
      /\ txn \in Txn /\ outcome[txn].touched # {}
      /\ v.serialised_stats = v.stats
  <2>1. vtmp = <<Version(v.rev + 1, v.root, v.stats, chg.oldest)>>
    BY <1>1 DEF WInv, Progress
  <2>2. iamglass' = Version(v.rev + 1, v.root, v.stats, chg.oldest)
    BY <2>1 DEF sync_version
  <2> QED
    BY <1>1, <2>2 DEF WInv, Progress, Committing
<1>3. /\ v' \in GlassVersion
      /\ v'.rev = v.rev + 1 /\ v'.old_root = v.root /\ v'.stats = v.stats
      /\ v'.root = v.root /\ v'.serialised_stats = v.stats
  <2>1. v \in GlassVersion
    BY DEF WInv, WTypeOK
  <2>2. v' = [v EXCEPT !.old_root = v.root, !.rev = v.rev + 1]
    BY <1>1
  <2>3. v.rev + 1 \in Nat /\ v.root \in Root
    BY <2>1 DEF GlassVersion
  <2>4. v' \in GlassVersion
    BY Zenon, <2>1, <2>2, <2>3 DEF GlassVersion
  <2>5. /\ v'.rev = v.rev + 1 /\ v'.old_root = v.root /\ v'.stats = v.stats
        /\ v'.root = v.root /\ v'.serialised_stats = v.serialised_stats
    BY <2>1, <2>2 DEF GlassVersion
  <2> QED
    BY <1>2, <2>4, <2>5
<1>4. /\ iamglass'.rev = v.rev + 1 /\ iamglass'.root = v.root
      /\ iamglass'.stats = v.stats /\ iamglass'.oldest = chg.oldest
  BY <1>2 DEF Version
<1>5. \A n \in Txn :
         /\ n \in iamglass'.stats <=> IF n = txn THEN TRUE ELSE n \in iamglass.stats
         /\ \A t \in Table :
               n \in iamglass'.root[t] <=> IF n = txn THEN t \in outcome[n].touched
                                           ELSE n \in iamglass.root[t]
  BY <1>1, <1>2, <1>4 DEF WInv, Built
<1>6. WTypeOK'
  BY <1>1, <1>3, <1>4 DEF WInv, WTypeOK, GlassVersion
<1>7. Durable'
  BY <1>1, <1>2, <1>4 DEF WInv, Durable
<1>8. Ended'
  BY <1>1, <1>2, <1>5 DEF WInv, Ended, Txn
<1>9. AllOrNothing'
  <2> SUFFICES ASSUME NEW n \in Txn
               PROVE  \/ /\ n \in iamglass'.stats
                         /\ \A t \in outcome[n].touched : n \in iamglass'.root[t]
                      \/ /\ n \notin iamglass'.stats
                         /\ \A t \in Table : n \notin iamglass'.root[t]
    BY <1>1 DEF AllOrNothing
  <2>1. outcome[n].touched \subseteq Table
    BY SMTT(60) DEF WInv, WTypeOK, Outcome
  <2> QED
    BY <1>5, <2>1 DEF WInv, AllOrNothing
<1>10. Built'
  BY <1>1, <1>2, <1>3, <1>4, <1>5 DEF WInv, Built
<1>11. Progress'
  BY <1>1, <1>2, <1>3, <1>4 DEF WInv, Progress, Committing
<1> QED
  BY <1>6, <1>7, <1>8, <1>9, <1>10, <1>11 DEF WInv

(* commit() returns, and the next transaction starts from what it wrote.   *)
LEMMA CommittedW ==
    ASSUME WInv, NEW max, commit_and_start(max)
    PROVE  WInv'
<1>1. /\ pc' \in [at : Places, i : 1..Len(Tables)] /\ pc'.at = "idle"
      /\ pc.at = "changes"
      /\ UNCHANGED <<iamglass, tfile, v, tab>> /\ Ends("committed")
  BY TableNames DEF commit_and_start, At, Places
<1>2. /\ txn \in Txn /\ outcome[txn].touched # {} /\ v.stats = iamglass.stats
      /\ v.serialised_stats = v.stats
      /\ \A t \in Table : tab[t].root = iamglass.root[t] /\ tab[t].modified = FALSE
      /\ v.rev = iamglass.rev /\ v.old_root = iamglass.root
  BY <1>1 DEF WInv, Progress, Built
<1>3. txn \in iamglass.stats
  BY <1>1, <1>2 DEF WInv, Built
<1>4. /\ txn' \in 1..MaxTxn + 1 /\ outcome' \in [Txn -> Outcome]
      /\ txn' = txn + 1
      /\ \A n \in Txn : /\ outcome'[n].touched = outcome[n].touched
                        /\ outcome'[n].result
                              = IF n = txn THEN "committed" ELSE outcome[n].result
  BY <1>1, <1>2, EndsW DEF Results
<1>5. WTypeOK' /\ Durable'
  BY <1>1, <1>4 DEF WInv, WTypeOK, Durable
<1>6. Ended'
  BY SMTT(60), <1>1, <1>2, <1>3, <1>4, BoundsAssumption DEF WInv, Ended, Txn
<1>7. AllOrNothing'
  BY <1>1, <1>4 DEF WInv, AllOrNothing
<1>8. Built'
  BY <1>1, <1>2, <1>4, BoundsAssumption DEF WInv, Ended, Built, Txn
<1>9. Progress'
  BY <1>1, <1>2 DEF Progress, Committing
<1> QED
  BY <1>5, <1>6, <1>7, <1>8, <1>9 DEF WInv

(* version_file.read() takes everything from the version file.             *)
LEMMA Reread ==
    ASSUME WInv, v' = NewVersion(iamglass)
    PROVE  /\ v' \in GlassVersion /\ v'.rev = iamglass.rev /\ v'.old_root = iamglass.root
           /\ v'.stats = iamglass.stats /\ v'.serialised_stats = iamglass.stats
BY DEF WInv, WTypeOK, NewVersion, GlassVersion

(* A commit that fails before the rename goes back to the version file, or *)
(* closes the database.                                                    *)
LEMMA CommitFailsW ==
    ASSUME WInv, NEW max, commit_fails(max)
    PROVE  WInv'
<1>1. /\ Committing /\ pc.at # "changes" /\ pc.at # "closed" /\ Ends("failed")
      /\ iamglass' = iamglass /\ tfile' = tfile
  BY DEF commit_fails, modifications_failed, Committing
<1>2. txn \in Txn /\ v.rev = iamglass.rev
  BY <1>1 DEF WInv, Progress, Built
<1>3. Durable' /\ tfile' \in [Table -> TableFile]
  BY <1>1 DEF WInv, WTypeOK, Durable
<1>4. CASE /\ v' = NewVersion(iamglass) /\ tab' = OpenTables(iamglass, v.rev)
           /\ pc' = At("idle")
  <2>1. /\ tab' \in [Table -> GlassTable]
        /\ \A t \in Table : tab'[t].root = iamglass.root[t] /\ tab'[t].modified = FALSE
    BY Zenon, <1>2, <1>4, Opened DEF OpenTables, WInv, WTypeOK
  <2>2. Back("failed")
    BY <1>1, <1>2, <1>3, <1>4, <2>1, Reread DEF Back
  <2> QED
    BY <2>2, BackW
<1>5. CASE pc' = At("closed") /\ UNCHANGED <<v, tab>>
  <2>1. pc'.at = "closed" /\ pc' \in [at : Places, i : 1..Len(Tables)]
    BY <1>5, TableNames DEF At, Places
  <2>2. /\ txn' \in 1..MaxTxn + 1 /\ outcome' \in [Txn -> Outcome]
        /\ txn' = txn + 1
        /\ \A n \in Txn : /\ outcome'[n].touched = outcome[n].touched
                          /\ outcome'[n].result
                                = IF n = txn THEN "failed" ELSE outcome[n].result
    BY <1>1, <1>2, EndsW DEF Results
  <2>3. WTypeOK'
    BY <1>1, <1>5, <2>1, <2>2 DEF WInv, WTypeOK
  <2>4. Ended'
    BY SMTT(60), <1>1, <1>2, <2>1, <2>2, BoundsAssumption DEF WInv, Ended, Txn
  <2>5. AllOrNothing'
    BY <1>1, <2>2 DEF WInv, AllOrNothing
  <2>6. Built' /\ Progress'
    BY <2>1 DEF Built, Progress, Committing
  <2> QED
    BY <1>3, <2>3, <2>4, <2>5, <2>6 DEF WInv
<1> QED
  BY <1>4, <1>5 DEF commit_fails, modifications_failed

(* A writer that opens the database after another one was killed.          *)
LEMMA RestartW ==
    ASSUME WInv, NEW max, Restart(max), Durable', tfile' \in [Table -> TableFile]
    PROVE  WInv'
<1>1. txn \in Txn
  BY DEF Restart, WInv, WTypeOK, Txn
<1>2. /\ tab' \in [Table -> GlassTable]
      /\ \A t \in Table : tab'[t].root = iamglass.root[t] /\ tab'[t].modified = FALSE
  BY ZenonT(30), Opened DEF Restart, OpenTables, WInv, WTypeOK
<1>3. CASE outcome[txn].touched = {}
  <2>1. Back("none")
    BY <1>1, <1>2, <1>3, Reread DEF Restart, Back
  <2> QED
    BY <2>1, BackW
<1>4. CASE outcome[txn].touched # {}
  <2>1. Back("killed")
    BY <1>1, <1>2, <1>4, Reread DEF Restart, Back
  <2> QED
    BY <2>1, BackW
<1> QED
  BY <1>3, <1>4

(* A killed writer leaves what it had written to the files.                *)
LEMMA KilledW ==
    ASSUME WInv, NEW max, killed(max)
    PROVE  WInv'
<1>1. Durable' /\ tfile' \in [Table -> TableFile]
  BY DEF WInv, WTypeOK, Durable, killed, Restart
<1> QED
  BY <1>1, RestartW DEF killed

(* A power failure leaves of each table what has been synced.              *)
LEMMA PowerFailureW ==
    ASSUME WInv, NEW max, power_failure(max)
    PROVE  WInv'
<1>1. tfile \in [Table -> TableFile]
  BY DEF WInv, WTypeOK
<1>2. tfile' \in [Table -> TableFile]
  BY <1>1 DEF power_failure, TableFile
<1>3. \A t \in Table : /\ tfile'[t].synced = tfile[t].synced
                       /\ tfile'[t].written = tfile[t].written \cap tfile[t].synced
  BY <1>1 DEF power_failure, TableFile
<1>4. Durable'
  BY SMTT(60), <1>3 DEF WInv, Durable, power_failure, Restart
<1> QED
  BY <1>2, <1>4, RestartW DEF power_failure

(* What readers do leaves the writer and the disk alone.                   *)
LEMMA ReaderW ==
    ASSUME WInv, UNCHANGED <<disk, writer, outcome>>
    PROVE  WInv'
BY DEF WInv, WTypeOK, Durable, Ended, AllOrNothing, Built, Progress, Committing, Passed,
       disk, writer

(* A new database.                                                         *)
LEMMA InitW == Init => WInv
<1> SUFFICES ASSUME Init
             PROVE  WInv
  OBVIOUS
<1>1. pc.at = "idle" /\ pc \in [at : Places, i : 1..Len(Tables)] /\ txn = 1
  BY TableNames DEF Init, At, Places
<1>2. NoRoot \in Root
  BY SMTT(60) DEF NoRoot, Root
<1>3. /\ iamglass.rev = 0 /\ iamglass.root = NoRoot /\ iamglass.stats = {}
      /\ v \in GlassVersion /\ v.rev = 0 /\ v.old_root = NoRoot /\ v.stats = {}
      /\ v.serialised_stats = {}
  BY SMTT(60), <1>2 DEF Init, Empty, Version, NewVersion, GlassVersion
<1>4. /\ tab \in [Table -> GlassTable]
      /\ \A t \in Table : tab[t].root = {} /\ tab[t].modified = FALSE
  BY SMTT(60) DEF Init, Empty, Version, NoRoot, OpenTables, OpenTable, GlassTable
<1>5. /\ tfile \in [Table -> TableFile]
      /\ \A t \in Table : tfile[t].synced = {{}} /\ tfile[t].written = {{}}
  BY DEF Init, TableFile
<1>6. /\ outcome \in [Txn -> Outcome]
      /\ \A n \in Txn : outcome[n].result = "none" /\ outcome[n].touched = {}
  BY DEF Init, Outcome, Results
<1>7. WTypeOK
  BY <1>1, <1>2, <1>3, <1>4, <1>5, <1>6, BoundsAssumption DEF WTypeOK
<1>8. Durable
  BY <1>3, <1>5 DEF Durable, NoRoot
<1>9. Ended /\ AllOrNothing
  BY SMTT(60), <1>1, <1>3, <1>6 DEF Ended, AllOrNothing, NoRoot, Txn
<1>10. Built
  BY <1>1, <1>3, <1>4, <1>6 DEF Built, NoRoot
<1>11. Progress
  BY <1>1, <1>3, <1>4 DEF Progress, Committing
<1> QED
  BY <1>7, <1>8, <1>9, <1>10, <1>11 DEF WInv

(* Every step keeps the invariant.                                         *)
LEMMA NextW == WInv /\ [Next]_vars => WInv'
<1> SUFFICES ASSUME WInv, [Next]_vars
             PROVE  WInv'
  OBVIOUS
<1>1. CASE WriterStep
  <2>1. CASE \E t \in Table : modify(t)
    BY <2>1, ModifyW
  <2>2. CASE cancel \/ apply \/ flush_db \/ commit_table
    BY <2>2, CancelW, ApplyW, FlushW, CommitTableW
  <2>3. CASE write_version \/ sync_table \/ sync_version
    BY <2>3, WriteVersionW, SyncTableW, SyncVersionW
  <2>4. CASE \E max \in 0..MaxChangesets : commit_and_start(max) \/ commit_fails(max)
    BY <2>4, CommittedW, CommitFailsW
  <2>5. CASE \E max \in 0..MaxChangesets : killed(max) \/ power_failure(max)
    BY <2>5, KilledW, PowerFailureW
  <2> QED
    BY <1>1, <2>1, <2>2, <2>3, <2>4, <2>5 DEF WriterStep
<1>2. CASE ReaderStep
  <2>1. UNCHANGED <<disk, writer, outcome>>
    BY Zenon, <1>2 DEF ReaderStep, open_version, open_table, open_overwritten, OpenThrows
  <2> QED
    BY SMTT(60), <2>1, ReaderW
<1>3. CASE UNCHANGED vars
  BY <1>3, ReaderW DEF vars
<1> QED
  BY <1>1, <1>2, <1>3 DEF Next

(* The inductive invariant of the commit of several tables: what each      *)
(* stage of set_revision_number has done, and what is in the version file  *)
(* and in memory meanwhile.                                                *)
THEOREM CommitInvariant == Spec => []WInv
BY InitW, NextW, PTL DEF Spec

(* For any number of tables, a power failure at any moment leaves a        *)
(* version file all of whose blocks are on disk: set_revision_number syncs *)
(* every table before it renames v.tmp.                                    *)
THEOREM PowerFailureSafe == Spec => []SurvivesPowerFailure
<1>1. WInv => SurvivesPowerFailure
  BY DEF WInv, Durable, SurvivesPowerFailure
<1> QED
  BY <1>1, CommitInvariant, PTL

(* For any number of tables and transactions, every version file that is   *)
(* ever renamed into place has the whole of a transaction or nothing of    *)
(* it.                                                                     *)
THEOREM AllOrNothingHolds == Spec => []AllOrNothing
<1>1. WInv => AllOrNothing
  BY DEF WInv
<1> QED
  BY <1>1, CommitInvariant, PTL

(* What commit() and cancel() reported stays true through every later      *)
(* failure, crash and rollback: a committed transaction is in the version  *)
(* file, and one that failed or was cancelled is neither there nor in      *)
(* memory.                                                                 *)
THEOREM OutcomeStandsHolds == Spec => []OutcomeStands
<1>1. WInv => OutcomeStands
  <2> SUFFICES ASSUME WInv, NEW n \in Txn
               PROVE  /\ outcome[n].result = "committed" => n \in iamglass.stats
                      /\ outcome[n].result \in {"failed", "cancelled"} =>
                            /\ n \notin iamglass.stats
                            /\ pc.at # "closed" => n \notin v.stats
                            /\ \A t \in Table : n \notin iamglass.root[t] /\
                                                (pc.at # "closed" => n \notin tab[t].root)
    BY DEF OutcomeStands
  <2>1. outcome[n].result \in {"failed", "cancelled"} => n # txn
    BY DEF WInv, WTypeOK, Ended, Txn
  <2> QED
    BY <2>1 DEF WInv, Ended, Built
<1> QED
  BY <1>1, CommitInvariant, PTL
=============================================================================
