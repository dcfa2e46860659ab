----------------------------- MODULE CowStore -----------------------------
(***************************************************************************)
(* What a glass table promises, without its free list and its B-tree: a    *)
(* file of blocks that a writer changes by copy-on-write, one revision     *)
(* after another.  GlassBlocks is shown to implement this specification,   *)
(* and CowReaders adds the readers of the file.                            *)
(*                                                                         *)
(* A block holds a revision (the REVISION field of its header), the        *)
(* numbers of the blocks it points to, and data.                           *)
(***************************************************************************)
EXTENDS Integers

CONSTANTS Block,    \* block numbers
          Data      \* what a block may hold

Contents == [rev : Nat, kids : SUBSET Block, data : Data]

Absent == [rev |-> -1]          \* marks a block that a revision does not use

VARIABLES
    disk,        \* the table file
    owner,       \* what the revision being built uses each block for
    committed,   \* what the last committed revision uses each block for
    saved,       \* the contents that the last committed revision consists of
    rev          \* the last committed revision

store == <<disk, owner, committed, saved, rev>>

(* free: available to this transaction; kept: a tree block of the last     *)
(* revision; fresh: a tree block allocated since; list: holds free list    *)
(* entries; pending: given back, but not to be used before the commit.     *)
Use == {"free", "kept", "fresh", "list", "pending"}

(* Mutant: a block given back may be taken again before the commit.        *)
MayBecomeAtOnce(use) ==
    CASE use = "free" -> {"free", "fresh", "list"}
      [] use = "kept" -> {"kept", "pending"}
      [] use = "fresh" -> {"fresh", "pending"}
      [] use = "list" -> {"list", "pending"}
      [] use = "pending" -> {"pending", "fresh"}

MayBecome(use) ==
    CASE use = "free" -> {"free", "fresh", "list"}
      [] use = "kept" -> {"kept", "pending"}
      [] use = "fresh" -> {"fresh", "pending"}
      [] use = "list" -> {"list", "pending"}
      [] use = "pending" -> {"pending"}

AtCommit(use) ==
    CASE use = "fresh" -> "kept"
      [] use = "pending" -> "free"
      [] use \in {"free", "kept", "list"} -> use

Init ==
    /\ disk \in [Block -> Contents]
    /\ owner \in [Block -> {"free", "fresh"}]
    /\ committed = [b \in Block |-> "free"]
    /\ saved = [b \in Block |-> Absent]
    /\ rev = 0

(* The writer writes only blocks that it took for its own revision or that *)
(* hold the free list, and stamps each with its own revision.              *)
Writes(use) ==
    /\ disk' \in [Block -> Contents]
    /\ \A b \in Block : disk'[b] # disk[b] =>
            use[b] \in {"fresh", "list"} /\ disk'[b].rev = rev + 1

Build ==
    /\ owner' \in [Block -> Use]
    /\ \A b \in Block : owner'[b] \in MayBecome(owner[b])
    /\ Writes(owner')
    /\ UNCHANGED <<committed, saved, rev>>

InTree(use) == use \in {"kept", "fresh"}

Commit ==
    /\ Writes(owner)
    /\ \A b \in Block : owner[b] = "fresh" => disk'[b].rev = rev + 1
    /\ \A b \in Block : InTree(owner[b]) =>
            \A k \in disk'[b].kids : InTree(owner[k])
    /\ owner' = [b \in Block |-> AtCommit(owner[b])]
    /\ committed' = owner'
    /\ saved' = [b \in Block |-> IF InTree(owner[b]) THEN disk'[b] ELSE Absent]
    /\ rev' = rev + 1

(* A cancelled transaction, or a crash and a new writer.  A table without  *)
(* a stored root allocates one as it is opened.                            *)
Abandon ==
    /\ owner' \in [Block -> Use]
    /\ \A b \in Block : owner'[b] \in MayBecome(committed[b])
    /\ Writes(owner')
    /\ UNCHANGED <<committed, saved, rev>>

Next == Build \/ Commit \/ Abandon

Spec == Init /\ [][Next]_store

-----------------------------------------------------------------------------
(* Types of the table file and of the uses of its blocks.                  *)
TypeOK ==
    /\ disk \in [Block -> Contents]
    /\ owner \in [Block -> Use]
    /\ committed \in [Block -> {"free", "kept", "list"}]
    /\ saved \in [Block -> Contents \cup {Absent}]
    /\ rev \in Nat

(* The last committed revision is on disk, block for block, at every       *)
(* moment: a transaction that is never finished cannot damage it.          *)
CommittedIntact ==
    \A b \in Block : saved[b] # Absent => disk[b] = saved[b]

(* The ownership discipline behind it.  A block of the committed tree is   *)
(* still in the tree or waits for the commit, so it is not written; its    *)
(* stamp is that of the revision that wrote it.                            *)
Discipline ==
    /\ \A b \in Block : committed[b] = "kept" => owner[b] \in {"kept", "pending"}
    /\ \A b \in Block : owner[b] = "kept" => committed[b] = "kept"
    /\ \A b \in Block : saved[b] # Absent <=> committed[b] = "kept"
    /\ \A b \in Block : saved[b] # Absent => saved[b].rev <= rev
    /\ \A b \in Block : saved[b] # Absent =>
            \A k \in saved[b].kids : saved[k] # Absent

Inv == TypeOK /\ CommittedIntact /\ Discipline
=============================================================================
