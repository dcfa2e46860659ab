--------------------------- MODULE MCCowReaders ---------------------------
(***************************************************************************)
(* CowReaders for TLC.  A step of the writer changes the use of one block  *)
(* or writes one block, and a Commit that also writes is a Build followed  *)
(* by one that does not.  Blocks have at most one pointer, to a block that *)
(* is in the tree when the pointer is written: the instance visits only    *)
(* the chains among the trees that Build allows; the proofs in             *)
(* CowReadersProofs are about all of them.                                 *)
(***************************************************************************)
EXTENDS CowReaders, FiniteSets, TLC

CONSTANTS MaxRevision    \* bound on the number of commits

Blank == CHOOSE d \in Data : TRUE

MCInit ==
    /\ disk = [b \in Block |-> [rev |-> 0, kids |-> {}, data |-> Blank]]
    /\ owner = [b \in Block |-> "free"]
    /\ RInit

ChangeUse(b) ==
    /\ \E use \in MayBecome(owner[b]) \ {owner[b]} : owner' = [owner EXCEPT ![b] = use]
    /\ disk' = disk
    /\ Build
    /\ UNCHANGED <<snap, reader>>

(* At most one pointer in a tree block, since a cursor follows one path at *)
(* a time, to a block that is in the tree already (a block is split or     *)
(* copied before its parent is changed); none in a freelist block.         *)
WriteBlock(b) ==
    /\ owner' = owner
    /\ \E kids \in {{}} \cup {{k} : k \in {c \in Block \ {b} : InTree(owner[c])}}, d \in Data :
           /\ owner[b] = "list" => kids = {}
           /\ disk' = [disk EXCEPT ![b] = [rev |-> rev + 1, kids |-> kids, data |-> d]]
    /\ Build
    /\ UNCHANGED <<snap, reader>>

Forget ==
    /\ owner # committed
    /\ owner' = committed
    /\ disk' = disk
    /\ Abandon
    /\ UNCHANGED <<snap, reader>>

CommitBlocks ==
    /\ rev < MaxRevision
    /\ disk' = disk
    /\ CommitRevision

MCNext ==
    \/ \E b \in Block : ChangeUse(b)
    \/ \E b \in Block : WriteBlock(b)
    \/ Forget
    \/ CommitBlocks
    \/ \E x \in Reader : Open(x)
    \/ \E x \in Reader, b \in Block : ReadRoot(x, b)
    \/ \E x \in Reader, parent, b \in Block : ReadChild(x, parent, b)

MCSpec == MCInit /\ [][MCNext]_vars

Symmetry == Permutations(Block)
=============================================================================
