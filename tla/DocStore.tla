------------------------------ MODULE DocStore ------------------------------
(***************************************************************************)
(* What a WritableDatabase promises its client: a current collection of    *)
(* documents that each call changes as a whole, a committed collection     *)
(* that is always some current collection of the past, and transactions    *)
(* that end up committed whole or not at all.                              *)
(***************************************************************************)
EXTENDS Naturals, FiniteSets, TLC, FiniteSetsExt, Functions

CONSTANTS Document,    \* the documents
          Docid        \* a bound on the document ids

VARIABLES cur,         \* what the client sees: documents by docid, last docid
          comm,        \* what is committed
          state        \* the transaction state of Database::Internal

storeVars == <<cur, comm, state>>

\* A collection of documents, and the highest docid it ever gave out.
Collection(docs, last) == [docs |-> docs, last |-> last]

With(c, did, d) == Collection((did :> d) @@ c.docs, Max({did, c.last}))
Without(c, dids) == Collection(Restrict(c.docs, DOMAIN c.docs \ dids), c.last)

\* A database starts with a committed collection, empty if it is new.
StoreInit ==
    /\ cur.docs \in UNION {[1..n -> Document] : n \in 0..Cardinality(Docid)}
    /\ cur.last = Cardinality(DOMAIN cur.docs)
    /\ comm = cur
    /\ state = "none"

\* A change may be committed at once, except in a transaction.
ChangeTo(c) ==
    /\ cur' = c
    /\ comm' \in IF state = "none" THEN {comm, c} ELSE {comm}
    /\ UNCHANGED state

StoreAdd(d) == ChangeTo(With(cur, cur.last + 1, d))

StoreReplace(did, d) == ChangeTo(With(cur, did, d))

StoreDelete(dids) == dids \subseteq DOMAIN cur.docs /\ ChangeTo(Without(cur, dids))

\* The document with the lowest docid is replaced, the others are deleted.
StoreReplaceAll(dids, d) ==
    /\ dids # {} /\ dids \subseteq DOMAIN cur.docs
    /\ ChangeTo(With(Without(cur, dids), Min(dids), d))

StoreCommit ==
    /\ state = "none"
    /\ comm' = cur
    /\ UNCHANGED <<cur, state>>

StoreBegin(kind) ==
    /\ state = "none"
    /\ state' = kind
    /\ comm' = IF kind = "flushed" THEN cur ELSE comm
    /\ UNCHANGED cur

StoreEnd ==
    /\ state # "none"
    /\ state' = "none"
    /\ comm' = IF state = "flushed" THEN cur ELSE comm
    /\ UNCHANGED cur

\* An error, a cancelled transaction or a restart discards what is pending.
StoreDiscard(next) ==
    /\ cur' = comm
    /\ state' = next
    /\ UNCHANGED comm

\* The documents that a step may have stored under a docid: asking which one
\* it was is the same as trying every document, and cheaper.
Stored(did) == IF did \in DOMAIN cur'.docs THEN {cur'.docs[did]} \cap Document ELSE {}

StoreNext ==
    \/ \E d \in Stored(cur.last + 1) : StoreAdd(d)
    \/ \E did \in Docid : \E d \in Stored(did) : StoreReplace(did, d)
    \/ \E dids \in SUBSET DOMAIN cur.docs : StoreDelete(dids)
    \/ \E dids \in SUBSET DOMAIN cur.docs :
           dids # {} /\ \E d \in Stored(Min(dids)) : StoreReplaceAll(dids, d)
    \/ StoreCommit
    \/ \E kind \in {"flushed", "unflushed"} : StoreBegin(kind)
    \/ StoreEnd
    \/ \E next \in {"none", state} : StoreDiscard(next)

StoreSpec == StoreInit /\ [][StoreNext]_storeVars
=============================================================================
