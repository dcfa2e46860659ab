--------------------------- MODULE GlassWritable ---------------------------
(***************************************************************************)
(* GlassWritableDatabase, the object a client writes to: documents are     *)
(* added, deleted and replaced, the inverted form of the changes is        *)
(* buffered, reads flush parts of the buffers, the buffers are flushed     *)
(* every flush_threshold changes, and transactions, errors and restarts    *)
(* throw away what is not committed.  A client also reads documents,       *)
(* modifies them and puts them back, which takes the modify shortcut.      *)
(*                                                                         *)
(* db is the object: tab its tables, ver the statistics, post, len, pos    *)
(* the Inverter, vm the GlassValueManager, change_count, state the         *)
(* transaction state and shortcut the modify_shortcut_document and its     *)
(* docid; disk is the committed revision.  Committing writes disk in one   *)
(* step: GlassCommit models what happens inside.  cur and comm are the     *)
(* collections the client's calls ask for, kept as DocStore says.          *)
(***************************************************************************)
EXTENDS Sequences, GlassBuffers

CONSTANTS Docs,              \* the documents the client makes
          Start,             \* what the database holds when it is opened
          BadDoc,            \* a document with a term that is too long
          Handle,            \* Document objects read from the database
          MaxDocid,          \* bound on the docids
          MaxWdf,            \* bound on the wdfs of modified documents
          MaxCalls,          \* bound on the number of calls
          FlushThreshold,    \* flush_threshold
          Document,          \* every document the client can end up with
          Unread,            \* a part of a Document object that is not fetched
          NoDoc              \* no Document object

VARIABLES db, disk, docs, cur, comm,
          calls              \* how many calls the client made

vars == <<db, disk, docs, cur, comm, calls>>

Store == INSTANCE DocStore WITH Docid <- 1..MaxDocid, state <- db.state

Terms == UNION {DOMAIN d.terms : d \in Docs}
Slots == UNION {DOMAIN d.values : d \in Docs}

EmptyTables == [docdata |-> EmptyMap, termlist |-> EmptyMap, slots |-> EmptyMap,
                postlist |-> EmptyMap, doclens |-> EmptyMap,
                position |-> EmptyMap, values |-> EmptyMap, vstats |-> EmptyMap]
NoValues == [stats |-> EmptyMap, changes |-> EmptyMap, slots |-> EmptyMap]
NoShortcut == [handle |-> NoDoc, did |-> 0]

Opened(d) ==
    [tab |-> d.tab, ver |-> d.ver, post |-> EmptyMap, len |-> EmptyMap, pos |-> EmptyMap,
     vm |-> NoValues, change_count |-> 0, state |-> "none", shortcut |-> NoShortcut]

-----------------------------------------------------------------------------
(* Reading through the buffers.                                            *)

\* get_positionlist, then the table.
PositionsOf(w, did, t) ==
    LET p == Lookup(w.pos, <<did, t>>, Lookup(w.tab.position, <<did, t>>, Deleted))
    IN  IF p = Deleted THEN 0 ELSE p

\* GlassValueManager::get_value.
ValueOf(w, did, s) == Lookup(w.vm.changes, <<s, did>>, Lookup(w.tab.values, <<s, did>>, Deleted))

FetchTerms(w, did) ==
    LET wdfs == Lookup(w.tab.termlist, did, EmptyMap)
    IN  [t \in DOMAIN wdfs |-> [wdf |-> wdfs[t], pos |-> PositionsOf(w, did, t)]]

\* get_all_values.
FetchValues(w, did) == [s \in SlotsOf(w.vm, w.tab, did) |-> ValueOf(w, did, s)]

FetchDocument(w, did) ==
    [data |-> Lookup(w.tab.docdata, did, 0),
     terms |-> FetchTerms(w, did),
     values |-> FetchValues(w, did)]

\* What a Document object holds: a part it has not fetched is in the database.
Content(w, h) ==
    [data |-> IF h.data = Unread THEN Lookup(w.tab.docdata, h.did, 0) ELSE h.data,
     terms |-> IF h.terms = Unread THEN FetchTerms(w, h.did) ELSE h.terms,
     values |-> IF h.values = Unread THEN FetchValues(w, h.did) ELSE h.values]

\* Document lengths, through the Inverter.
Lengths(w) == Merge(w.tab.doclens, w.len)

-----------------------------------------------------------------------------
(* Flushing, committing, cancelling.                                       *)

FlushTerms(w, terms) ==
    [w EXCEPT !.tab.postlist = FlushPostLists(@, w.post, terms),
              !.post = Drop(@, terms)]

flush_doclengths(w) == [w EXCEPT !.tab.doclens = Merge(@, w.len), !.len = EmptyMap]

flush_postlist_changes(w) ==
    [FlushTerms(flush_doclengths(w), DOMAIN w.post)
        EXCEPT !.tab.position = Merge(@, w.pos), !.pos = EmptyMap, !.change_count = 0]

MergeValueChanges(w) ==
    [w EXCEPT !.tab = MergeValues(@, w.vm), !.vm.changes = EmptyMap, !.vm.slots = EmptyMap]

\* apply(): the value statistics go to the table, then a revision is written.
Applied(w) ==
    MergeValueChanges([w EXCEPT !.tab.vstats = WriteValueStats(@, w.vm.stats),
                                !.vm.stats = EmptyMap])

\* cancel(): back to the committed revision.  The shortcut stays.
Cancelled(w) ==
    [Opened(disk) EXCEPT !.state = w.state, !.shortcut = w.shortcut]

Committed(w) == Applied(IF w.change_count > 0 THEN flush_postlist_changes(w) ELSE w)

\* The outcome of writing a revision: the new state and the new disk.
Write(w, ok) ==
    IF ok THEN db' = w /\ disk' = [tab |-> w.tab, ver |-> w.ver]
          ELSE db' = Cancelled(w) /\ UNCHANGED disk

\* check_flush_threshold() at the end of an operation.  In a transaction the
\* buffers are flushed but no revision is written.
check_flush_threshold(w) ==
    IF w.change_count + 1 < FlushThreshold THEN [w EXCEPT !.change_count = @ + 1]
    ELSE flush_postlist_changes(w)

FinishInTransaction(w, ok) ==
    IF w.change_count + 1 < FlushThreshold
    THEN ok /\ db' = check_flush_threshold(w) /\ UNCHANGED disk
    ELSE Write(Applied(flush_postlist_changes(w)), ok)

Finish(w, ok) ==
    IF w.change_count + 1 < FlushThreshold \/ w.state # "none"
    THEN ok /\ db' = check_flush_threshold(w) /\ UNCHANGED disk
    ELSE Write(Applied(flush_postlist_changes(w)), ok)

\* What the client's collections become when a call asks for c: c is also
\* the committed collection if the call wrote a revision.
Asked(c, ok) ==
    /\ cur' = IF ok THEN c ELSE comm
    /\ comm' = IF disk' # disk THEN cur' ELSE comm

\* Every action is one more call.
Count == calls < MaxCalls /\ calls' = calls + 1

-----------------------------------------------------------------------------
(* Adding, deleting and replacing.                                         *)

PutData(w, did, data) ==
    [w EXCEPT !.tab.docdata = IF data = 0 THEN Drop(@, {did}) ELSE Put(@, did, data)]

\* add_document_() up to the threshold check.
AddDoc(w, did, d) ==
    LET stored == PutData(w, did, d.data)
        postings == [t \in DOMAIN d.terms |-> AddedPosting(d.terms[t].wdf)]
        wdfs == [t \in DOMAIN d.terms |-> d.terms[t].wdf]
    IN  [stored EXCEPT !.vm = ValuesAdd(@, w.tab, did, d.values),
                       !.post = BufferPostings(@, did, postings),
                       !.pos = BufferPositions(@, w.tab.position, did, d.terms, {}),
                       !.tab.termlist = Put(@, did, wdfs),
                       !.len = Put(@, did, Doclen(d.terms)),
                       !.ver = StatsAdd(CheckWdfs(@, d.terms), Doclen(d.terms))]

\* delete_document() of a document that exists, up to the threshold check.
DeleteDoc(w, did) ==
    LET old == w.tab.termlist[did]
        postings == [t \in DOMAIN old |-> RemovedPosting(old[t])]
        left == PutData(w, did, 0)
    IN  [left EXCEPT !.shortcut = IF @.did = did THEN NoShortcut ELSE @,
                     !.vm = ValuesDelete(@, w.tab, did),
                     !.ver = StatsDelete(@, SumFunction(old)),
                     !.pos = DeletePositions(@, did, DOMAIN old),
                     !.post = BufferPostings(@, did, postings),
                     !.tab.termlist = Drop(@, {did}),
                     !.len = Put(@, did, Deleted)]

\* The part of replace_document() that compares old and new terms.
ReplaceTerms(w, did, terms, pos_modified) ==
    LET old == w.tab.termlist[did]
        gone == DOMAIN old \ DOMAIN terms
        changed == {t \in DOMAIN terms : t \in DOMAIN old => old[t] # terms[t].wdf}
        postings == [t \in gone \cup changed |->
                        IF t \in gone THEN RemovedPosting(old[t])
                        ELSE IF t \in DOMAIN old THEN UpdatedPosting(old[t], terms[t].wdf)
                        ELSE AddedPosting(terms[t].wdf)]
        wdfs == [t \in DOMAIN terms |-> terms[t].wdf]
        left == StatsDelete(w.ver, SumFunction(old))
    IN  [w EXCEPT !.ver = StatsAdd(CheckWdfs(left, terms), Doclen(terms)),
                  !.post = BufferPostings(@, did, postings),
                  !.pos = IF pos_modified
                          THEN BufferPositions(DeletePositions(@, did, gone), w.tab.position,
                                               did, terms, DOMAIN old)
                          ELSE @,
                  !.tab.termlist = Put(@, did, wdfs),
                  !.len = IF Doclen(terms) # SumFunction(old) THEN Put(@, did, Doclen(terms))
                          ELSE @]

ReplaceValues(w, did, values) ==
    [w EXCEPT !.vm = ValuesAdd(ValuesDelete(@, w.tab, did), w.tab, did, values)]

\* replace_document() without the shortcut, up to the threshold check.
ReplaceDoc(w, did, d) ==
    IF did \notin DOMAIN w.tab.termlist THEN AddDoc(w, did, d)
    ELSE ReplaceValues(PutData(ReplaceTerms(w, did, d.terms, TRUE), did, d.data),
                       did, d.values)

\* replace_document() of a document that was read from this database last:
\* the parts of it that were not fetched are left alone.
ModifyDoc(w, did, h) ==
    IF h.terms # Unread /\ did \notin DOMAIN w.tab.termlist
    THEN AddDoc(w, did, Content(w, h))
    ELSE LET w1 == IF h.terms = Unread THEN w ELSE ReplaceTerms(w, did, h.terms, h.posmod)
             w2 == IF h.data = Unread THEN w1 ELSE PutData(w1, did, h.data)
         IN  IF h.values = Unread THEN w2 ELSE ReplaceValues(w2, did, h.values)

NewLast(w, did) == [w EXCEPT !.ver.last_docid = Max({@, did})]

add_document(d, ok) ==
    /\ Count
    /\ db.ver.last_docid < MaxDocid
    /\ LET did == db.ver.last_docid + 1
       IN  Finish(AddDoc(NewLast(db, did), did, d), ok) /\ Asked(Store!With(cur, did, d), ok)
    /\ UNCHANGED docs

\* A term that is too long: the call throws once it has buffered a part of
\* the document, and cancels everything that is not committed.
add_bad_document ==
    /\ Count
    /\ db' = Cancelled(AddDoc(db, db.ver.last_docid + 1, BadDoc))
    /\ cur' = comm
    /\ UNCHANGED <<disk, docs, comm>>

\* A document that does not exist is not found, unless the shortcut still
\* names it: then its term list is not found later on, and everything that
\* is not committed is cancelled.
delete_document(did, ok) ==
    /\ Count
    /\ IF did \in DOMAIN db.tab.termlist THEN Finish(DeleteDoc(db, did), ok)
       ELSE /\ ok
            /\ db' = IF db.shortcut.did = did
                     THEN [Cancelled(db) EXCEPT !.shortcut = NoShortcut] ELSE db
            /\ UNCHANGED disk
    /\ Asked(Store!Without(cur, {did}), ok)
    /\ UNCHANGED docs

replace_document(did, d, ok) ==
    /\ Count
    /\ Finish(ReplaceDoc(NewLast(db, did), did, d), ok)
    /\ Asked(Store!With(cur, did, d), ok)
    /\ UNCHANGED docs

\* replace_document() with a Document object read from the database.  The
\* terms of one that was deleted since cannot be read: everything that is not
\* committed is cancelled.
replace_with(did, h, ok) ==
    /\ Count
    /\ docs[h] # NoDoc
    /\ LET obj == docs[h]
           same == did <= db.ver.last_docid /\ db.shortcut.did = obj.did
           modifying == same /\ db.shortcut.handle = h
           w == IF same /\ ~modifying THEN [db EXCEPT !.shortcut = NoShortcut]
                ELSE NewLast(db, did)
           modified == obj.data # Unread \/ obj.terms # Unread \/ obj.values # Unread
           fetches == obj.did = did /\ did \in DOMAIN db.tab.termlist /\ ~modifying
           dead == ~modifying /\ obj.terms = Unread /\ obj.did \notin DOMAIN db.tab.termlist
       IN  /\ IF modifying /\ ~modified THEN ok /\ UNCHANGED <<db, disk>>
              ELSE IF dead THEN ~ok /\ db' = Cancelled(w) /\ UNCHANGED disk
              ELSE Finish(IF modifying THEN ModifyDoc(w, did, obj)
                          ELSE ReplaceDoc(w, did, Content(db, obj)), ok)
           /\ docs' = IF fetches THEN [docs EXCEPT ![h].values = Content(db, obj).values]
                      ELSE docs
           /\ Asked(Store!With(cur, did, Content(db, obj)), ok)

-----------------------------------------------------------------------------
(* By term: the loops run in an unflushed transaction of their own.        *)

Matching(t) == DOMAIN Lookup(FlushTerms(db, {t}).tab.postlist, t, NoPostingChanges).pl

\* One iteration of the loop, threshold check included.
DeleteInLoop(did, w) == check_flush_threshold(DeleteDoc(w, did))

InTransaction(w) == [w EXCEPT !.state = IF @ = "none" THEN "unflushed" ELSE @]

DeleteAll(w, dids) ==
    MapThenFoldSet(DeleteInLoop, InTransaction(w), LAMBDA did : did, Max, dids)

delete_by_term(t) ==
    /\ Count
    /\ Matching(t) # {}
    /\ db' = [DeleteAll(FlushTerms(db, {t}), Matching(t)) EXCEPT !.state = db.state]
    /\ UNCHANGED <<disk, docs>>
    /\ Asked(Store!Without(cur, Matching(t)), TRUE)

replace_by_term(t, d) ==
    LET dids == Matching(t)
        first == Min(dids)
        replaced == check_flush_threshold(ReplaceDoc(FlushTerms(db, {t}), first, d))
    IN  /\ Count
        /\ dids # {}
        /\ db' = [DeleteAll(replaced, dids \ {first}) EXCEPT !.state = db.state]
        /\ UNCHANGED <<disk, docs>>
        /\ Asked(Store!With(Store!Without(cur, dids), first, d), TRUE)

-----------------------------------------------------------------------------
(* Document objects.                                                       *)

get_document(h, did) ==
    /\ Count
    /\ docs[h] = NoDoc
    /\ did \in DOMAIN db.tab.termlist
    /\ docs' = [docs EXCEPT ![h] = [did |-> did, data |-> Unread, terms |-> Unread,
                                    values |-> Unread, posmod |-> FALSE]]
    /\ db' = [db EXCEPT !.shortcut = [handle |-> h, did |-> did]]
    /\ UNCHANGED <<disk, cur, comm>>

\* ~Document::Internal calls invalidate_doc_object().
drop_document(h) ==
    /\ Count
    /\ docs[h] # NoDoc
    /\ docs' = [docs EXCEPT ![h] = NoDoc]
    /\ db' = IF db.shortcut.handle = h THEN [db EXCEPT !.shortcut = NoShortcut] ELSE db
    /\ UNCHANGED <<disk, cur, comm>>

\* The client changes the object; ensure_terms_fetched and
\* ensure_values_fetched read what is not there yet.
Modify(h, obj) ==
    /\ Count
    /\ docs[h] # NoDoc
    /\ docs[h].did \in DOMAIN db.tab.termlist
    /\ docs' = [docs EXCEPT ![h] = obj]
    /\ UNCHANGED <<db, disk, cur, comm>>

set_data(h, data) == Modify(h, [docs[h] EXCEPT !.data = data])

add_term(h, t) ==
    LET terms == Content(db, docs[h]).terms
        old == Lookup(terms, t, [wdf |-> 0, pos |-> 0])
    IN  /\ docs[h] # NoDoc /\ old.wdf < MaxWdf
        /\ Modify(h, [docs[h] EXCEPT !.terms = Put(terms, t, [old EXCEPT !.wdf = @ + 1])])

remove_term(h, t) ==
    LET terms == Content(db, docs[h]).terms
    IN  /\ docs[h] # NoDoc /\ t \in DOMAIN terms
        /\ Modify(h, [docs[h] EXCEPT !.terms = Drop(terms, {t}),
                                     !.posmod = @ \/ terms[t].pos # 0])

clear_values(h) == Modify(h, [docs[h] EXCEPT !.values = EmptyMap])

-----------------------------------------------------------------------------
(* Reads that flush.                                                       *)

open_post_list(w, t) == FlushTerms(w, {t})

\* open_post_list("") flushes the lengths unless every docid is used.
open_all_docs(w) ==
    IF w.ver.doccount \in {0, w.ver.last_docid} THEN w ELSE flush_doclengths(w)

open_allterms(w) ==
    IF w.change_count = 0 THEN w
    ELSE [FlushTerms(w, DOMAIN w.post) EXCEPT !.change_count = 1]

open_value_list(w) == IF w.change_count = 0 THEN w ELSE MergeValueChanges(w)

Read ==
    /\ Count
    /\ \/ \E t \in Terms : db' = open_post_list(db, t)
       \/ db' = open_all_docs(db)
       \/ db' = open_allterms(db)
       \/ db' = open_value_list(db)
    /\ UNCHANGED <<disk, docs, cur, comm>>

-----------------------------------------------------------------------------
(* Commits, transactions, restarts.                                        *)

commit(ok) ==
    /\ Count
    /\ db.state = "none"
    /\ Write(Committed(db), ok)
    /\ IF ok THEN Store!StoreCommit ELSE cur' = comm /\ comm' = comm
    /\ UNCHANGED docs

begin_transaction(kind, ok) ==
    /\ Count
    /\ db.state = "none"
    /\ IF kind = "flushed"
       THEN Write(IF ok THEN [Committed(db) EXCEPT !.state = kind] ELSE db, ok)
       ELSE ok /\ db' = [db EXCEPT !.state = kind] /\ UNCHANGED disk
    /\ cur' = IF ok THEN cur ELSE comm
    /\ comm' = IF ok /\ kind = "flushed" THEN cur ELSE comm
    /\ UNCHANGED docs

commit_transaction(ok) ==
    LET w == [db EXCEPT !.state = "none"]
    IN  /\ Count
        /\ db.state # "none"
        /\ IF db.state = "flushed" THEN Write(Committed(w), ok)
           ELSE ok /\ db' = w /\ UNCHANGED disk
        /\ cur' = IF ok THEN cur ELSE comm
        /\ comm' = IF ok /\ db.state = "flushed" THEN cur ELSE comm
        /\ UNCHANGED docs

cancel_transaction ==
    /\ Count
    /\ db.state # "none"
    /\ db' = Cancelled([db EXCEPT !.state = "none"])
    /\ cur' = comm
    /\ UNCHANGED <<disk, comm, docs>>

\* close() or the destructor, and opening the database again: a transaction
\* is dropped, anything else is committed; a killed process saves nothing.
reopen(saves) ==
    LET w == IF saves /\ db.state = "none" THEN Committed(db) ELSE Cancelled(db)
    IN  /\ Count
        /\ disk' = [tab |-> w.tab, ver |-> w.ver]
        /\ db' = Opened(disk')
        /\ docs' = [h \in Handle |-> NoDoc]
        /\ cur' = IF saves /\ db.state = "none" THEN cur ELSE comm
        /\ comm' = cur'

-----------------------------------------------------------------------------
(* Two uses of a Document object go wrong, and a careful client avoids     *)
(* them: it puts a document back only where it came from, and it does not  *)
(* change, cancel or lose a document while it holds an object for it whose *)
(* terms it has fetched.                                                   *)

Holds(did) == \E h \in Handle : docs[h] # NoDoc /\ docs[h].did = did
HoldsNone == \A h \in Handle : docs[h] = NoDoc

\* Writing a revision may fail.
Outcome == IF HoldsNone THEN BOOLEAN ELSE {TRUE}

Changes ==
    \/ \E ok \in Outcome, d \in Docs : add_document(d, ok)
    \/ \E ok \in Outcome, did \in 1..MaxDocid : delete_document(did, ok)
    \/ \E d \in Docs, did \in 1..MaxDocid : ~Holds(did) /\ replace_document(did, d, TRUE)
    \/ \E h \in Handle : docs[h] # NoDoc /\ replace_with(docs[h].did, h, TRUE)
    \/ \E h \in Handle : /\ docs[h] # NoDoc /\ docs[h].did \notin DOMAIN db.tab.termlist
                         /\ replace_with(docs[h].did, h, FALSE)
    \/ \E t \in Terms : delete_by_term(t)
    \/ \E t \in Terms, d \in Docs : HoldsNone /\ replace_by_term(t, d)
    \/ HoldsNone /\ add_bad_document

Transactions ==
    \/ \E ok \in Outcome : commit(ok)
    \/ \E ok \in Outcome, kind \in {"flushed", "unflushed"} : begin_transaction(kind, ok)
    \/ \E ok \in Outcome : commit_transaction(ok)
    \/ HoldsNone /\ cancel_transaction
    \/ \E saves \in BOOLEAN : reopen(saves)

Objects ==
    \/ \E h \in Handle, did \in 1..MaxDocid : get_document(h, did)
    \/ \E h \in Handle : drop_document(h)
    \/ \E h \in Handle : set_data(h, 0)
    \/ \E h \in Handle : clear_values(h)
    \/ \E h \in Handle, t \in Terms : add_term(h, t)
    \/ \E h \in Handle, t \in Terms : remove_term(h, t)

Next == Changes \/ Transactions \/ Objects \/ Read

\* Opening a database that holds these documents, added one after the other.
Opening(ds) ==
    LET New == Opened([tab |-> EmptyTables, ver |-> NoStats])
        Adding(did, w) == AddDoc(NewLast(w, did), did, ds[did])
        w == Committed([MapThenFoldSet(Adding, New, LAMBDA did : did, Max, DOMAIN ds)
                           EXCEPT !.change_count = Len(ds)])
    IN  /\ disk = [tab |-> w.tab, ver |-> w.ver]
        /\ db = Opened(disk)
        /\ docs = [h \in Handle |-> NoDoc]
        /\ cur = Store!Collection(ds, Len(ds))
        /\ comm = cur
        /\ calls = 0

Init == \E ds \in Start : Opening(ds)

Spec == Init /\ [][Next]_vars

\* Any use of Document objects that the API documentation allows.
AnyCall ==
    \/ Next
    \/ \E did \in 1..MaxDocid, h \in Handle : replace_with(did, h, TRUE)
    \/ \E did \in 1..MaxDocid, d \in Docs : replace_document(did, d, TRUE)
    \/ add_bad_document
    \/ cancel_transaction

AnySpec == Init /\ [][AnyCall]_vars

-----------------------------------------------------------------------------
(* What holds.                                                             *)

Live == DOMAIN cur.docs
Indexed(c, t) == {did \in DOMAIN c.docs : t \in DOMAIN c.docs[did].terms}

\* The documents the database returns are the ones the client stored: the
\* data, the terms with their wdfs and positions, and the values, however
\* much of them is buffered (GlassWritableDatabase::open_document).  The
\* committed tables hold the documents of one collection the client built,
\* with nothing left in a buffer: a commit is whole.
DocumentsAsStored ==
    /\ DOMAIN db.tab.termlist = Live
    /\ \A did \in Live : FetchDocument(db, did) = cur.docs[did]
    /\ db.ver.last_docid = cur.last
    /\ DOMAIN disk.tab.termlist = DOMAIN comm.docs
    /\ \A did \in DOMAIN comm.docs : FetchDocument(Opened(disk), did) = comm.docs[did]
    /\ disk.ver.last_docid = comm.last

\* The posting list of each term, as a reader finds it after the flush that
\* opening it causes, inverts the documents' term lists; its frequencies
\* count them, before the flush as after it.  No position list outlives its
\* posting, on disk or in the buffer: a document added later would inherit it.
\* The terms that open_allterms lists are those of the documents, and the
\* list of all documents is complete, whether or not it is contiguous.
PostingsInvert ==
    /\ \A t \in Terms :
        LET pl == Lookup(open_post_list(db, t).tab.postlist, t, NoPostingChanges)
            tab == Lookup(db.tab.postlist, t, NoPostingChanges)
            delta == Lookup(db.post, t, NoPostingChanges)
            dids == Indexed(cur, t)
        IN  /\ pl.pl = [did \in dids |-> cur.docs[did].terms[t].wdf]
            /\ pl.tf = Cardinality(dids) /\ pl.cf = SumFunction(pl.pl)
            /\ tab.tf + delta.tf = pl.tf /\ tab.cf + delta.cf = pl.cf
            /\ \A k \in DOMAIN db.pos \cup DOMAIN db.tab.position :
                  k[2] = t /\ PositionsOf(db, k[1], t) # 0 => k[1] \in dids
    /\ DOMAIN open_allterms(db).tab.postlist = {t \in Terms : Indexed(cur, t) # {}}
    /\ LET w == open_all_docs(db)
       IN  Live = IF w.ver.doccount = w.ver.last_docid THEN 1..w.ver.doccount
                  ELSE IF w.ver.doccount = 0 THEN {} ELSE DOMAIN w.tab.doclens

\* The document lengths and the statistics count the documents, the bounds
\* bound them, and they can be packed (serialise_stats subtracts).  The value
\* statistics count the documents with a value in the slot and bound the
\* values (get_value_freq and get_value_*_bound).
StatisticsAgree ==
    LET len == [did \in Live |-> Doclen(cur.docs[did].terms)]
        v == db.ver
    IN  /\ Lengths(db) = len
        /\ v.doccount = Cardinality(Live) /\ v.total_doclen = SumFunction(len)
        /\ \A did \in Live : len[did] # 0 => len[did] \in v.doclen_lbound..v.doclen_ubound
        /\ \A did \in Live, t \in Terms :
               t \in DOMAIN cur.docs[did].terms => cur.docs[did].terms[t].wdf <= v.wdf_ubound
        /\ v.doclen_ubound >= v.wdf_ubound /\ v.last_docid >= v.doccount
        /\ \A s \in Slots :
               LET used == {did \in Live : s \in DOMAIN cur.docs[did].values}
                   st == StatsOf(db.vm.stats, db.tab.vstats, s)
               IN  /\ st.freq = Cardinality(used)
                   /\ \A did \in used : cur.docs[did].values[s] \in st.lo..st.hi

\* A value list holds the values of the documents.
ValueListsCurrent ==
    open_value_list(db).tab.values =
        [k \in {x \in Slots \X Live : x[1] \in DOMAIN cur.docs[x[2]].values} |->
            cur.docs[k[2]].values[k[1]]]

\* The database behaves as DocStore says: nothing is committed during a
\* transaction, a transaction is committed whole or not at all, and an error
\* takes the collection back to the committed one.
ImplementsDocStore == Store!StoreSpec
=============================================================================
