--------------------------- MODULE RemoteDatabase ---------------------------
(***************************************************************************)
(* The remote backend: RemoteDatabase in the client, RemoteServer at the   *)
(* other end of a connection.  A call sends one message and waits for its  *)
(* replies; it may give up waiting (a time-out, or an exception from       *)
(* another shard of the same search), and then the reply is still to come  *)
(* when the next call begins.                                              *)
(*                                                                         *)
(* The server's database is what DocStore says of a WritableDatabase that  *)
(* is in no transaction: docs maps docids to document lengths, any change  *)
(* may be committed at once, an error discards what is not.  A message or  *)
(* reply carries the number of the call it belongs to, which the code does *)
(* not send: the properties are stated with it.                            *)
(***************************************************************************)
EXTENDS Integers, Sequences, FiniteSets, TLC, FiniteSetsExt, Functions

CONSTANTS Lengths,      \* document lengths
          MaxDocid,     \* bound on the docids
          MaxCalls,     \* bound on the calls
          NoStats,      \* no value statistics are kept
          Faults        \* what may go wrong, of AllFaults

AllFaults == {"timeout", "kill_client", "kill_server", "idle", "commit_fails"}

VARIABLES c,            \* the RemoteDatabase object, and the call it is in
          s,            \* the RemoteServer and its database
          toServer, toClient,
          calls

vars == <<c, s, toServer, toClient, calls>>

-----------------------------------------------------------------------------
(* The server's database.                                                  *)

Writes == {"ADDDOCUMENT", "DELETEDOCUMENT", "SETMETADATA"}

NoDocs == [docs |-> [d \in {} |-> 0], last |-> 0, meta |-> 0]

Stats(db) ==
    LET lens == Range(db.docs)
    IN  [doccount |-> Cardinality(DOMAIN db.docs), lastdocid |-> db.last,
         lbound |-> IF lens = {} THEN 0 ELSE Min(lens),
         ubound |-> IF lens = {} THEN 0 ELSE Max(lens)]

\* The database after a write message; metadata, spellings and synonyms are
\* one value.
Written(db, msg) ==
    CASE msg.type = "ADDDOCUMENT" ->
            [db EXCEPT !.docs = (db.last + 1 :> msg.arg) @@ @, !.last = @ + 1]
      [] msg.type = "DELETEDOCUMENT" -> [db EXCEPT !.docs = Restrict(@, DOMAIN @ \ {msg.arg})]
      [] msg.type = "SETMETADATA" -> [db EXCEPT !.meta = msg.arg]

Writable(db, msg) ==
    /\ msg.type = "ADDDOCUMENT" => db.last < MaxDocid
    /\ msg.type = "DELETEDOCUMENT" => msg.arg \in DOMAIN db.docs

-----------------------------------------------------------------------------
(* Messages and replies.                                                   *)

Reply(type, id) == [type |-> type, id |-> id, stats |-> Stats(NoDocs)]
StatsReply(type, id, db) == [Reply(type, id) EXCEPT !.stats = Stats(db)]

is_intermediate_without_value(type) == type \in {"DOCDATA", "TERMLISTHEADER", "POSTLISTHEADER"}

is_intermediate_reply(type) == type \in {"DOCDATA", "VALUE", "TERMLISTHEADER", "POSTLISTHEADER"}

\* The replies that a call takes for its first one.
Required(type) ==
    CASE type \in {"UPDATE", "WRITEACCESS", "REOPEN"} -> {"UPDATE", "DONE"}
      [] type = "VALUESTATS" -> {"VALUESTATS"}
      [] type = "READ" -> {"READ"}
      [] type = "DOCUMENT" -> {"DOCDATA"}
      [] type = "TERMLIST" -> {"TERMLISTHEADER"}
      [] type = "POSTLIST" -> {"POSTLISTHEADER"}
      [] type = "QUERY" -> {"STATS"}
      [] type = "GETMSET" -> {"RESULTS"}
      [] type = "ADDDOCUMENT" -> {"ADDDOCUMENT"}
      [] OTHER -> {"DONE"}

\* The replies it takes after one that announces more.
RequiredAfter(type) ==
    CASE type \in {"DOCDATA", "VALUE"} -> {"VALUE", "DONE"}
      [] type = "TERMLISTHEADER" -> {"TERMLIST"}
      [] type = "POSTLISTHEADER" -> {"POSTLIST"}

-----------------------------------------------------------------------------
(* RemoteServer.                                                           *)

Alive == s.phase \in {"idle", "query"}

\* ~RemoteServer deletes the database: outside of a transaction, and the
\* server is never in one, that commits.
Shut(phase) == [s EXCEPT !.comm = s.cur, !.phase = phase]

Answer(replies) == toClient' = toClient \o replies

\* A handler that changes the database: a change may be committed at once.  An
\* error is sent to the client; one in the middle of a change to the documents
\* discards what is not committed.
msg_write(msg) ==
    \/ /\ Writable(s.cur, msg)
       /\ \E comm \in {s.comm, Written(s.cur, msg)} :
              s' = [s EXCEPT !.cur = Written(s.cur, msg), !.comm = comm]
       /\ Answer(<<Reply(IF msg.type = "ADDDOCUMENT" THEN msg.type ELSE "DONE", msg.id)>>)
    \/ /\ s' = IF Writable(s.cur, msg) /\ msg.type # "SETMETADATA"
               THEN [s EXCEPT !.cur = s.comm] ELSE s
       /\ Answer(<<Reply("EXCEPTION", msg.id)>>)

msg_commit(msg) ==
    \/ s' = [s EXCEPT !.comm = s.cur] /\ Answer(<<Reply("DONE", msg.id)>>)
    \/ /\ "commit_fails" \in Faults
       /\ s' = [s EXCEPT !.cur = s.comm, !.lost = TRUE]
       /\ Answer(<<Reply("EXCEPTION", msg.id)>>)

\* begin_transaction(false) and cancel_transaction().
msg_cancel(msg) == s' = [s EXCEPT !.cur = s.comm] /\ Answer(<<Reply("DONE", msg.id)>>)

\* The document's data, its values one by one, the end.
msg_document(msg) ==
    /\ \E values \in 0..1 :
           Answer(<<Reply("DOCDATA", msg.id)>>
                  \o [i \in 1..values |-> Reply("VALUE", msg.id)] \o <<Reply("DONE", msg.id)>>)
    /\ UNCHANGED s

msg_termlist(msg) ==
    /\ Answer(<<Reply("TERMLISTHEADER", msg.id), Reply("TERMLIST", msg.id)>>)
    /\ UNCHANGED s

msg_postlist(msg) ==
    /\ Answer(<<Reply("POSTLISTHEADER", msg.id), Reply("POSTLIST", msg.id)>>)
    /\ UNCHANGED s

msg_update(msg) == Answer(<<StatsReply("UPDATE", msg.id, s.cur)>>) /\ UNCHANGED s

msg_valuestats(msg) == Answer(<<StatsReply("VALUESTATS", msg.id, s.cur)>>) /\ UNCHANGED s

\* The handlers that send one reply about the database.
msg_read(msg) == Answer(<<Reply("READ", msg.id)>>) /\ UNCHANGED s

\* The first half of a query: from here to the MSG_GETMSET the handler is in
\* the middle of its work.
msg_query(msg) ==
    /\ s' = [s EXCEPT !.phase = "query"]
    /\ Answer(<<Reply("STATS", msg.id)>>)

msg_getmset_ignoring(msg) ==
    IF msg.type = "GETMSET"
    THEN s' = [s EXCEPT !.phase = "idle"] /\ Answer(<<Reply("RESULTS", msg.id)>>)
    ELSE UNCHANGED <<s, toClient>>

\* The second half, and what happens when another message comes instead: a
\* NetworkError, after which the server closes the connection.
msg_getmset(msg) ==
    IF msg.type = "GETMSET"
    THEN s' = [s EXCEPT !.phase = "idle"] /\ Answer(<<Reply("RESULTS", msg.id)>>)
    ELSE s' = Shut("confused") /\ UNCHANGED toClient

\* A handler that reads may fail before it sends anything, or half way.
HandlerThrows(msg) ==
    LET header == [TERMLIST |-> "TERMLISTHEADER", POSTLIST |-> "POSTLISTHEADER"]
    IN  /\ \/ Answer(<<Reply("EXCEPTION", msg.id)>>)
           \/ /\ msg.type \in DOMAIN header
              /\ Answer(<<Reply(header[msg.type], msg.id), Reply("EXCEPTION", msg.id)>>)
        /\ UNCHANGED s

\* Upgrading to a WritableDatabase, unless the lock is taken.
msg_writeaccess(msg) ==
    \/ s' = [s EXCEPT !.wdb = TRUE] /\ Answer(<<StatsReply("UPDATE", msg.id, s.cur)>>)
    \/ UNCHANGED s /\ Answer(<<Reply("EXCEPTION", msg.id)>>)

\* reopen() of a WritableDatabase does nothing.
msg_reopen(msg) == Answer(<<Reply("DONE", msg.id)>>) /\ UNCHANGED s

Handle(msg) ==
    CASE msg.type \in Writes -> msg_write(msg)
      [] msg.type = "COMMIT" -> msg_commit(msg)
      [] msg.type = "CANCEL" -> msg_cancel(msg)
      [] msg.type = "WRITEACCESS" -> msg_writeaccess(msg)
      [] msg.type = "REOPEN" -> msg_reopen(msg)
      [] msg.type = "UPDATE" -> msg_update(msg)
      [] msg.type = "VALUESTATS" -> msg_valuestats(msg)
      [] msg.type = "READ" -> msg_read(msg) \/ HandlerThrows(msg)
      [] msg.type = "DOCUMENT" -> msg_document(msg) \/ HandlerThrows(msg)
      [] msg.type = "TERMLIST" -> msg_termlist(msg) \/ HandlerThrows(msg)
      [] msg.type = "POSTLIST" -> msg_postlist(msg) \/ HandlerThrows(msg)
      [] msg.type = "QUERY" -> msg_query(msg) \/ HandlerThrows(msg)

\* run() takes the next message.
ServerRun ==
    /\ Alive /\ toServer # <<>>
    /\ toServer' = Tail(toServer)
    /\ IF Head(toServer).type = "SHUTDOWN" THEN s' = Shut("closed") /\ UNCHANGED toClient
       ELSE IF s.phase = "query" THEN msg_getmset(Head(toServer))
       ELSE Handle(Head(toServer))
    /\ UNCHANGED <<c, calls>>

\* The end of what a client that is gone has sent.
ServerEOF ==
    /\ Alive /\ toServer = <<>> /\ c.link = "closed"
    /\ s' = Shut("closed")
    /\ UNCHANGED <<c, toServer, toClient, calls>>

\* No message for too long: the client is told, the connection is closed.
ServerTimeout ==
    /\ "idle" \in Faults
    /\ Alive /\ toServer = <<>>
    /\ s' = Shut("closed")
    /\ Answer(<<Reply("EXCEPTION", 0)>>)
    /\ UNCHANGED <<c, toServer, calls>>

KillServer ==
    /\ "kill_server" \in Faults
    /\ Alive
    /\ s' = [s EXCEPT !.cur = s.comm, !.phase = "killed"]
    /\ UNCHANGED <<c, toServer, toClient, calls>>

-----------------------------------------------------------------------------
(* RemoteDatabase: sending and receiving.                                  *)

Ready == c.call = "none" /\ c.link = "up" /\ calls < MaxCalls

\* A call that sends a message, "then" another one after the reply.
Begin(obj, call, type, arg, then) ==
    /\ Ready
    /\ calls' = calls + 1
    /\ c' = [obj EXCEPT !.call = call, !.stage = "send", !.then = then,
                        !.out = [type |-> type, arg |-> arg, id |-> calls + 1],
                        !.need = Required(type)]
    /\ UNCHANGED <<s, toServer, toClient>>

\* A call that has nothing to send.
Return(obj) ==
    /\ Ready
    /\ calls' = calls + 1
    /\ c' = obj
    /\ UNCHANGED <<s, toServer, toClient>>

\* The call throws; an open or a close that throws leaves the link closed.
Thrown(obj) ==
    [obj EXCEPT !.call = "none", !.then = "none", !.stage = "none",
                !.link = IF obj.call \in {"open", "close"} THEN "closed" ELSE @]

\* send_message first reads what is left of the replies to an earlier call.
DrainReply ==
    /\ c.stage = "send" /\ c.pending /\ toClient # <<>>
    /\ toClient' = Tail(toClient)
    /\ c' = [c EXCEPT !.pending = is_intermediate_reply(Head(toClient).type)]
    /\ UNCHANGED <<s, toServer, calls>>

\* To a server that is gone the message is lost, and the write may fail.
SendMessage ==
    /\ c.stage = "send" /\ ~c.pending
    /\ \/ c' = [c EXCEPT !.stage = "wait", !.pending = TRUE]
       \/ ~Alive /\ c' = Thrown(c)
    /\ toServer' = IF Alive THEN Append(toServer, c.out) ELSE toServer
    /\ UNCHANGED <<s, toClient, calls>>

\* What a call does with its last reply.
Finished(obj, r) ==
    LET type == obj.out.type
        new == [obj EXCEPT !.uncommitted = @ /\ type \notin {"COMMIT", "CANCEL"},
                           !.stats = IF r.type = "UPDATE" THEN r.stats ELSE @,
                           !.cached = @ \/ r.type = "UPDATE",
                           !.mru = IF r.type = "VALUESTATS" THEN r.stats ELSE @]
    IN  IF obj.then # "none"
        THEN [new EXCEPT !.stage = "send", !.out.type = obj.then, !.then = "none",
                         !.need = Required(obj.then)]
        ELSE IF obj.call = "close" THEN [new EXCEPT !.stage = "shutdown"]
        ELSE [new EXCEPT !.call = "none", !.stage = "none",
                         !.state = IF obj.call = "begin" THEN "flushed" ELSE @,
                         !.base = IF obj.call = "begin" THEN s.comm ELSE @]

\* get_message: a reply of another type than the call needs throws.
GetMessage ==
    /\ c.stage = "wait" /\ toClient # <<>>
    /\ LET r == Head(toClient)
           more == is_intermediate_reply(r.type)
           obj == [c EXCEPT !.pending = @ /\ more,
                            !.matched = @ /\ (r.type \in c.need => r.id = c.out.id)]
       IN  c' = IF r.type \notin c.need THEN Thrown(obj)
                ELSE IF more THEN [obj EXCEPT !.need = RequiredAfter(r.type)]
                ELSE Finished(obj, r)
    /\ toClient' = Tail(toClient)
    /\ UNCHANGED <<s, toServer, calls>>

\* The connection is closed and everything that was sent has been read.
ConnectionClosed ==
    /\ c.stage = "wait" \/ (c.stage = "send" /\ c.pending)
    /\ toClient = <<>> /\ ~Alive
    /\ c' = Thrown([c EXCEPT !.pending = IF c.stage = "wait" THEN FALSE ELSE @])
    /\ UNCHANGED <<s, toServer, toClient, calls>>

\* A time-out, or for a query an exception from another shard.
GiveUp ==
    /\ "timeout" \in Faults
    /\ c.stage = "wait" \/ (c.stage = "send" /\ (c.pending \/ c.out.type = "GETMSET"))
    /\ c' = Thrown(c)
    /\ UNCHANGED <<s, toServer, toClient, calls>>

KillClient ==
    /\ "kill_client" \in Faults
    /\ c.link = "up"
    /\ c' = [c EXCEPT !.link = "closed", !.call = "none", !.stage = "none"]
    /\ UNCHANGED <<s, toServer, toClient, calls>>

-----------------------------------------------------------------------------
(* The calls.                                                              *)

Changing == [c EXCEPT !.cached = FALSE, !.mru = NoStats, !.uncommitted = TRUE]

add_document(len) == Begin(Changing, "write", "ADDDOCUMENT", len, "none")

delete_document(did) == Begin(Changing, "write", "DELETEDOCUMENT", did, "none")

\* set_metadata, add_spelling, add_synonym, ...
set_metadata(val) == Begin([c EXCEPT !.uncommitted = TRUE], "write", "SETMETADATA", val, "none")

update_stats == ~c.cached /\ Begin(c, "read", "UPDATE", 0, "none")

read_value_stats == c.mru = NoStats /\ Begin(c, "read", "VALUESTATS", 0, "none")

ReadCall(type) == Begin(c, "read", type, 0, "none")

open_document == ReadCall("DOCUMENT")

open_post_list == ReadCall("POSTLIST")

open_term_list ==
    IF c.cached THEN ReadCall("TERMLIST") ELSE Begin(c, "read", "UPDATE", 0, "TERMLIST")

reopen == Begin([c EXCEPT !.mru = NoStats], "read", "REOPEN", 0, "none")

\* set_query, accumulate_remote_stats, send_global_stats, get_mset.
query == Begin(c, "read", "QUERY", 0, "GETMSET")

CommitForClearingFirst(obj, call, done) ==
    IF c.uncommitted THEN Begin([obj EXCEPT !.uncommitted = FALSE], call, "COMMIT", 0, "none")
    ELSE Return(done)

\* commit() and cancel() on the way of a call.
CommitFor(obj, call, done) ==
    IF c.uncommitted THEN Begin(obj, call, "COMMIT", 0, "none") ELSE Return(done)

CancelForKeepingStats(obj, call, done) ==
    IF c.uncommitted THEN Begin(obj, call, "CANCEL", 0, "none") ELSE Return(done)

CancelFor(obj, call, done) ==
    IF c.uncommitted
    THEN Begin([obj EXCEPT !.cached = FALSE, !.mru = NoStats], call, "CANCEL", 0, "none")
    ELSE Return(done)

\* Unlike the local backends, commit() does not ask whether a transaction is
\* active.
commit == CommitFor(c, "commit", c)

begin_transaction(kind) ==
    /\ c.state = "none"
    /\ IF kind = "flushed" THEN CommitFor(c, "begin", [c EXCEPT !.state = kind, !.base = s.comm])
       ELSE Return([c EXCEPT !.state = kind])

end_transaction(do_commit) ==
    LET obj == [c EXCEPT !.state = "none"]
    IN  /\ c.state # "none"
        /\ IF ~do_commit THEN CancelFor(obj, "end", obj)
           ELSE IF c.state = "flushed" THEN CommitFor(obj, "end", obj)
           ELSE Return(obj)

\* do_close: the transaction is aborted or what is pending committed, then the
\* server is told to shut down.
do_close ==
    LET obj == [c EXCEPT !.state = "none"]
        shut == [obj EXCEPT !.call = "close", !.stage = "shutdown"]
    IN  IF c.state # "none" THEN CancelFor(obj, "close", shut)
        ELSE CommitFor(obj, "close", shut)

\* RemoteConnection::shutdown sends its message whatever replies are pending,
\* and waits for the connection to become readable.
SendShutdown ==
    /\ c.stage = "shutdown"
    /\ c' = [c EXCEPT !.stage = "closing"]
    /\ toServer' = IF Alive THEN Append(toServer, [type |-> "SHUTDOWN", arg |-> 0, id |-> 0])
                   ELSE toServer
    /\ UNCHANGED <<s, toClient, calls>>

CloseLink ==
    /\ c.stage = "closing"
    /\ toClient # <<>> \/ ~Alive
    /\ c' = [c EXCEPT !.call = "none", !.stage = "none", !.link = "closed", !.closed = TRUE]
    /\ UNCHANGED <<s, toServer, toClient, calls>>

Calls ==
    \/ \E len \in Lengths : add_document(len)
    \/ \E did \in 1..MaxDocid : delete_document(did)
    \/ set_metadata(1)
    \/ update_stats \/ read_value_stats
    \/ ReadCall("READ") \/ open_document \/ open_post_list \/ open_term_list
    \/ reopen \/ query
    \/ commit
    \/ \E kind \in {"flushed", "unflushed"} : begin_transaction(kind)
    \/ \E do_commit \in BOOLEAN : end_transaction(do_commit)
    \/ do_close

ClientSteps == DrainReply \/ SendMessage \/ GetMessage \/ ConnectionClosed \/ SendShutdown \/ CloseLink

ServerSteps == ServerRun \/ ServerEOF

\* The server has sent its greeting, and the constructor reads it and asks for
\* write access.
Init ==
    /\ s = [cur |-> NoDocs, comm |-> NoDocs, phase |-> "idle", wdb |-> FALSE,
            lost |-> FALSE]
    /\ c = [call |-> "open", stage |-> "wait", then |-> "WRITEACCESS", need |-> {"UPDATE"},
            out |-> [type |-> "UPDATE", arg |-> 0, id |-> 0], pending |-> FALSE,
            cached |-> FALSE, stats |-> Stats(NoDocs), mru |-> NoStats,
            uncommitted |-> FALSE, state |-> "none", link |-> "up", closed |-> FALSE,
            matched |-> TRUE, base |-> NoDocs]
    /\ toServer = <<>>
    /\ toClient = <<StatsReply("UPDATE", 0, NoDocs)>>
    /\ calls = 0

Next == Calls \/ ClientSteps \/ ServerSteps \/ ServerTimeout \/ KillServer \/ GiveUp \/ KillClient

Spec == Init /\ [][Next]_vars

\* Neither end stops half way: the client has no time limit here, and the
\* server answers every message it reads.
FairSpec == Spec /\ WF_vars(ClientSteps) /\ WF_vars(ServerSteps)

-----------------------------------------------------------------------------
(* Properties.                                                             *)

\* A reply that a call takes for its answer is the answer to that call, and
\* not a late one to a call that was given up (pending_reply).
RepliesMatch == c.matched

\* uncommitted_changes never hides a change: when a client in no call has it
\* clear, or has closed the database, nothing is left to commit, neither in the
\* server nor on its way there.  close() of a writable database returns once
\* the server has closed it too, so that the lock is released, unless a reply
\* was still pending.
NothingUnsaved ==
    /\ (c.call = "none" /\ ~c.uncommitted /\ (c.link = "up" \/ c.closed)) =>
          /\ s.cur = s.comm
          /\ \A i \in DOMAIN toServer : toServer[i].type \notin Writes
    /\ c.closed /\ ~c.pending => ~Alive

\* Statistics the client keeps (cached_stats_valid, mru_slot) are those of the
\* server's database with every change the client asked for.  A commit that
\* fails in the server is left out: it discards changes that the kept
\* statistics count, and commit() does not drop those.
CachedStatsCurrent ==
    Alive /\ ~s.lost =>
        /\ c.cached => c.stats = Stats(s.cur)
        /\ c.mru # NoStats => c.mru = Stats(s.cur)

\* "in any committed revision of the database either none are present or they
\* all are": the changes of a flushed transaction are not committed before its
\* end (c.base is what was committed when it began).
TransactionAtomic == c.state = "flushed" => s.comm = c.base

\* Every call returns, with its answer or with an error.
CallsReturn == c.call # "none" ~> c.call = "none"
=============================================================================
