---------------------------- MODULE Replication ----------------------------
(***************************************************************************)
(* Replication of a glass database: a master that goes on committing, a    *)
(* server that answers one conversation at a time with changesets or whole *)
(* copies of the files, and a replica that applies them to its live        *)
(* database or to an offline copy.                                         *)
(*                                                                         *)
(* A block's content is the number of the transaction that wrote it.  The  *)
(* version file holds the uuid, the revision and, standing for the roots,  *)
(* the content of every block of the tree.  The table files are sent block *)
(* by block while the master writes them.  As in xapian-replicate, every   *)
(* conversation has a DatabaseReplica object of its own.                   *)
(***************************************************************************)
EXTENDS Integers, Sequences, FiniteSets, Functions

CONSTANTS NBlocks,         \* blocks in the table files
          MaxTxn,          \* bound on the number of transactions
          MaxUuid,         \* bound on the number of databases at the master's path
          MaxChangesets,   \* XAPIAN_MAX_CHANGESETS is at most this
          MaxCopies,       \* MAX_DB_COPIES_PER_CONVERSATION
          MaxQueue         \* bound on the messages in flight

ASSUME BlocksAssumption == NBlocks \in Nat

Block == 1..NBlocks

VARIABLES
    version,    \* the master's version file
    disk,       \* the master's table files
    building,   \* the blocks written by the master's current transaction
    changes,    \* the master's changeset files, by the revision in their names
    stage,      \* "idle", or "renamed": committed, but no changeset stored yet
    txn,        \* the master's current transaction
    srv,        \* the server's end of the conversation
    chan,       \* messages on their way to the replica
    dir,        \* the databases replica_0 and replica_1
    stub,       \* which of the two the stub file XAPIANDB names
    r           \* DatabaseReplica::Internal, and in goal the master's revision
                \* when the conversation began

master == <<version, disk, building, changes, stage, txn>>
server == <<srv, chan>>
replica == <<dir, stub, r>>
vars == <<master, server, replica>>

Blank == [b \in Block |-> 0]
NewVersion(uuid) == [uuid |-> uuid, rev |-> 0, tree |-> <<>>]
NoVersion == NewVersion(-1)
NoDatabase == [disk |-> Blank, version |-> NoVersion]

Id(v) == [uuid |-> v.uuid, rev |-> v.rev]     \* what get_uuid and get_revision give

Other(id) == 1 - id
live == dir[stub]
offline == dir[Other(stub)]

NoServer == [on |-> FALSE, at |-> "loop", db |-> Id(NoVersion), start_rev |-> 0,
             start_uuid |-> 0, need_whole_db |-> FALSE, left |-> 0, i |-> 1]

NotNeeded == -1      \* offline_needed_revision is empty
NewReplica == [on |-> FALSE, copying |-> FALSE, have_offline_db |-> FALSE,
               need_copy_next |-> FALSE, offline_revision |-> 0, offline_uuid |-> 0,
               offline_needed_revision |-> NotNeeded, goal |-> Id(NoVersion),
               result |-> "none"]

(* A new replica is an empty database with a uuid of its own.              *)
Init ==
    /\ version = NewVersion(1)
    /\ disk = Blank
    /\ building = <<>>
    /\ changes = <<>>
    /\ stage = "idle"
    /\ txn = 1
    /\ srv = NoServer
    /\ chan = <<>>
    /\ dir = [id \in 0..1 |-> IF id = 0 THEN [disk |-> Blank, version |-> NewVersion(0)]
                                        ELSE NoDatabase]
    /\ stub = 0
    /\ r = NewReplica

-----------------------------------------------------------------------------
(* f, and g where f is not defined.                                        *)
Over(f, g) ==
    [x \in DOMAIN f \cup DOMAIN g |-> IF x \in DOMAIN f THEN f[x] ELSE g[x]]

(* The master's writer.  GlassCommit has the details.                      *)

write_block(b) ==
    /\ stage = "idle" /\ txn <= MaxTxn
    /\ b \notin DOMAIN version.tree \cup DOMAIN building
    /\ disk' = [disk EXCEPT ![b] = txn]
    /\ building' = Over([c \in {b} |-> txn], building)
    /\ UNCHANGED <<version, changes, stage, txn, server, replica>>

commit(keep) ==
    /\ stage = "idle" /\ building # <<>>
    /\ version' = [version EXCEPT !.rev = @ + 1,
                                  !.tree = Over(building, Restrict(@, keep))]
    /\ stage' = "renamed"
    /\ UNCHANGED <<disk, building, changes, txn, server, replica>>

Changeset == [start |-> version.rev - 1, end |-> version.rev,
              blocks |-> building, version |-> version]

(* XAPIAN_MAX_CHANGESETS is max: if 0, no changeset is written.            *)
store_changeset(max) ==
    LET all == Over([n \in {version.rev - 1} |-> Changeset], changes) IN
    /\ stage = "renamed"
    /\ changes' = IF max = 0 THEN changes
                  ELSE Restrict(all, {n \in DOMAIN all : n >= version.rev - max})
    /\ stage' = "idle"
    /\ building' = <<>>
    /\ txn' = txn + 1
    /\ UNCHANGED <<version, disk, server, replica>>

(* The writer is killed, and a new one starts.                             *)
killed ==
    /\ building # <<>>
    /\ stage' = "idle"
    /\ building' = <<>>
    /\ txn' = txn + 1
    /\ UNCHANGED <<version, disk, changes, server, replica>>

NewDatabase ==
    /\ version.uuid < MaxUuid
    /\ version' = NewVersion(version.uuid + 1)
    /\ disk' = Blank
    /\ building' = <<>>
    /\ stage' = "idle"
    /\ UNCHANGED <<txn, server, replica>>

(* Another directory takes the place of the database's.                    *)
replace_directory == NewDatabase /\ changes' = <<>>

(* DB_CREATE_OR_OVERWRITE: the changeset files stay.                       *)
overwrite == NewDatabase /\ UNCHANGED changes

-----------------------------------------------------------------------------
(* The conversation begins: update_from_master, handle_one_connection and  *)
(* DatabaseMaster::write_changesets_to_fd.                                 *)

(* Mutant: the uuids are not compared.                                     *)
connect_any_uuid(force_copy) ==
    /\ ~r.on
    /\ r' = [NewReplica EXCEPT !.on = TRUE, !.goal = Id(version)]
    /\ srv' = [on |-> TRUE, at |-> "loop", db |-> Id(version),
               start_rev |-> live.version.rev, start_uuid |-> version.uuid,
               need_whole_db |-> force_copy,
               left |-> MaxCopies, i |-> 1]
    /\ chan' = <<>>
    /\ UNCHANGED <<master, dir, stub>>

connect(force_copy) ==
    /\ ~r.on
    /\ r' = [NewReplica EXCEPT !.on = TRUE, !.goal = Id(version)]
    /\ srv' = [on |-> TRUE, at |-> "loop", db |-> Id(version),
               start_rev |-> live.version.rev, start_uuid |-> version.uuid,
               need_whole_db |-> force_copy \/ live.version.uuid # version.uuid,
               left |-> MaxCopies, i |-> 1]
    /\ chan' = <<>>
    /\ UNCHANGED <<master, dir, stub>>

(* GlassDatabase::write_changesets_to_fd, on a database object open at     *)
(* srv.db.                                                                 *)

Serving(at) == srv.on /\ srv.at = at /\ Len(chan) < MaxQueue

Send(m) == chan' = Append(chan, m)

ServerOnly == UNCHANGED <<master, replica>>

too_fast ==
    /\ Serving("loop") /\ srv.need_whole_db /\ srv.left = 0
    /\ Send([type |-> "fail"])
    /\ srv' = NoServer
    /\ ServerOnly

send_header ==
    /\ Serving("loop") /\ srv.need_whole_db /\ srv.left > 0
    /\ Send([type |-> "header", uuid |-> srv.db.uuid, rev |-> srv.db.rev])
    /\ srv' = [srv EXCEPT !.at = "copy", !.i = 1, !.left = @ - 1,
                          !.start_rev = srv.db.rev, !.start_uuid = srv.db.uuid]
    /\ ServerOnly

send_file ==
    /\ Serving("copy") /\ srv.i <= NBlocks + 1
    /\ Send(IF srv.i <= NBlocks THEN [type |-> "file", b |-> srv.i, data |-> disk[srv.i]]
            ELSE [type |-> "version", version |-> version])
    /\ srv' = [srv EXCEPT !.i = @ + 1]
    /\ ServerOnly

(* Mutant: does not see that the database was replaced.                    *)
send_footer_any_uuid ==
    /\ Serving("copy") /\ srv.i > NBlocks + 1
    /\ Send([type |-> "footer", rev |-> version.rev])
    /\ srv' = [srv EXCEPT !.at = "loop", !.db = Id(version), !.need_whole_db = FALSE]
    /\ ServerOnly

send_footer ==
    LET same == srv.start_uuid = version.uuid IN
    /\ Serving("copy") /\ srv.i > NBlocks + 1
    /\ Send([type |-> "footer",
             rev |-> IF same THEN version.rev ELSE srv.start_rev + 1])
    /\ srv' = [srv EXCEPT !.at = "loop", !.db = Id(version), !.need_whole_db = ~same]
    /\ ServerOnly

UpToDate == srv.start_rev >= srv.db.rev

reopen ==
    /\ Serving("loop") /\ ~srv.need_whole_db /\ UpToDate
    /\ \/ /\ srv.start_uuid # version.uuid
          /\ srv' = [srv EXCEPT !.db = Id(version), !.need_whole_db = TRUE]
          /\ UNCHANGED chan
       \/ /\ srv.start_uuid = version.uuid /\ srv.start_rev < version.rev
          /\ srv' = [srv EXCEPT !.db = Id(version)]
          /\ UNCHANGED chan
       \/ /\ srv.start_uuid = version.uuid /\ srv.start_rev >= version.rev
          /\ Send([type |-> "end"])
          /\ srv' = NoServer
    /\ ServerOnly

(* Mutant: a missing changeset ends the conversation.                      *)
send_changeset_or_fail ==
    /\ Serving("loop") /\ ~srv.need_whole_db /\ ~UpToDate
    /\ IF srv.start_rev \in DOMAIN changes
       THEN /\ Send([type |-> "changeset", changes |-> changes[srv.start_rev]])
            /\ srv' = [srv EXCEPT !.start_rev = changes[srv.start_rev].end]
       ELSE /\ Send([type |-> "fail"])
            /\ srv' = NoServer
    /\ ServerOnly

send_changeset ==
    /\ Serving("loop") /\ ~srv.need_whole_db /\ ~UpToDate
    /\ IF srv.start_rev \in DOMAIN changes
       THEN /\ Send([type |-> "changeset", changes |-> changes[srv.start_rev]])
            /\ srv' = [srv EXCEPT !.start_rev = changes[srv.start_rev].end]
       ELSE /\ srv' = [srv EXCEPT !.need_whole_db = TRUE]
            /\ UNCHANGED chan
    /\ ServerOnly

(* The connection breaks: what the server has not written, and any part of *)
(* what is on its way, never arrives.                                      *)
connection_lost ==
    /\ r.on
    /\ srv.on \/ chan # <<>>
    /\ \E n \in 0..Len(chan) : chan' = SubSeq(chan, 1, n)
    /\ srv' = NoServer
    /\ ServerOnly

-----------------------------------------------------------------------------
(* The replica: apply_next_changeset, one message at a time.               *)

Got(type) == r.on /\ chan # <<>> /\ Head(chan).type = type
msg == Head(chan)
Eof == r.on /\ ~srv.on /\ chan = <<>>

ReplicaOnly == UNCHANGED master

Next_message == chan' = Tail(chan) /\ UNCHANGED srv

(* The conversation is over: the object is destroyed, the socket closed.   *)
(* What is left offline is never read again, so it is gone here at once.   *)
Ends(result, d) ==
    /\ r' = [NewReplica EXCEPT !.result = result,
                               !.goal = IF result = "end" THEN r.goal ELSE @]
    /\ srv' = NoServer
    /\ chan' = <<>>
    /\ dir' = [d EXCEPT ![Other(stub)] = NoDatabase]
    /\ UNCHANGED stub

recv_header ==
    /\ Got("header") /\ ~r.copying
    /\ r' = [r EXCEPT !.copying = TRUE, !.have_offline_db = TRUE,
                      !.offline_uuid = msg.uuid, !.offline_revision = msg.rev]
    /\ dir' = [dir EXCEPT ![Other(stub)] = NoDatabase]
    /\ Next_message
    /\ UNCHANGED stub
    /\ ReplicaOnly

recv_file ==
    /\ Got("file") \/ Got("version")
    /\ dir' = IF msg.type = "file"
              THEN [dir EXCEPT ![Other(stub)].disk[msg.b] = msg.data]
              ELSE [dir EXCEPT ![Other(stub)].version = msg.version]
    /\ Next_message
    /\ UNCHANGED <<r, stub>>
    /\ ReplicaOnly

(* Mutant: waits for one revision more.                                    *)
Ready_later(q, d) ==
    LET v == d[Other(stub)].version IN
    /\ v # NoVersion
    /\ q.offline_needed_revision # NotNeeded
    /\ q.offline_revision > q.offline_needed_revision
    /\ v.uuid = q.offline_uuid

(* possibly_make_offline_live, for the object q and the databases d.       *)
Ready(q, d) ==
    LET v == d[Other(stub)].version IN
    /\ v # NoVersion
    /\ q.offline_needed_revision # NotNeeded
    /\ q.offline_revision >= q.offline_needed_revision
    /\ v.uuid = q.offline_uuid

possibly_make_offline_live(q, d) ==
    IF Ready(q, d)
    THEN /\ stub' = Other(stub)
         /\ dir' = [d EXCEPT ![stub] = NoDatabase]
         /\ r' = [q EXCEPT !.have_offline_db = FALSE]
    ELSE /\ stub' = stub
         /\ dir' = d
         /\ r' = q

(* The end of the REPL_REPLY_DB_HEADER case, once a version file arrived.  *)
copied(q) ==
    IF offline.version.uuid = q.offline_uuid
    THEN possibly_make_offline_live(q, dir)
    ELSE /\ r' = [q EXCEPT !.have_offline_db = FALSE, !.need_copy_next = TRUE]
         /\ dir' = [dir EXCEPT ![Other(stub)] = NoDatabase]
         /\ UNCHANGED stub

recv_footer ==
    /\ Got("footer")
    /\ copied([r EXCEPT !.copying = FALSE, !.need_copy_next = FALSE,
                        !.offline_needed_revision = msg.rev])
    /\ Next_message
    /\ ReplicaOnly

(* apply_db_copy returns normally when the connection ends between files.  *)
copy_cut_short ==
    /\ Eof /\ r.copying
    /\ IF offline.version = NoVersion
       THEN Ends("closed", dir)
       ELSE /\ copied([r EXCEPT !.copying = FALSE])
            /\ UNCHANGED server
    /\ ReplicaOnly

(* apply_changeset_from_conn on the database id, all of it or, when an     *)
(* exception is thrown on the way, some of its blocks.                     *)
Target == IF r.have_offline_db THEN Other(stub) ELSE stub

Applied(blocks, v) ==
    [dir EXCEPT ![Target].disk = [b \in Block |-> IF b \in DOMAIN blocks THEN blocks[b] ELSE @[b]],
                ![Target].version = v]

Refused ==
    \/ r.need_copy_next
    \/ ~r.have_offline_db /\ msg.changes.start # live.version.rev

apply_changeset(cs) ==
    LET d == Applied(cs.blocks, cs.version) IN
    /\ IF r.have_offline_db
       THEN possibly_make_offline_live([r EXCEPT !.offline_revision = cs.end], d)
       ELSE dir' = d /\ UNCHANGED <<r, stub>>
    /\ Next_message

recv_changeset ==
    /\ Got("changeset")
    /\ IF Refused THEN Ends("refused", dir) ELSE apply_changeset(msg.changes)
    /\ ReplicaOnly

changeset_interrupted(written) ==
    /\ Got("changeset") /\ ~Refused
    /\ written \subseteq DOMAIN msg.changes.blocks
    /\ Ends("closed", Applied(Restrict(msg.changes.blocks, written), dir[Target].version))
    /\ ReplicaOnly

recv_last ==
    /\ \/ Got("end") /\ Ends("end", dir)
       \/ (Got("fail") \/ (Eof /\ ~r.copying)) /\ Ends("closed", dir)
    /\ ReplicaOnly

(* The replica's process is killed.                                        *)
replica_killed ==
    /\ r.on
    /\ Ends("closed", dir)
    /\ ReplicaOnly

-----------------------------------------------------------------------------
MasterStep ==
    \/ \E b \in Block : write_block(b)
    \/ \E keep \in SUBSET DOMAIN version.tree : commit(keep)
    \/ \E max \in 0..MaxChangesets : store_changeset(max)
    \/ killed

ServerStep ==
    too_fast \/ send_header \/ send_file \/ send_footer \/ reopen \/ send_changeset

ReplicaStep ==
    \/ recv_header
    \/ recv_file
    \/ recv_footer
    \/ copy_cut_short
    \/ recv_changeset
    \/ recv_last

Fault ==
    \/ \E written \in SUBSET Block : changeset_interrupted(written)
    \/ replica_killed

Connect == \E force_copy \in BOOLEAN : connect(force_copy)

(* What the replica is left with is a copy without its footer, after a     *)
(* footer earlier in the conversation.                                     *)
LostAfterCopy ==
    /\ IF chan' = <<>> THEN r.copying /\ offline.version # NoVersion
       ELSE chan'[Len(chan')].type = "version"
    /\ \/ r.offline_needed_revision # NotNeeded
       \/ \E i \in DOMAIN chan' : chan'[i].type = "footer"

(* The server is about to send a changeset by its number.                  *)
WantsChangeset == srv.on /\ srv.at = "loop" /\ ~srv.need_whole_db /\ ~UpToDate

Undisturbed == MasterStep \/ Connect \/ ServerStep \/ ReplicaStep

Next ==
    \/ Undisturbed
    \/ Fault
    \/ connection_lost /\ ~LostAfterCopy
    \/ replace_directory /\ ~WantsChangeset

Spec == Init /\ [][Next]_vars

(* xapian-replicate connects again and again; server and replica go on.    *)
FairSpec ==
    /\ Spec
    /\ WF_vars(Connect) /\ WF_vars(ServerStep) /\ WF_vars(ReplicaStep)

(* What the live database does not survive, each on its own.               *)
SpecLost == Init /\ [][Undisturbed \/ connection_lost]_vars

SpecStaleServer == Init /\ [][Undisturbed \/ replace_directory]_vars

SpecOverwritten == Init /\ [][Undisturbed \/ (overwrite /\ ~srv.on)]_vars

-----------------------------------------------------------------------------
(* Types; a conversation has no more than MAX_DB_COPIES_PER_CONVERSATION   *)
(* copies (whole_db_copies_left).                                          *)
TypeOK ==
    /\ version.uuid \in 1..MaxUuid /\ version.rev \in 0..MaxTxn
    /\ disk \in [Block -> 0..MaxTxn]
    /\ DOMAIN building \subseteq Block
    /\ txn \in 1..MaxTxn + 1
    /\ srv.left \in 0..MaxCopies /\ srv.i \in 1..NBlocks + 2
    /\ Len(chan) <= MaxQueue
    /\ stub \in 0..1
    /\ \A id \in 0..1 : dir[id].disk \in [Block -> 0..MaxTxn]

(* The database that the stub file names is at every moment whole: each    *)
(* block of its tree is as the master's revision has it ("if they are      *)
(* applied in order to a copy of the database at the start revision, a     *)
(* copy of the database at the current revision ... will be produced",     *)
(* api/replication.h), though files are copied while they change and       *)
(* changesets are cut short.                                               *)
LiveIsWhole ==
    /\ live.version # NoVersion
    /\ \A b \in DOMAIN live.version.tree : live.disk[b] = live.version.tree[b]

NotBefore(v, w) == v.uuid > w.uuid \/ (v.uuid = w.uuid /\ v.rev >= w.rev)

(* A conversation that ends with REPL_REPLY_END_OF_CHANGES has brought the *)
(* live database to the revision the master had when it began, or further, *)
(* and none ends because apply_changeset_from_conn finds the "Changeset    *)
(* supplied is for wrong revision number" or one that need_copy_next       *)
(* forbids.                                                                *)
EndMeansCaughtUp ==
    /\ r.result = "end" => NotBefore(live.version, r.goal)
    /\ r.result # "refused"

(* When the master falls silent and nothing fails any more, whatever has   *)
(* failed before, and whatever changesets the master has thrown away or    *)
(* never stored, the replica comes to be what the master is: the fallback  *)
(* to whole copies and their number do not keep it from it.                *)
CatchesUp == <>[][Undisturbed]_vars => <>[](Id(live.version) = Id(version))
=============================================================================
