-------------------------- MODULE ReplicationSteps --------------------------
(***************************************************************************)
(* The invariant of ReplicationInvariant survives the steps of the server, *)
(* the beginning and the end of a conversation, and the files that the     *)
(* replica receives.                                                       *)
(***************************************************************************)
EXTENDS ReplicationInvariant

(* Provers for the leaves that do not name one.                            *)
USE ZenonT(8), SMTT(30)

-----------------------------------------------------------------------------
(* The server's steps.                                                     *)

Overs == [at |-> "over", uuid |-> 0, rev |-> 0, need |-> 0, i |-> 1, seen |-> 0]

(* The position after the last message.                                    *)
LEMMA OverOK ==
    ASSUME NEW h, NEW p, PInv(h, p)
    PROVE  PositionOK(h, Overs)
<1>1. 0 \in Uuids
  <2>1. version.uuid \in Nat \ {0} BY DEF PInv, MasterOK, IsMaster
  <2> QED BY <2>1 DEF Uuids
<1>2. h.top[0] \in Nat BY <1>1 DEF PInv, HistoryOK, Lineage
<1>3. Overs \in Positions BY BlocksAssumption DEF Overs, Positions
<1> QED BY <1>1, <1>2, <1>3 DEF PositionOK, Overs

(* The server when it has hung up.                                         *)
LEMMA NoServerTyped ==
    ASSUME srv' = NoServer
    PROVE  IsServer' /\ ~srv'.on
  BY DEF IsServer, NoServer

(* too_fast: the conversation is over.                                     *)
LEMMA TooFastInv ==
    ASSUME NEW h, NEW p, PInv(h, p), too_fast
    PROVE  \E s : PInv(h, s)'
<1>1. /\ srv.on /\ Send([type |-> "fail"]) /\ srv' = NoServer /\ ServerOnly
  BY DEF too_fast, Serving
<1>2. r.on BY <1>1, ServerPosition
<1>3. PICK q : q = Overs OBVIOUS
<1>4. q.at = "over" /\ PositionOK(h, q) BY <1>3, OverOK DEF Overs
<1>5. Link(h, p[Len(p)], [type |-> "fail"], q) BY <1>4 DEF Link
<1> QED BY <1>1, <1>2, <1>4, <1>5, NoServerTyped, SendInv

(* send_header: a copy begins at the revision at which the database is     *)
(* open.                                                                   *)
LEMMA SendHeaderInv ==
    ASSUME NEW h, NEW p, PInv(h, p), send_header
    PROVE  \E s : PInv(h, s)'
<1>1. PICK m : m = [type |-> "header", uuid |-> srv.db.uuid, rev |-> srv.db.rev]
  OBVIOUS
<1>2. /\ srv.on /\ srv.at = "loop" /\ srv.need_whole_db /\ Send(m) /\ ServerOnly
      /\ srv' = [srv EXCEPT !.at = "copy", !.i = 1, !.left = @ - 1,
                            !.start_rev = srv.db.rev, !.start_uuid = srv.db.uuid]
  BY <1>1 DEF send_header, Serving
<1>3. r.on /\ ServerAt(h, p[Len(p)]) BY <1>2, ServerPosition
<1>4. srv.db.uuid \in Uuids /\ srv.db.uuid \in Nat /\ h.top[srv.db.uuid] \in Nat
      /\ srv.db.rev \in 0..h.top[srv.db.uuid]
  BY <1>2, <1>3, ServerPosition DEF ServerAt
<1>5. PICK q : q = [at |-> "copy", uuid |-> srv.db.uuid, rev |-> srv.db.rev, need |-> 0,
                    i |-> 1, seen |-> srv.db.rev]
  OBVIOUS
<1>6. PositionOK(h, q)
  <2>1. q \in Positions BY <1>4, <1>5, BlocksAssumption DEF Positions
  <2> QED BY <1>4, <1>5, <2>1 DEF PositionOK
<1>7. Link(h, p[Len(p)], m, q)
  <2>1. p[Len(p)].at \in {"whole", "loop"} BY <1>2, <1>3 DEF ServerAt
  <2> QED BY <1>1, <1>5, <2>1 DEF Link, Header
<1>8. /\ srv'.on /\ srv'.at = "copy" /\ srv'.i = 1 /\ srv'.db = srv.db
      /\ srv'.start_rev = srv.db.rev /\ srv'.start_uuid = srv.db.uuid /\ IsServer'
  BY <1>2 DEF PInv, IsServer
<1>9. ServerAt(h, q)'
  <2>1. version' = version BY <1>2 DEF ServerOnly, master
  <2>2. ~WantsChangeset' BY <1>8 DEF WantsChangeset
  <2>3. q.seen <= h.top[q.uuid] + 1 BY <1>4, <1>5
  <2>4. Uuids' = Uuids BY <2>1 DEF Uuids
  <2> QED BY <1>4, <1>5, <1>8, <2>2, <2>3, <2>4 DEF ServerAt
<1> QED BY <1>2, <1>3, <1>6, <1>7, <1>8, <1>9, SendInv

(* send_file: the block is read at a revision no earlier than the header   *)
(* names, whatever the writer did since; all later ones mend it.           *)
LEMMA SendFileInv ==
    ASSUME NEW h, NEW p, PInv(h, p), send_file
    PROVE  \E s : PInv(h, s)'
<1> DEFINE l == p[Len(p)]
<1>1. PICK m : m = IF srv.i <= NBlocks
                   THEN [type |-> "file", b |-> srv.i, data |-> disk[srv.i]]
                   ELSE [type |-> "version", version |-> version]
  OBVIOUS
<1>2. /\ srv.on /\ srv.at = "copy" /\ srv.i <= NBlocks + 1 /\ Send(m)
      /\ ServerOnly
      /\ srv' = [srv EXCEPT !.i = @ + 1]
  BY <1>1 DEF send_file, Serving
<1>3. r.on /\ ServerAt(h, l) /\ PositionOK(h, l) BY <1>2, ServerPosition
<1> HIDE DEF l
<1>4. /\ l.at = "copy" /\ l.i = srv.i /\ l.uuid = srv.start_uuid
      /\ l.rev = srv.start_rev
      /\ l.seen <= h.top[l.uuid] + 1
  BY <1>2, <1>3 DEF ServerAt
<1>5. /\ l.uuid \in Uuids /\ l.uuid \in Nat /\ h.top[l.uuid] \in Nat
      /\ l.rev \in Nat
      /\ l.i \in 1..NBlocks + 2 /\ l.seen \in Nat /\ l.rev <= l.seen
      /\ l.rev <= h.top[l.uuid]
      /\ l.seen <= h.top[l.uuid] \/ Bad(h, l)
  BY <1>2, <1>3, <1>4, ServerPosition DEF PositionOK, Positions
<1>6. PICK seen : seen = IF version.uuid = l.uuid THEN version.rev ELSE h.top[l.uuid] + 1
  OBVIOUS
<1>7. PICK q : q = [at |-> "copy", uuid |-> l.uuid, rev |-> l.rev, need |-> 0,
                    i |-> l.i + 1, seen |-> seen]
  OBVIOUS
<1>8. /\ seen \in Nat /\ l.seen <= seen /\ seen <= h.top[l.uuid] + 1
      /\ version.uuid = l.uuid => seen = h.top[l.uuid]
  <2>1. version.rev \in Nat /\ version.rev = h.top[version.uuid] BY <1>2, ServerPosition
  <2>2. version.uuid = l.uuid => l.seen <= h.top[l.uuid] BY <1>5 DEF Bad
  <2>3. CASE version.uuid = l.uuid BY <1>5, <1>6, <2>1, <2>2, <2>3
  <2>4. CASE version.uuid # l.uuid BY <1>4, <1>5, <1>6, <2>4
  <2> QED BY <2>3, <2>4
<1>9. version.uuid # l.uuid => Bad(h, q) BY <1>5, <1>6, <1>7 DEF Bad
<1>10. PositionOK(h, q)
  <2>1. l.i + 1 \in 1..NBlocks + 2 BY <1>2, <1>4, <1>5, BlocksAssumption
  <2>2. q \in Positions BY <1>5, <1>7, <1>8, <2>1 DEF Positions
  <2>3. q.rev <= q.seen /\ (q.seen <= h.top[q.uuid] \/ Bad(h, q))
    BY <1>5, <1>7, <1>8, <1>9
  <2> QED BY <1>5, <1>7, <2>2, <2>3 DEF PositionOK
<1>11. SameCopy(l, q) BY <1>4, <1>7, <1>8 DEF SameCopy
<1>12. MasterOK(h) BY DEF PInv
<1>13. ASSUME srv.i <= NBlocks PROVE File(h, l, m, q)
  <2>1. m.type = "file" /\ m.b = srv.i /\ m.data = disk[srv.i] BY <1>1, <1>13
  <2>2. srv.i \in Block BY <1>4, <1>5, <1>13, BlocksAssumption DEF Block
  <2>3. Copied(h, q.uuid, q.rev, q.seen, srv.i, disk[srv.i])
    <3> SUFFICES ASSUME NEW n \in q.seen..h.top[q.uuid]
                 PROVE  Mends(h, q.uuid, q.rev, n, srv.i, disk[srv.i])
      BY DEF Copied
    <3>1. version.uuid = l.uuid /\ n = h.top[l.uuid] BY <1>5, <1>6, <1>7, <1>8
    <3>2. h.tree[l.uuid][n] = version.tree
      BY <1>12, <3>1 DEF MasterOK, IsMaster
    <3>3. srv.i \in DOMAIN version.tree => disk[srv.i] = version.tree[srv.i]
      BY <1>12 DEF MasterOK, IsMaster
    <3> QED BY <1>7, <3>2, <3>3 DEF Mends
  <2> QED BY <1>4, <1>11, <2>1, <2>2, <2>3 DEF File
<1>14. ASSUME ~(srv.i <= NBlocks) PROVE VersionFile(h, l, m, q)
  <2>1. m.type = "version" /\ m.version = version BY <1>1, <1>14
  <2>2. l.i = NBlocks + 1 BY <1>2, <1>4, <1>5, <1>14, BlocksAssumption
  <2>3. version.uuid \in Uuids \ {0} BY <1>2, ServerPosition
  <2>4. ASSUME version.uuid = l.uuid
        PROVE  /\ version.uuid = q.uuid /\ version.rev \in q.rev..q.seen
               /\ version.tree = h.tree[version.uuid][version.rev]
    <3>1. version.rev = h.top[l.uuid] BY <1>12, <2>4 DEF MasterOK, IsMaster
    <3>2. version.rev \in q.rev..q.seen BY <1>5, <1>7, <1>8, <2>4, <3>1
    <3> QED BY <1>7, <1>12, <2>4, <3>2 DEF MasterOK, IsMaster
  <2>5. VersionOK(h, q, version) BY <1>9, <2>3, <2>4 DEF VersionOK
  <2> QED BY <1>11, <2>1, <2>2, <2>5 DEF VersionFile
<1>15. Link(h, l, m, q) BY <1>13, <1>14 DEF Link
<1>16. /\ srv'.on /\ srv'.at = "copy" /\ srv'.i = srv.i + 1 /\ srv'.db = srv.db
       /\ srv'.start_rev = srv.start_rev /\ srv'.start_uuid = srv.start_uuid
       /\ IsServer'
  BY <1>2 DEF PInv, IsServer
<1>17. ServerAt(h, q)'
  <2>1. version' = version BY <1>2 DEF ServerOnly, master
  <2>2. ~WantsChangeset' BY <1>16 DEF WantsChangeset
  <2>3. q.seen <= h.top[q.uuid] + 1 BY <1>7, <1>8
  <2>4. Uuids' = Uuids BY <2>1 DEF Uuids
  <2>5. srv.db.uuid \in Uuids /\ srv.db.rev \in 0..h.top[srv.db.uuid]
    BY <1>3 DEF ServerAt
  <2> QED BY <1>4, <1>7, <1>16, <2>2, <2>3, <2>4, <2>5 DEF ServerAt
<1> QED BY <1>2, <1>3, <1>10, <1>15, <1>16, <1>17, SendInv DEF l

(* send_footer: the revision asked for is no earlier than any at which a   *)
(* block was read, or, of another database, one that is not going to be    *)
(* reached.                                                                *)
LEMMA SendFooterInv ==
    ASSUME NEW h, NEW p, PInv(h, p), send_footer
    PROVE  \E s : PInv(h, s)'
<1> DEFINE l == p[Len(p)]
           same == srv.start_uuid = version.uuid
<1>1. PICK m : m = [type |-> "footer",
                    rev |-> IF same THEN version.rev ELSE srv.start_rev + 1]
  OBVIOUS
<1>2. /\ srv.on /\ srv.at = "copy" /\ srv.i > NBlocks + 1 /\ Send(m) /\ ServerOnly
      /\ srv' = [srv EXCEPT !.at = "loop", !.db = Id(version), !.need_whole_db = ~same]
  BY <1>1 DEF send_footer, Serving
<1>3. r.on /\ ServerAt(h, l) /\ PositionOK(h, l) BY <1>2, ServerPosition
<1> HIDE DEF l
<1>4. l.at = "copy" /\ l.i = srv.i /\ l.uuid = srv.start_uuid /\ l.rev = srv.start_rev
  BY <1>2, <1>3 DEF ServerAt
<1>5. /\ l.uuid \in Uuids /\ l.uuid \in Nat /\ h.top[l.uuid] \in Nat
      /\ l.rev \in Nat
      /\ l.i \in 1..NBlocks + 2 /\ l.seen \in Nat /\ l.rev <= h.top[l.uuid]
      /\ l.seen <= h.top[l.uuid] \/ Bad(h, l)
  BY <1>2, <1>3, <1>4, ServerPosition DEF PositionOK, Positions
<1>6. l.i = NBlocks + 2 BY <1>2, <1>4, <1>5, BlocksAssumption
<1>7. PICK q : q = [at |-> IF same THEN "loop" ELSE "whole", uuid |-> l.uuid, rev |-> l.rev,
                    need |-> IF same THEN version.rev ELSE 0, i |-> 1, seen |-> 0]
  OBVIOUS
<1>8. version.rev \in Nat /\ version.rev = h.top[version.uuid] /\ version.uuid \in Uuids
  BY <1>2, ServerPosition
<1>9. PositionOK(h, q)
  <2>1. q \in Positions BY <1>5, <1>7, <1>8, BlocksAssumption DEF Positions
  <2> QED BY <1>4, <1>5, <1>7, <1>8, <2>1 DEF PositionOK
<1>10. Link(h, l, m, q)
  <2>1. same => l.seen <= version.rev BY <1>4, <1>5, <1>8 DEF Bad
  <2> QED BY <1>1, <1>4, <1>6, <1>7, <2>1 DEF Link, Footer
<1>11. /\ srv'.on /\ srv'.at = "loop" /\ srv'.db = Id(version) /\ IsServer'
       /\ (srv'.need_whole_db <=> ~same)
       /\ srv'.start_rev = srv.start_rev /\ srv'.start_uuid = srv.start_uuid
  BY <1>2 DEF PInv, IsServer
<1>12. ServerAt(h, q)'
  <2>1. version' = version BY <1>2 DEF ServerOnly, master
  <2>2. WantsChangeset' => srv'.start_uuid = version'.uuid
    BY <1>11, <2>1 DEF WantsChangeset
  <2>3. Uuids' = Uuids BY <2>1 DEF Uuids
  <2>4. srv'.db.uuid \in Uuids /\ srv'.db.rev \in 0..h.top[srv'.db.uuid]
    BY <1>8, <1>11 DEF Id
  <2> QED BY <1>4, <1>7, <1>11, <2>2, <2>3, <2>4 DEF ServerAt
<1> QED BY <1>2, <1>3, <1>9, <1>10, <1>11, <1>12, SendInv DEF l

(* reopen: END_OF_CHANGES is sent only when the replica has all there is.  *)
LEMMA ReopenInv ==
    ASSUME NEW h, NEW p, PInv(h, p), reopen
    PROVE  \E s : PInv(h, s)'
<1> DEFINE l == p[Len(p)]
<1>1. srv.on /\ srv.at = "loop" /\ ~srv.need_whole_db /\ ServerOnly
  BY DEF reopen, Serving
<1>2. r.on /\ ServerAt(h, l) /\ PositionOK(h, l) BY <1>1, ServerPosition
<1>3. version.rev \in Nat /\ version.rev = h.top[version.uuid] /\ version.uuid \in Uuids
  BY <1>1, ServerPosition
<1>4. version' = version /\ Uuids' = Uuids
  BY <1>1 DEF ServerOnly, master, Uuids
<1> HIDE DEF l
<1>5. l.at = "loop" /\ l.uuid = srv.start_uuid /\ l.rev = srv.start_rev
  BY <1>1, <1>2 DEF ServerAt
<1>6. ASSUME srv.start_uuid # version.uuid, chan' = chan,
             srv' = [srv EXCEPT !.db = Id(version), !.need_whole_db = TRUE]
      PROVE  PInv(h, p)'
  <2>1. /\ srv'.on /\ srv'.at = "loop" /\ srv'.need_whole_db
        /\ srv'.db = Id(version)
        /\ IsServer'
    BY <1>1, <1>6 DEF PInv, IsServer
  <2>2. ~WantsChangeset' BY <2>1 DEF WantsChangeset
  <2>3. srv'.db.uuid \in Uuids /\ srv'.db.rev \in 0..h.top[srv'.db.uuid]
    BY <1>3, <2>1 DEF Id
  <2>4. ServerAt(h, l)' BY <1>4, <1>5, <2>1, <2>2, <2>3 DEF ServerAt
  <2> QED BY <1>1, <1>2, <1>6, <2>1, <2>4, QuietInv DEF l
<1>7. ASSUME srv.start_uuid = version.uuid, chan' = chan,
             srv' = [srv EXCEPT !.db = Id(version)]
      PROVE  PInv(h, p)'
  <2>1. /\ srv'.on /\ srv'.at = "loop" /\ ~srv'.need_whole_db
        /\ srv'.db = Id(version)
        /\ srv'.start_uuid = srv.start_uuid
        /\ srv'.start_rev = srv.start_rev /\ IsServer'
    BY <1>1, <1>7 DEF PInv, IsServer
  <2>2. srv'.start_uuid = version'.uuid BY <1>4, <1>7, <2>1
  <2>3. srv'.db.uuid \in Uuids /\ srv'.db.rev \in 0..h.top[srv'.db.uuid]
    BY <1>3, <2>1 DEF Id
  <2>4. ServerAt(h, l)' BY <1>4, <1>5, <2>1, <2>2, <2>3 DEF ServerAt
  <2> QED BY <1>1, <1>2, <1>7, <2>1, <2>4, QuietInv DEF l
<1>8. ASSUME srv.start_uuid = version.uuid, srv.start_rev >= version.rev,
             Send([type |-> "end"]), srv' = NoServer
      PROVE  \E s : PInv(h, s)'
  <2>1. PICK m : m = [type |-> "end"] OBVIOUS
  <2>2. PICK q : q = Overs OBVIOUS
  <2>3. q.at = "over" /\ PositionOK(h, q) BY <2>2, OverOK DEF Overs
  <2>4. l.need <= l.rev
    <3>1. l.need \in Nat /\ l.rev \in Nat /\ l.need <= h.top[l.uuid]
      BY <1>2, <1>5 DEF PositionOK, Positions
    <3> QED BY <1>3, <1>5, <1>8, <3>1
  <2>5. NotBefore(l, r.goal)
    <3>1. NotBefore(version, r.goal) /\ r.goal.rev \in Int
      BY <1>2 DEF PInv, Conversing, IsReplica
    <3>2. l.rev \in Nat BY <1>2 DEF PositionOK, Positions
    <3> QED BY <1>3, <1>5, <1>8, <3>1, <3>2 DEF NotBefore
  <2>6. Link(h, l, m, q) BY <1>5, <2>1, <2>3, <2>4, <2>5 DEF Link, End
  <2> QED BY <1>1, <1>2, <1>8, <2>1, <2>3, <2>6, NoServerTyped, SendInv DEF l
<1> QED BY <1>6, <1>7, <1>8 DEF reopen

(* send_changeset: the file with the number that the server asks for is of *)
(* the database that the replica has (WantsChangeset).                     *)
LEMMA SendChangesetInv ==
    ASSUME NEW h, NEW p, PInv(h, p), send_changeset
    PROVE  \E s : PInv(h, s)'
<1> DEFINE l == p[Len(p)]
<1>1. srv.on /\ srv.at = "loop" /\ ~srv.need_whole_db /\ ServerOnly /\ WantsChangeset
  BY DEF send_changeset, Serving, WantsChangeset
<1>2. r.on /\ ServerAt(h, l) /\ PositionOK(h, l) BY <1>1, ServerPosition
<1>3. version' = version /\ Uuids' = Uuids
  BY <1>1 DEF ServerOnly, master, Uuids
<1> HIDE DEF l
<1>4. /\ l.at = "loop" /\ l.uuid = srv.start_uuid /\ l.rev = srv.start_rev
      /\ srv.start_uuid = version.uuid
      /\ srv.db.uuid \in Uuids /\ srv.db.rev \in 0..h.top[srv.db.uuid]
  BY <1>1, <1>2 DEF ServerAt
<1>5. ASSUME srv.start_rev \in DOMAIN changes,
             Send([type |-> "changeset", changes |-> changes[srv.start_rev]]),
             srv' = [srv EXCEPT !.start_rev = changes[srv.start_rev].end]
      PROVE  \E s : PInv(h, s)'
  <2>1. PICK m : m = [type |-> "changeset", changes |-> changes[srv.start_rev]]
    OBVIOUS
  <2>2. ChangesetOK(h, l.uuid, l.rev, m.changes)
    <3>1. m.changes = changes[srv.start_rev] BY <2>1
    <3> QED BY <1>4, <1>5, <3>1 DEF PInv, MasterOK, IsMaster
  <2>3. l.uuid \in Nat /\ l.uuid \in Uuids /\ l.rev \in Nat /\ l.need \in Nat
        /\ l.need <= h.top[l.uuid] /\ l.rev + 1 <= h.top[l.uuid]
    BY <1>2, <1>4, <2>2 DEF PositionOK, Positions, ChangesetOK
  <2>4. PICK q : q = [at |-> "loop", uuid |-> l.uuid, rev |-> l.rev + 1,
                      need |-> l.need, i |-> 1, seen |-> 0]
    OBVIOUS
  <2>5. PositionOK(h, q)
    <3>1. q \in Positions BY <2>3, <2>4, BlocksAssumption DEF Positions
    <3> QED BY <2>3, <2>4, <3>1 DEF PositionOK
  <2>6. Link(h, l, m, q) BY <1>4, <2>1, <2>2, <2>4 DEF Link, Changes
  <2>7. changes[srv.start_rev].end = l.rev + 1 BY <2>1, <2>2 DEF ChangesetOK
  <2>8. /\ srv'.on /\ srv'.at = "loop" /\ ~srv'.need_whole_db /\ srv'.db = srv.db
        /\ srv'.start_uuid = srv.start_uuid /\ srv'.start_rev = l.rev + 1
        /\ IsServer'
    BY <1>1, <1>5, <2>7 DEF PInv, IsServer
  <2>9. srv'.start_uuid = version'.uuid BY <1>3, <1>4, <2>8
  <2>10. ServerAt(h, q)' BY <1>3, <1>4, <2>4, <2>8, <2>9 DEF ServerAt
  <2> QED
    BY <1>1, <1>2, <1>5, <2>1, <2>5, <2>6, <2>8, <2>10, SendInv DEF l
<1>6. ASSUME srv' = [srv EXCEPT !.need_whole_db = TRUE], chan' = chan
      PROVE  PInv(h, p)'
  <2>1. /\ srv'.on /\ srv'.at = "loop" /\ srv'.need_whole_db
        /\ srv'.db = srv.db /\ IsServer'
    BY <1>1, <1>6 DEF PInv, IsServer
  <2>2. ~WantsChangeset' BY <2>1 DEF WantsChangeset
  <2>3. ServerAt(h, l)' BY <1>3, <1>4, <2>1, <2>2 DEF ServerAt
  <2> QED BY <1>1, <1>2, <1>6, <2>1, <2>3, QuietInv DEF l
<1> QED BY <1>5, <1>6 DEF send_changeset

(* connection_lost: the replica is left with a prefix of the messages.     *)
LEMMA ConnectionLostInv ==
    ASSUME NEW h, NEW p, PInv(h, p), connection_lost, ~LostAfterCopy
    PROVE  \E s : PInv(h, s)'
<1>1. PICK n \in 0..Len(chan) : chan' = SubSeq(chan, 1, n)
  BY DEF connection_lost
<1>2. r.on /\ srv' = NoServer /\ ServerOnly BY DEF connection_lost
<1>3. version' = version /\ r' = r BY <1>2 DEF ServerOnly, master, replica
<1>4. Track(h, p) /\ ReplicaAt(h, p[1]) BY <1>2 DEF PInv, Conversing
<1>5. /\ AnySeq(chan') /\ Len(chan) \in Nat /\ Len(chan') = n
      /\ \A i \in 1..n : chan'[i] = chan[i]
  BY <1>1, <1>4, SeqFront DEF Track
<1>6. PICK s : s = SubSeq(p, 1, n + 1) OBVIOUS
<1>7. /\ AnySeq(s) /\ Len(p) = Len(chan) + 1 /\ Len(s) = n + 1
      /\ \A i \in 1..n + 1 : s[i] = p[i]
  <2>1. n + 1 \in 0..Len(p) /\ AnySeq(p) /\ Len(p) = Len(chan) + 1
    BY <1>4, <1>5 DEF Track
  <2> QED BY <1>6, <2>1, SeqFront
<1>8. Grows(h, h) BY <1>3, GrowsSame
<1>10. \A i \in 1..Len(p) : PositionOK(h, p[i]) /\ PositionOK(h, p[i])'
  BY <1>4, <1>8, PositionGrows DEF Track
<1>11. ASSUME NEW i \in 1..n PROVE Link(h, s[i], chan[i], s[i + 1])'
  <2>1. i \in 1..Len(chan) /\ i \in 1..n + 1 /\ i + 1 \in 1..n + 1
        /\ i \in 1..Len(p) /\ i + 1 \in 1..Len(p)
    BY <1>5, <1>7
  <2>2. PICK x : x = chan[i] OBVIOUS
  <2>3. Link(h, p[i], x, p[i + 1]) BY <1>4, <2>1, <2>2 DEF Track
  <2>4. Link(h, p[i], x, p[i + 1])' BY <1>3, <1>8, <1>10, <2>1, <2>3, LinkGrows
  <2> QED BY <1>5, <1>7, <2>1, <2>2, <2>4
<1>12. \A i \in 1..Len(s) : PositionOK(h, s[i])'
  <2>1. 1..Len(s) \subseteq 1..n + 1 /\ 1..n + 1 \subseteq 1..Len(p)
    BY <1>5, <1>7
  <2> QED BY <1>7, <1>10, <2>1
<1>13. Track(h, s)' BY <1>5, <1>7, <1>11, <1>12 DEF Track
<1>14. NoServerAt(s[Len(s)])'
  <2> SUFFICES ASSUME p[n + 1].at = "copy", p[n + 1].i = NBlocks + 2
               PROVE  /\ r.offline_needed_revision = NotNeeded
                      /\ \A k \in 1..n : chan'[k].type # "footer"
    BY <1>3, <1>5, <1>7 DEF NoServerAt
  <2>1. IF chan' = <<>> THEN r.copying /\ offline.version # NoVersion
                        ELSE chan'[Len(chan')].type = "version"
    <3>1. CASE n = 0
      <4>1. chan' = <<>> BY <1>5, <3>1, SeqEmpty
      <4>2. r.copying /\ VersionOK(h, p[1], offline.version)
        BY <1>4, <3>1 DEF ReplicaAt, Copying
      <4>3. offline.version.uuid # -1 BY <4>2 DEF VersionOK, Uuids
      <4>4. offline.version # NoVersion BY <4>3 DEF NoVersion, NewVersion
      <4> QED BY <4>1, <4>2, <4>4
    <3>2. CASE n # 0
      <4>1. n \in 1..Len(chan) /\ n \in 1..n /\ n \in 1..Len(p)
        BY <1>5, <1>7, <3>2
      <4>2. Link(h, p[n], chan[n], p[n + 1]) BY <1>4, <4>1 DEF Track
      <4>3. p[n].i \in 1..NBlocks + 2 BY <1>10, <4>1 DEF PositionOK, Positions
      <4>4. chan[n].type = "version"
        <5>1. CASE File(h, p[n], chan[n], p[n + 1])
          <6>1. p[n + 1].i = p[n].i + 1 /\ p[n].i \in 1..NBlocks
            BY <5>1 DEF File, SameCopy, Block
          <6> QED BY <6>1, BlocksAssumption
        <5>2. CASE Header(p[n], chan[n], p[n + 1])
          BY <5>2, BlocksAssumption DEF Header
        <5> QED BY <4>2, <5>1, <5>2 DEF Link, VersionFile, Footer, Changes, End
      <4>5. chan' # <<>> BY <1>5, <3>2
      <4> QED BY <1>5, <4>1, <4>4, <4>5
    <3> QED BY <3>1, <3>2
  <2>2. /\ r.offline_needed_revision = NotNeeded
        /\ ~\E i \in DOMAIN chan' : chan'[i].type = "footer"
    BY <2>1 DEF LostAfterCopy
  <2>3. DOMAIN chan' = 1..n BY <1>5 DEF AnySeq
  <2> QED BY <2>2, <2>3
<1>15. s[1] = p[1] BY <1>5, <1>7
<1>16. PInv(h, s)' BY <1>2, <1>13, <1>14, <1>15, NoServerTyped, ServerMoves
<1> QED BY <1>16

-----------------------------------------------------------------------------
(* The conversation begins and ends.                                       *)

(* connect: the replica tells the revision and uuid of its live database.  *)
LEMMA ConnectInv ==
    ASSUME NEW h, NEW p, PInv(h, p), NEW force_copy \in BOOLEAN, connect(force_copy)
    PROVE  \E s : PInv(h, s)'
<1> DEFINE whole == force_copy \/ live.version.uuid # version.uuid
<1>1. /\ ~r.on /\ r' = [NewReplica EXCEPT !.on = TRUE, !.goal = Id(version)]
      /\ srv' = [on |-> TRUE, at |-> "loop", db |-> Id(version),
                 start_rev |-> live.version.rev, start_uuid |-> version.uuid,
                 need_whole_db |-> whole, left |-> MaxCopies, i |-> 1]
      /\ chan' = <<>> /\ UNCHANGED <<version, disk, building, changes, stage, txn>>
      /\ dir' = dir /\ stub' = stub
  BY DEF connect, master
<1>2. MasterOK(h) /\ HistoryOK(h) /\ LiveOK(h) BY DEF PInv
<1>3. /\ version.uuid \in Nat \ {0} /\ version.uuid \in Uuids
      /\ version.rev = h.top[version.uuid] /\ version.rev \in Nat
  <2>1. version.uuid \in Nat \ {0} /\ version.uuid \in Uuids /\ version.rev = h.top[version.uuid]
    BY <1>2 DEF MasterOK, IsMaster, Uuids
  <2> QED BY <1>2, <2>1 DEF HistoryOK, Lineage
<1>4. /\ r'.on /\ ~r'.copying /\ ~r'.have_offline_db /\ ~r'.need_copy_next
      /\ r'.goal = Id(version) /\ r'.result = "none"
      /\ r' = [on |-> r'.on, copying |-> r'.copying, have_offline_db |-> r'.have_offline_db,
            need_copy_next |-> r'.need_copy_next, offline_revision |-> r'.offline_revision,
            offline_uuid |-> r'.offline_uuid, result |-> r'.result, goal |-> r'.goal,
            offline_needed_revision |-> r'.offline_needed_revision]
  BY <1>1 DEF NewReplica
<1>5. IsReplica' BY <1>3, <1>4 DEF IsReplica, Id
<1>6. /\ srv'.on /\ srv'.at = "loop" /\ srv'.db = Id(version) /\ (srv'.need_whole_db <=> whole)
      /\ srv'.start_rev = live.version.rev /\ srv'.start_uuid = version.uuid
  BY <1>1
<1>7. IsServer' BY <1>1 DEF IsServer
<1>8. HistoryOK(h)' /\ MasterOK(h)'
  BY <1>1, <1>2 DEF HistoryOK, MasterOK, Uuids
<1>9. LiveOK(h)'
  <2>1. live' = live /\ Uuids' = Uuids BY <1>1 DEF live, Uuids
  <2>2. Whole(h, live)' BY <1>2, <2>1 DEF LiveOK, Whole
  <2> QED BY <1>1, <1>2, <1>4, <2>2 DEF LiveOK
<1>10. live.version.uuid \in Uuids /\ live.version.rev \in 0..h.top[live.version.uuid]
       /\ h.top[live.version.uuid] \in Nat
  BY <1>2 DEF LiveOK, Whole, HistoryOK, Lineage
<1>11. PICK q : q = [at |-> IF whole THEN "whole" ELSE "loop", uuid |-> version.uuid,
                     rev |-> IF whole THEN 0 ELSE live.version.rev,
                     need |-> 0, i |-> 1, seen |-> 0]
  OBVIOUS
<1>12. PositionOK(h, q)
  <2>1. q \in Positions BY <1>3, <1>10, <1>11, BlocksAssumption DEF Positions
  <2> QED BY <1>3, <1>10, <1>11, <2>1 DEF PositionOK
<1>13. PositionOK(h, q)'
  <2>1. Grows(h, h) BY <1>1, GrowsSame
  <2> QED BY <1>12, <2>1, PositionGrows
<1>14. PICK s : s = <<q>> OBVIOUS
<1>15. AnySeq(s) /\ Len(s) = 1 /\ s[1] = q /\ AnySeq(chan') /\ Len(chan') = 0
  BY <1>1, <1>14, SeqOne
<1>16. Track(h, s)' BY <1>13, <1>15 DEF Track
<1>17. ReplicaAt(h, q)'
  <2>1. ~whole => live'.version.uuid = q.uuid /\ live'.version.rev = q.rev
    BY <1>1, <1>11 DEF live
  <2>2. q.at = "loop" => ~whole /\ q.rev >= q.need BY <1>10, <1>11
  <2>3. q.at = "loop" => ~(q.rev < q.need) BY <1>10, <1>11
  <2>4. q.at # "copy" BY <1>11
  <2> QED BY <1>4, <2>1, <2>2, <2>3, <2>4 DEF ReplicaAt, Online
<1>18. ServerAt(h, q)'
  <2>1. srv'.db.uuid \in Uuids' /\ srv'.db.rev \in 0..h.top[srv'.db.uuid]
    BY <1>1, <1>3, <1>6 DEF Id, Uuids
  <2>2. srv'.start_uuid = version'.uuid BY <1>1, <1>6
  <2> QED BY <1>6, <1>11, <2>1, <2>2 DEF ServerAt
<1>19. NotBefore(version, r.goal)' BY <1>1, <1>3, <1>4 DEF NotBefore, Id
<1>20. Conversing(h, s)'
  BY <1>6, <1>15, <1>16, <1>17, <1>18, <1>19 DEF Conversing
<1>21. PInv(h, s)' BY <1>4, <1>5, <1>7, <1>8, <1>9, <1>20 DEF PInv
<1> QED BY <1>21

-----------------------------------------------------------------------------
(* The stub names one of the two directories.                              *)
LEMMA TwoDirectories ==
    ASSUME NEW h, LiveOK(h)
    PROVE  /\ stub \in 0..1 /\ Other(stub) \in 0..1 /\ Other(stub) # stub
           /\ Other(Other(stub)) = stub /\ DOMAIN dir = 0..1
           /\ \A id \in 0..1 : id = stub \/ id = Other(stub)
           /\ \A id \in 0..1 : IsDatabase(dir[id])
           /\ Whole(h, dir[stub])
  BY DEF LiveOK, Other, live

(* The empty directory.                                                    *)
LEMMA NoDatabaseTyped == IsDatabase(NoDatabase)
  BY DEF IsDatabase, NoDatabase, Blank

(* The conversation ends: nothing is kept but the live database, so it is  *)
(* enough that this is whole.                                              *)
LEMMA EndsInv ==
    ASSUME NEW h, NEW p, NEW d, NEW result, PInv(h, p), ReplicaOnly, Ends(result, d),
           DOMAIN d = 0..1, \A id \in 0..1 : IsDatabase(d[id]), Whole(h, d[stub]),
           result # "refused", result = "end" => NotBefore(d[stub].version, r.goal)
    PROVE  PInv(h, p)'
<1>1. /\ UNCHANGED <<version, disk, building, changes, stage, txn>>
      /\ r' = [NewReplica EXCEPT !.result = result,
                                 !.goal = IF result = "end" THEN r.goal ELSE @]
      /\ srv' = NoServer /\ chan' = <<>> /\ stub' = stub
      /\ dir' = [d EXCEPT ![Other(stub)] = NoDatabase]
  BY DEF Ends, ReplicaOnly, master
<1>2. LiveOK(h) /\ HistoryOK(h) /\ MasterOK(h) BY DEF PInv
<1>3. HistoryOK(h)' /\ MasterOK(h)' /\ Uuids' = Uuids
  BY <1>1, <1>2 DEF HistoryOK, MasterOK, Uuids
<1>4. /\ ~r'.on /\ r'.result = result /\ (result = "end" => r'.goal = r.goal)
      /\ r' = [on |-> r'.on, copying |-> r'.copying, have_offline_db |-> r'.have_offline_db,
            need_copy_next |-> r'.need_copy_next, offline_revision |-> r'.offline_revision,
            offline_uuid |-> r'.offline_uuid, result |-> r'.result, goal |-> r'.goal,
            offline_needed_revision |-> r'.offline_needed_revision]
      /\ r'.goal = IF result = "end" THEN r.goal ELSE NewReplica.goal
  BY <1>1 DEF NewReplica
<1>5. IsReplica'
  BY <1>4 DEF PInv, IsReplica, NewReplica, Id, NoVersion, NewVersion
<1>6. IsServer' /\ ~srv'.on BY <1>1, NoServerTyped
<1>7. live' = d[stub] /\ DOMAIN dir' = 0..1 /\ \A id \in 0..1 : IsDatabase(dir'[id])
  BY <1>1, <1>2, TwoDirectories, NoDatabaseTyped DEF live
<1>8. Whole(h, live)' BY <1>3, <1>7 DEF Whole
<1>9. LiveOK(h)' BY <1>1, <1>2, <1>4, <1>7, <1>8 DEF LiveOK
<1>10. Idle' BY <1>1, <1>6 DEF Idle
<1> QED BY <1>3, <1>4, <1>5, <1>6, <1>9, <1>10 DEF PInv

(* The message that the replica is about to read, and the positions at     *)
(* both its ends.                                                          *)
LEMMA RecvTrack ==
    ASSUME NEW h, NEW p, PInv(h, p), r.on, chan # <<>>
    PROVE  /\ Link(h, p[1], msg, p[2]) /\ PositionOK(h, p[1])
           /\ PositionOK(h, p[2])
           /\ ReplicaAt(h, p[1]) /\ LiveOK(h) /\ HistoryOK(h)
           /\ \A u \in Uuids : u \in Nat /\ h.top[u] \in Nat
<1>1. Track(h, p) /\ ReplicaAt(h, p[1]) BY DEF PInv, Conversing
<1>2. Len(chan) \in Nat \ {0} /\ msg = chan[1] BY <1>1, SeqTail DEF Track, msg
<1>3. 1 \in 1..Len(chan) /\ 1 \in 1..Len(p) /\ 2 \in 1..Len(p)
  BY <1>1, <1>2 DEF Track
<1>4. Link(h, p[1], chan[1], p[2])
  <2>1. Link(h, p[1], chan[1], p[1 + 1]) BY <1>1, <1>3 DEF Track
  <2> QED BY <2>1
<1>5. PositionOK(h, p[1]) /\ PositionOK(h, p[2]) BY <1>1, <1>3 DEF Track
<1>6. LiveOK(h) /\ HistoryOK(h) BY DEF PInv
<1>7. \A u \in Uuids : u \in Nat /\ h.top[u] \in Nat
  BY <1>6 DEF Uuids, HistoryOK, Lineage
<1> QED BY <1>1, <1>2, <1>4, <1>5, <1>6, <1>7

(* A message read takes the first position off the track.                  *)
LEMMA RecvInv ==
    ASSUME NEW h, NEW p, PInv(h, p), r.on, chan # <<>>, Next_message, ReplicaOnly,
           LiveOK(h)', IsReplica', r'.on, r'.goal = r.goal, ReplicaAt(h, p[2])',
           r'.offline_needed_revision = r.offline_needed_revision \/ msg.type = "footer"
    PROVE  \E s : PInv(h, s)'
<1>1. /\ chan' = Tail(chan) /\ srv' = srv
      /\ UNCHANGED <<version, disk, building, changes, stage, txn>>
  BY DEF Next_message, ReplicaOnly, master
<1>2. Conversing(h, p) /\ Track(h, p) BY DEF PInv, Conversing
<1>3. /\ AnySeq(chan') /\ Len(chan) \in Nat \ {0} /\ Len(chan') = Len(chan) - 1
      /\ \A i \in 1..Len(chan) - 1 : chan'[i] = chan[i + 1]
      /\ msg = chan[1]
  BY <1>1, <1>2, SeqTail DEF Track, msg
<1>4. PICK s : s = Tail(p) OBVIOUS
<1>5. /\ AnySeq(s) /\ Len(p) = Len(chan) + 1 /\ Len(s) = Len(chan)
      /\ \A i \in 1..Len(chan) : s[i] = p[i + 1]
  <2>1. AnySeq(p) /\ Len(p) = Len(chan) + 1 BY <1>2 DEF Track
  <2>2. p # <<>> BY <1>3, <2>1
  <2> QED BY <1>3, <1>4, <2>1, <2>2, SeqTail
<1>6. Grows(h, h) BY <1>1, GrowsSame
<1>7. \A i \in 1..Len(p) : PositionOK(h, p[i]) /\ PositionOK(h, p[i])'
  BY <1>2, <1>6, PositionGrows DEF Track
<1>8. \A i \in 1..Len(s) : PositionOK(h, s[i])'
  <2>1. \A i \in 1..Len(s) : i \in 1..Len(chan) /\ i + 1 \in 1..Len(p)
    BY <1>3, <1>5
  <2> QED BY <1>5, <1>7, <2>1
<1>9. ASSUME NEW i \in 1..Len(chan') PROVE Link(h, s[i], chan[i], s[i + 1])'
  <2>1. /\ i \in 1..Len(chan) - 1 /\ i \in 1..Len(chan) /\ i + 1 \in 1..Len(chan)
        /\ i + 1 \in 1..Len(p) /\ (i + 1) + 1 \in 1..Len(p)
    BY <1>3, <1>5
  <2>2. PICK x : x = chan[i + 1] OBVIOUS
  <2>3. Link(h, p[i + 1], x, p[(i + 1) + 1])
    BY <1>2, <2>1, <2>2 DEF Track
  <2>4. Link(h, p[i + 1], x, p[(i + 1) + 1])'
    BY <1>6, <1>7, <2>1, <2>3, LinkGrows
  <2>5. chan'[i] = x /\ s[i] = p[i + 1] /\ s[i + 1] = p[(i + 1) + 1]
    BY <1>3, <1>5, <2>1, <2>2
  <2> QED BY <2>4, <2>5
<1>10. Len(s) = Len(chan') + 1 BY <1>3, <1>5
<1>11. Track(h, s)' BY <1>3, <1>5, <1>8, <1>9, <1>10 DEF Track
<1>12. s[1] = p[2] /\ s[Len(s)] = p[Len(p)]
  <2>1. 1 \in 1..Len(chan) /\ Len(chan) \in 1..Len(chan) BY <1>3
  <2>2. s[1] = p[1 + 1] /\ s[Len(chan)] = p[Len(chan) + 1] BY <1>5, <2>1
  <2> QED BY <1>5, <2>2
<1>13. srv.on => ServerAt(h, p[Len(p)])'
  <2>1. Len(p) \in 1..Len(p) BY <1>3, <1>5
  <2> QED BY <1>1, <1>2, <1>6, <1>7, <2>1, ServerGrows DEF Conversing
<1>14. ~srv.on => NoServerAt(p[Len(p)])'
  <2> SUFFICES ASSUME ~srv.on, p[Len(p)].at = "copy", p[Len(p)].i = NBlocks + 2
               PROVE  /\ r'.offline_needed_revision = NotNeeded
                      /\ \A n \in 1..Len(chan') : chan'[n].type # "footer"
    BY DEF NoServerAt
  <2>1. /\ r.offline_needed_revision = NotNeeded
        /\ \A n \in 1..Len(chan) : chan[n].type # "footer"
    BY <1>2 DEF Conversing, NoServerAt
  <2>2. 1 \in 1..Len(chan) BY <1>3
  <2>3. ASSUME NEW n \in 1..Len(chan') PROVE chan'[n].type # "footer"
    <3>1. n \in 1..Len(chan) - 1 /\ n + 1 \in 1..Len(chan) BY <1>3
    <3> QED BY <1>3, <2>1, <3>1
  <2> QED BY <1>3, <2>1, <2>2, <2>3
<1>15. NotBefore(version, r.goal)' BY <1>1, <1>2 DEF Conversing, NotBefore
<1>16. Conversing(h, s)'
  BY <1>1, <1>11, <1>12, <1>13, <1>14, <1>15 DEF Conversing
<1>17. HistoryOK(h)' /\ MasterOK(h)'
  BY <1>1 DEF PInv, HistoryOK, MasterOK, Uuids
<1>18. IsServer' BY <1>1 DEF PInv, IsServer
<1>19. PInv(h, s)' BY <1>16, <1>17, <1>18 DEF PInv
<1> QED BY <1>19

-----------------------------------------------------------------------------
(* The replica's steps: the files of a copy.                               *)

(* What is known of a message of each type.                                *)
LEMMA LinkType ==
    ASSUME NEW h, NEW p, NEW m, NEW q, Link(h, p, m, q)
    PROVE  /\ m.type = "header" => Header(p, m, q)
           /\ m.type = "file" => File(h, p, m, q)
           /\ m.type = "version" => VersionFile(h, p, m, q)
           /\ m.type = "footer" => Footer(p, m, q)
           /\ m.type = "changeset" => Changes(h, p, m, q)
           /\ m.type = "end" => End(p, m, q, r.goal)
  BY DEF Link, Header, File, VersionFile, Footer, Changes, End

(* The directory that the stub names does not change.                      *)
LEMMA LiveKept ==
    ASSUME NEW h, LiveOK(h), ReplicaOnly, stub' = stub, DOMAIN dir' = 0..1,
           dir'[stub] = dir[stub], IsDatabase(dir'[Other(stub)]),
           r'.result = r.result, r.on
    PROVE  LiveOK(h)'
<1>1. version' = version /\ Uuids' = Uuids BY DEF ReplicaOnly, master, Uuids
<1>2. live' = live BY DEF live
<1>3. Whole(h, live)' BY <1>1, <1>2 DEF LiveOK, Whole
<1>4. \A id \in 0..1 : IsDatabase(dir'[id]) BY TwoDirectories
<1> QED BY <1>2, <1>3, <1>4 DEF LiveOK

(* A copy good from c on is good from a later revision on.                 *)
LEMMA CopiedLater ==
    ASSUME NEW h, NEW u, NEW m, NEW b, NEW x, NEW c \in Nat, NEW e \in Nat, c <= e,
           Copied(h, u, m, c, b, x), h.top[u] \in Nat
    PROVE  Copied(h, u, m, e, b, x)
<1>1. e..h.top[u] \subseteq c..h.top[u] OBVIOUS
<1> QED BY <1>1 DEF Copied

(* recv_header: the offline directory starts afresh.                       *)
LEMMA RecvHeaderInv ==
    ASSUME NEW h, NEW p, PInv(h, p), recv_header
    PROVE  \E s : PInv(h, s)'
<1>1. /\ r.on /\ chan # <<>> /\ msg.type = "header"
      /\ r' = [r EXCEPT !.copying = TRUE, !.have_offline_db = TRUE,
                        !.offline_uuid = msg.uuid, !.offline_revision = msg.rev]
      /\ dir' = [dir EXCEPT ![Other(stub)] = NoDatabase]
      /\ Next_message /\ stub' = stub /\ ReplicaOnly
  BY DEF recv_header, Got, msg
<1>2. Header(p[1], msg, p[2]) /\ LiveOK(h) BY <1>1, RecvTrack, LinkType
<1>3. /\ r'.on /\ r'.copying /\ r'.have_offline_db /\ r'.offline_uuid = msg.uuid
      /\ r'.offline_revision = msg.rev /\ r'.goal = r.goal /\ r'.result = r.result
      /\ r'.offline_needed_revision = r.offline_needed_revision /\ IsReplica'
  BY <1>1 DEF PInv, IsReplica
<1>4. /\ dir'[stub] = dir[stub] /\ dir'[Other(stub)] = NoDatabase
      /\ DOMAIN dir' = 0..1
      /\ offline' = NoDatabase
  BY <1>1, <1>2, TwoDirectories DEF offline
<1>5. LiveOK(h)' BY <1>1, <1>2, <1>3, <1>4, NoDatabaseTyped, LiveKept
<1>6. ReplicaAt(h, p[2])'
  <2>1. /\ p[2].at = "copy" /\ p[2].i = 1 /\ p[2].uuid = msg.uuid
        /\ p[2].rev = msg.rev
    BY <1>2 DEF Header
  <2>2. offline'.version = NoVersion BY <1>4 DEF NoDatabase
  <2>3. p[2].i # NBlocks + 2 /\ \A b \in Block : ~(b < p[2].i)
    BY <2>1, BlocksAssumption DEF Block
  <2>4. Copying(h, p[2])' BY <1>3, <2>1, <2>2, <2>3 DEF Copying
  <2> QED BY <1>3, <2>1, <2>4 DEF ReplicaAt
<1> QED BY <1>1, <1>3, <1>5, <1>6, RecvInv

(* recv_file: a file of the copy in the offline directory.                 *)
LEMMA RecvFileInv ==
    ASSUME NEW h, NEW p, PInv(h, p), recv_file
    PROVE  \E s : PInv(h, s)'
<1>1. /\ r.on /\ chan # <<>> /\ msg.type \in {"file", "version"}
      /\ dir' = IF msg.type = "file"
                THEN [dir EXCEPT ![Other(stub)].disk[msg.b] = msg.data]
                ELSE [dir EXCEPT ![Other(stub)].version = msg.version]
      /\ Next_message /\ r' = r /\ stub' = stub /\ ReplicaOnly
  BY DEF recv_file, Got, msg
<1>2. /\ Link(h, p[1], msg, p[2]) /\ LiveOK(h) /\ ReplicaAt(h, p[1])
      /\ PositionOK(h, p[1]) /\ PositionOK(h, p[2])
  BY <1>1, RecvTrack
<1>3. SameCopy(p[1], p[2])
  BY <1>1, <1>2, LinkType DEF File, VersionFile
<1>4. Copying(h, p[1]) /\ r.copying BY <1>2, <1>3 DEF ReplicaAt, SameCopy
<1>5. Other(stub) \in 0..1 /\ Other(stub) # stub /\ IsDatabase(offline) /\ DOMAIN dir = 0..1
      /\ stub \in 0..1
  BY <1>2, TwoDirectories DEF offline
<1>6. /\ p[1].seen \in Nat /\ p[2].seen \in Nat /\ p[1].i \in Nat
      /\ p[1].uuid \in Uuids
      /\ h.top[p[1].uuid] \in Nat
  <2>1. p[1].seen \in Nat /\ p[2].seen \in Nat /\ p[1].i \in Nat /\ p[1].uuid \in Uuids
    BY <1>2 DEF PositionOK, Positions
  <2>2. \A u \in Uuids : h.top[u] \in Nat BY <1>1, RecvTrack
  <2> QED BY <2>1, <2>2
<1>7. ASSUME NEW b \in Block, b < p[1].i
      PROVE  Copied(h, p[2].uuid, p[2].rev, p[2].seen, b, offline.disk[b])
  <2>1. Copied(h, p[1].uuid, p[1].rev, p[1].seen, b, offline.disk[b])
    BY <1>4, <1>7 DEF Copying
  <2>2. p[1].seen <= p[2].seen /\ p[2].uuid = p[1].uuid /\ p[2].rev = p[1].rev
    BY <1>3 DEF SameCopy
  <2> QED BY <1>6, <2>1, <2>2, CopiedLater
<1>8. version' = version /\ Uuids' = Uuids
  BY <1>1 DEF ReplicaOnly, master, Uuids
<1>9. CASE msg.type = "file"
  <2>1. File(h, p[1], msg, p[2]) BY <1>2, <1>9, LinkType
  <2>2. msg.b = p[1].i /\ msg.b \in Block BY <2>1 DEF File
  <2>3. dir' = [dir EXCEPT ![Other(stub)].disk[msg.b] = msg.data] BY <1>1, <1>9
  <2>4. /\ dir'[stub] = dir[stub] /\ DOMAIN dir' = 0..1
        /\ dir'[Other(stub)] = [offline EXCEPT !.disk = [@ EXCEPT ![msg.b] = msg.data]]
    BY <1>5, <2>3 DEF offline
  <2>5. /\ offline' = dir'[Other(stub)] BY <1>1 DEF offline
  <2>6. /\ offline'.disk = [offline.disk EXCEPT ![msg.b] = msg.data]
        /\ offline'.version = offline.version /\ IsDatabase(offline')
    BY <1>5, <2>4, <2>5 DEF IsDatabase
  <2>7. LiveOK(h)' BY <1>1, <1>2, <2>4, <2>5, <2>6, LiveKept
  <2>8. ASSUME NEW b \in Block, b < p[2].i
        PROVE  Copied(h, p[2].uuid, p[2].rev, p[2].seen, b, offline'.disk[b])
    <3>1. CASE b = msg.b
      <4>1. offline'.disk[b] = msg.data
        BY <1>5, <2>2, <2>6, <3>1 DEF IsDatabase
      <4> QED BY <2>1, <3>1, <4>1 DEF File
    <3>2. CASE b # msg.b
      <4>1. offline'.disk[b] = offline.disk[b]
        BY <1>5, <2>6, <3>2 DEF IsDatabase
      <4>2. b < p[1].i BY <1>3, <1>6, <2>2, <2>8, <3>2 DEF SameCopy, Block
      <4> QED BY <1>7, <4>1, <4>2
    <3> QED BY <3>1, <3>2
  <2>9. p[1].i # NBlocks + 2 /\ p[2].i # NBlocks + 2 /\ p[2].at = "copy"
    BY <1>3, <2>2, BlocksAssumption DEF SameCopy, Block
  <2>10. Copying(h, p[2])'
    BY <1>1, <1>3, <1>4, <2>6, <2>8, <2>9 DEF Copying, SameCopy
  <2>11. ReplicaAt(h, p[2])' BY <1>1, <1>4, <2>9, <2>10 DEF ReplicaAt
  <2>12. IsReplica' BY <1>1 DEF PInv, IsReplica
  <2> QED BY <1>1, <2>7, <2>11, <2>12, RecvInv
<1>10. CASE msg.type = "version"
  <2>1. VersionFile(h, p[1], msg, p[2]) BY <1>2, <1>10, LinkType
  <2>2. dir' = [dir EXCEPT ![Other(stub)].version = msg.version] BY <1>1, <1>10
  <2>3. /\ dir'[stub] = dir[stub] /\ DOMAIN dir' = 0..1
        /\ dir'[Other(stub)] = [offline EXCEPT !.version = msg.version]
    BY <1>5, <2>2 DEF offline
  <2>4. offline' = dir'[Other(stub)] BY <1>1 DEF offline
  <2>5. /\ offline'.disk = offline.disk /\ offline'.version = msg.version
        /\ IsDatabase(offline')
    BY <1>5, <2>3, <2>4 DEF IsDatabase
  <2>6. LiveOK(h)' BY <1>1, <1>2, <2>3, <2>4, <2>5, LiveKept
  <2>7. ASSUME NEW b \in Block
        PROVE  Copied(h, p[2].uuid, p[2].rev, p[2].seen, b, offline'.disk[b])
    <3>1. b < p[1].i BY <2>1, BlocksAssumption DEF VersionFile, Block
    <3> QED BY <1>7, <2>5, <3>1
  <2>8. p[2].i = NBlocks + 2 /\ p[2].at = "copy"
    BY <1>3, <2>1, BlocksAssumption DEF SameCopy, VersionFile
  <2>9. VersionOK(h, p[2], offline.version)'
    BY <1>8, <2>1, <2>5 DEF VersionFile, VersionOK, Bad
  <2>10. Copying(h, p[2])'
    BY <1>1, <1>3, <1>4, <2>7, <2>8, <2>9 DEF Copying, SameCopy
  <2>11. ReplicaAt(h, p[2])' BY <1>1, <1>4, <2>8, <2>10 DEF ReplicaAt
  <2>12. IsReplica' BY <1>1 DEF PInv, IsReplica
  <2> QED BY <1>1, <2>6, <2>11, <2>12, RecvInv
<1> QED BY <1>1, <1>9, <1>10
=============================================================================
