------------------------- MODULE ReplicationProofs --------------------------
(***************************************************************************)
(* The invariant of ReplicationInvariant survives footers and changesets,  *)
(* and so every step: the live database of the replica is always whole,    *)
(* and a conversation that ends well has caught up.                        *)
(***************************************************************************)
EXTENDS ReplicationSteps

(* Provers for the leaves that do not name one.                            *)
USE ZenonT(8), SMTT(30)

-----------------------------------------------------------------------------
(* The replica's steps: footers and changesets.                            *)

(* When no changeset is left to come, a database whose blocks are mended   *)
(* is whole.                                                               *)
LEMMA MendsWhole ==
    ASSUME NEW h, HistoryOK(h), NEW u \in Uuids, NEW n \in 0..h.top[u], NEW d,
           d.version.uuid = u, d.version.rev = n, d.version.tree = h.tree[u][n],
           \A b \in Block : Mends(h, u, n, n, b, d.disk[b])
    PROVE  Whole(h, d)
<1>1. DOMAIN h.tree[u][n] \subseteq Block BY DEF HistoryOK, Lineage
<1>2. h.top[u] \in Nat BY DEF HistoryOK, Lineage
<1>3. \A k \in n + 1..n : FALSE BY <1>2
<1>4. \A b \in DOMAIN d.version.tree : d.disk[b] = d.version.tree[b]
  BY <1>1, <1>3 DEF Mends
<1> QED BY <1>4 DEF Whole

(* possibly_make_offline_live moves the stub only to a database that is    *)
(* whole.                                                                  *)
LEMMA GoesLive ==
    ASSUME NEW h, NEW q, NEW d, LiveOK(h), r.on, ReplicaOnly, DOMAIN d = 0..1,
           \A id \in 0..1 : IsDatabase(d[id]), possibly_make_offline_live(q, d),
           Ready(q, d), Whole(h, d[Other(stub)]),
           r'.result = r.result
    PROVE  /\ LiveOK(h)' /\ live' = d[Other(stub)]
           /\ r' = [q EXCEPT !.have_offline_db = FALSE]
<1>1. /\ stub' = Other(stub) /\ dir' = [d EXCEPT ![stub] = NoDatabase]
      /\ r' = [q EXCEPT !.have_offline_db = FALSE]
  BY DEF possibly_make_offline_live
<1>2. /\ stub' \in 0..1 /\ DOMAIN dir' = 0..1 /\ live' = d[Other(stub)]
      /\ \A id \in 0..1 : IsDatabase(dir'[id])
  BY <1>1, TwoDirectories, NoDatabaseTyped DEF live
<1>3. version' = version /\ Uuids' = Uuids BY DEF ReplicaOnly, master, Uuids
<1>4. Whole(h, live)' BY <1>2, <1>3 DEF Whole
<1>5. LiveOK(h)' BY <1>2, <1>4 DEF LiveOK
<1> QED BY <1>1, <1>2, <1>5

(* Otherwise the live database is as it was.                               *)
LEMMA StaysOffline ==
    ASSUME NEW h, NEW q, NEW d, LiveOK(h), r.on, ReplicaOnly, DOMAIN d = 0..1,
           \A id \in 0..1 : IsDatabase(d[id]), possibly_make_offline_live(q, d),
           ~Ready(q, d), d[stub] = dir[stub], q.result = r.result
    PROVE  LiveOK(h)' /\ offline' = d[Other(stub)] /\ r' = q /\ dir' = d /\ stub' = stub
<1>1. stub' = stub /\ dir' = d /\ r' = q BY DEF possibly_make_offline_live
<1>2. offline' = d[Other(stub)] BY <1>1 DEF offline
<1>3. Other(stub) \in 0..1 BY TwoDirectories
<1>4. LiveOK(h)' BY <1>1, <1>3, LiveKept
<1> QED BY <1>1, <1>2, <1>4

(* recv_footer: either the copy goes live at once, or it waits for         *)
(* changesets, or it is given up.                                          *)
LEMMA RecvFooterInv ==
    ASSUME NEW h, NEW p, PInv(h, p), recv_footer
    PROVE  \E s : PInv(h, s)'
<1>0. PICK q : q = [r EXCEPT !.copying = FALSE, !.need_copy_next = FALSE,
                             !.offline_needed_revision = msg.rev]
  OBVIOUS
<1>1. /\ r.on /\ chan # <<>> /\ msg.type = "footer" /\ copied(q)
      /\ Next_message /\ ReplicaOnly
  BY <1>0 DEF recv_footer, Got, msg
<1>2. /\ Link(h, p[1], msg, p[2]) /\ LiveOK(h) /\ ReplicaAt(h, p[1])
      /\ HistoryOK(h)
      /\ PositionOK(h, p[1]) /\ PositionOK(h, p[2])
  BY <1>1, RecvTrack
<1>3. Footer(p[1], msg, p[2]) BY <1>1, <1>2, LinkType
<1>4. /\ p[1].at = "copy" /\ p[1].i = NBlocks + 2 /\ Copying(h, p[1])
      /\ VersionOK(h, p[1], offline.version)
  BY <1>2, <1>3 DEF Footer, ReplicaAt, Copying
<1>5. /\ ~q.copying /\ ~q.need_copy_next /\ q.offline_needed_revision = msg.rev
      /\ (q.have_offline_db <=> r.have_offline_db) /\ q.offline_uuid = p[1].uuid
      /\ q.offline_revision = p[1].rev /\ q.goal = r.goal
      /\ q.result = r.result /\ q.on
      /\ r.have_offline_db
  BY <1>0, <1>1, <1>4 DEF PInv, IsReplica, Copying
<1>6. q = [on |-> q.on, copying |-> q.copying, have_offline_db |-> q.have_offline_db,
           need_copy_next |-> q.need_copy_next, offline_revision |-> q.offline_revision,
           offline_uuid |-> q.offline_uuid, result |-> q.result, goal |-> q.goal,
           offline_needed_revision |-> q.offline_needed_revision]
  <2>1. IsReplica BY DEF PInv
  <2> QED BY <1>0, <2>1 DEF IsReplica
<1>7. r.goal.uuid \in Int /\ r.goal.rev \in Int BY DEF PInv, IsReplica
<1>8. /\ p[1].uuid \in Uuids /\ p[1].rev \in Nat /\ p[1].seen \in Nat
      /\ h.top[p[1].uuid] \in Nat /\ p[2].need \in Nat
  BY <1>1, <1>2, RecvTrack DEF PositionOK, Positions
<1>9. /\ Other(stub) \in 0..1 /\ Other(stub) # stub /\ DOMAIN dir = 0..1
      /\ stub \in 0..1
      /\ \A id \in 0..1 : IsDatabase(dir[id])
  BY <1>2, TwoDirectories
<1>10. version' = version BY <1>1 DEF ReplicaOnly, master
<1>11. CASE p[2].at = "whole" /\ msg.rev = p[1].rev + 1
  <2>1. ~Ready(q, dir) BY <1>5, <1>8, <1>11 DEF Ready
  <2>2. CASE offline.version.uuid = q.offline_uuid
    <3>1. possibly_make_offline_live(q, dir) BY <1>1, <2>2 DEF copied
    <3>2. LiveOK(h)' /\ r' = q
      BY <1>1, <1>2, <1>5, <1>9, <2>1, <3>1, StaysOffline
    <3>3. IsReplica' BY <1>5, <1>6, <1>7, <3>2 DEF IsReplica
    <3>4. ReplicaAt(h, p[2])' BY <1>5, <1>11, <3>2 DEF ReplicaAt
    <3> QED BY <1>1, <1>5, <3>2, <3>3, <3>4, RecvInv
  <2>3. CASE offline.version.uuid # q.offline_uuid
    <3>1. /\ r' = [q EXCEPT !.have_offline_db = FALSE, !.need_copy_next = TRUE]
          /\ dir' = [dir EXCEPT ![Other(stub)] = NoDatabase] /\ stub' = stub
      BY <1>1, <2>3 DEF copied
    <3>2. /\ r'.on /\ ~r'.copying /\ r'.goal = r.goal /\ r'.result = r.result
          /\ r' = [on |-> r'.on, copying |-> r'.copying, have_offline_db |-> r'.have_offline_db,
                   need_copy_next |-> r'.need_copy_next, offline_revision |-> r'.offline_revision,
                   offline_uuid |-> r'.offline_uuid, result |-> r'.result, goal |-> r'.goal,
                   offline_needed_revision |-> r'.offline_needed_revision]
      BY <1>5, <1>6, <3>1
    <3>3. IsReplica' BY <1>7, <3>2 DEF IsReplica
    <3>4. /\ dir'[stub] = dir[stub] /\ dir'[Other(stub)] = NoDatabase
          /\ DOMAIN dir' = 0..1
      BY <1>9, <3>1
    <3>5. LiveOK(h)' BY <1>1, <1>2, <3>1, <3>2, <3>4, NoDatabaseTyped, LiveKept
    <3>6. ReplicaAt(h, p[2])' BY <1>11, <3>2 DEF ReplicaAt
    <3> QED BY <1>1, <3>2, <3>3, <3>5, <3>6, RecvInv
  <2> QED BY <2>2, <2>3
<1>12. CASE /\ p[2].at = "loop" /\ p[2].uuid = p[1].uuid /\ p[2].rev = p[1].rev
            /\ p[2].need = msg.rev /\ p[1].seen <= msg.rev
  <2>1. p[2].need <= h.top[p[1].uuid] /\ p[1].seen <= p[2].need
    BY <1>2, <1>12 DEF PositionOK
  <2>2. ~Bad(h, p[1]) BY <1>8, <2>1 DEF Bad
  <2>3. /\ offline.version.uuid = p[1].uuid
        /\ offline.version.rev \in p[1].rev..p[1].seen
        /\ offline.version.tree = h.tree[p[1].uuid][offline.version.rev]
        /\ offline.version.uuid \in Uuids
    BY <1>4, <2>2 DEF VersionOK
  <2>4. offline.version # NoVersion BY <2>3 DEF NoVersion, NewVersion, Uuids
  <2>5. possibly_make_offline_live(q, dir) BY <1>1, <1>5, <2>3 DEF copied
  <2>6. Ready(q, dir) <=> p[1].rev >= p[2].need
    BY <1>5, <1>8, <1>12, <2>3, <2>4 DEF Ready, NotNeeded, offline
  <2>7. ASSUME NEW b \in Block
        PROVE  Mends(h, p[1].uuid, p[1].rev, p[2].need, b, offline.disk[b])
    <3>1. b < p[1].i BY <1>4, BlocksAssumption DEF Block
    <3>2. Copied(h, p[1].uuid, p[1].rev, p[1].seen, b, offline.disk[b])
      BY <1>4, <3>1 DEF Copying
    <3>3. p[2].need \in p[1].seen..h.top[p[1].uuid] BY <1>8, <2>1
    <3> QED BY <3>2, <3>3 DEF Copied
  <2>8. CASE p[1].rev >= p[2].need
    <3>1. offline.version.rev = p[1].rev /\ p[2].need = p[1].rev
      BY <1>2, <1>4, <1>8, <2>1, <2>3, <2>8 DEF PositionOK
    <3>2. p[1].rev \in 0..h.top[p[1].uuid] BY <1>8, <2>1, <3>1
    <3>3. Whole(h, offline) BY <1>2, <1>8, <2>3, <2>7, <3>1, <3>2, MendsWhole
    <3>4. Ready(q, dir) BY <2>6, <2>8
    <3>5. r' = [q EXCEPT !.have_offline_db = FALSE]
      BY <2>5, <3>4 DEF possibly_make_offline_live
    <3>6. /\ r'.on /\ ~r'.copying /\ r'.goal = r.goal /\ r'.result = r.result
          /\ ~r'.need_copy_next /\ ~r'.have_offline_db
          /\ r' = [on |-> r'.on, copying |-> r'.copying, have_offline_db |-> r'.have_offline_db,
                   need_copy_next |-> r'.need_copy_next, offline_revision |-> r'.offline_revision,
                   offline_uuid |-> r'.offline_uuid, result |-> r'.result, goal |-> r'.goal,
                   offline_needed_revision |-> r'.offline_needed_revision]
      BY <1>5, <1>6, <3>5
    <3>7. IsReplica' BY <1>7, <3>6 DEF IsReplica
    <3>8. LiveOK(h)' /\ live' = offline
      BY <1>1, <1>2, <1>9, <2>5, <3>3, <3>4, <3>6, GoesLive DEF offline
    <3>9. Online(p[2])' BY <1>12, <2>3, <3>1, <3>6, <3>8 DEF Online
    <3>10. ~(p[2].rev < p[2].need) BY <1>8, <1>12, <3>1
    <3>11. ReplicaAt(h, p[2])' BY <1>12, <3>6, <3>9, <3>10 DEF ReplicaAt
    <3> QED BY <1>1, <3>6, <3>7, <3>8, <3>11, RecvInv
  <2>9. CASE p[1].rev < p[2].need
    <3>1. ~Ready(q, dir) BY <1>8, <2>6, <2>9
    <3>2. LiveOK(h)' /\ offline' = offline /\ r' = q
      BY <1>1, <1>2, <1>5, <1>9, <2>5, <3>1, StaysOffline DEF offline
    <3>3. IsReplica' BY <1>5, <1>6, <1>7, <3>2 DEF IsReplica
    <3>4. Offline(h, p[2])' BY <1>5, <1>12, <2>3, <2>7, <3>2 DEF Offline
    <3>5. ReplicaAt(h, p[2])'
      <4>1. ~(p[2].rev >= p[2].need) BY <1>8, <1>12, <2>9
      <4> QED BY <1>5, <1>12, <3>2, <3>4, <4>1 DEF ReplicaAt
    <3> QED BY <1>1, <1>5, <3>2, <3>3, <3>5, RecvInv
  <2> QED BY <1>8, <2>8, <2>9
<1> QED BY <1>3, <1>11, <1>12 DEF Footer

(* copy_cut_short: without its footer the copy does not go live.           *)
LEMMA CopyCutShortInv ==
    ASSUME NEW h, NEW p, PInv(h, p), copy_cut_short
    PROVE  \E s : PInv(h, s)'
<1>1. r.on /\ ~srv.on /\ chan = <<>> /\ r.copying /\ ReplicaOnly
  BY DEF copy_cut_short, Eof
<1>2. LiveOK(h) /\ Conversing(h, p) /\ Track(h, p) BY <1>1 DEF PInv, Conversing
<1>3. Len(chan) = 0 /\ Len(p) = 1 /\ PositionOK(h, p[1])
  BY <1>1, <1>2, SeqOne DEF Track
<1>4. /\ stub \in 0..1 /\ Other(stub) \in 0..1 /\ Other(stub) # stub
      /\ DOMAIN dir = 0..1
      /\ \A id \in 0..1 : IsDatabase(dir[id])
      /\ Whole(h, dir[stub])
  BY <1>2, TwoDirectories
<1>5. CASE offline.version = NoVersion
  <2>1. Ends("closed", dir) BY <1>5 DEF copy_cut_short
  <2>2. PInv(h, p)' BY <1>1, <1>4, <2>1, EndsInv
  <2> QED BY <2>2
<1>6. CASE offline.version # NoVersion
  <2>0. PICK q : q = [r EXCEPT !.copying = FALSE] OBVIOUS
  <2>1. copied(q) /\ srv' = srv /\ chan' = chan
    BY <1>6, <2>0 DEF copy_cut_short, server
  <2>2. r.offline_needed_revision = NotNeeded
    <3>1. p[1].at = "copy" /\ Copying(h, p[1])
      BY <1>1, <1>2 DEF Conversing, ReplicaAt
    <3>2. p[1].i = NBlocks + 2 BY <1>6, <3>1 DEF Copying
    <3> QED BY <1>1, <1>2, <1>3, <3>1, <3>2 DEF Conversing, NoServerAt
  <2>3. /\ q.on /\ ~q.copying /\ q.goal = r.goal /\ q.result = r.result
        /\ q.offline_needed_revision = NotNeeded
        /\ r.goal.uuid \in Int /\ r.goal.rev \in Int
    BY <1>1, <2>0, <2>2 DEF PInv, IsReplica
  <2>4. q = [on |-> q.on, copying |-> q.copying, have_offline_db |-> q.have_offline_db,
             need_copy_next |-> q.need_copy_next, offline_revision |-> q.offline_revision,
             offline_uuid |-> q.offline_uuid, result |-> q.result, goal |-> q.goal,
             offline_needed_revision |-> q.offline_needed_revision]
    <3>1. IsReplica BY DEF PInv
    <3> QED BY <2>0, <3>1 DEF IsReplica
  <2>5. ~Ready(q, dir) BY <2>3 DEF Ready
  <2>6. LiveOK(h)' /\ IsReplica' /\ r'.on /\ ~r'.copying /\ r'.goal = r.goal
    <3>1. CASE offline.version.uuid = q.offline_uuid
      <4>1. possibly_make_offline_live(q, dir) BY <2>1, <3>1 DEF copied
      <4>2. LiveOK(h)' /\ r' = q
        BY <1>1, <1>2, <1>4, <2>3, <2>5, <4>1, StaysOffline
      <4> QED BY <2>3, <2>4, <4>2 DEF IsReplica
    <3>2. CASE offline.version.uuid # q.offline_uuid
      <4>1. /\ r' = [q EXCEPT !.have_offline_db = FALSE, !.need_copy_next = TRUE]
            /\ dir' = [dir EXCEPT ![Other(stub)] = NoDatabase] /\ stub' = stub
        BY <2>1, <3>2 DEF copied
      <4>2. /\ r'.on /\ ~r'.copying /\ r'.goal = r.goal /\ r'.result = r.result
            /\ r' = [on |-> r'.on, copying |-> r'.copying,
                     have_offline_db |-> r'.have_offline_db,
                     need_copy_next |-> r'.need_copy_next,
                     offline_revision |-> r'.offline_revision,
                     offline_uuid |-> r'.offline_uuid, result |-> r'.result, goal |-> r'.goal,
                     offline_needed_revision |-> r'.offline_needed_revision]
        BY <2>3, <2>4, <4>1
      <4>3. /\ dir'[stub] = dir[stub] /\ dir'[Other(stub)] = NoDatabase
            /\ DOMAIN dir' = 0..1
        BY <1>4, <4>1
      <4>4. LiveOK(h)'
        BY <1>1, <1>2, <4>1, <4>2, <4>3, NoDatabaseTyped, LiveKept
      <4> QED BY <2>3, <4>2, <4>4 DEF IsReplica
    <3> QED BY <3>1, <3>2
  <2>7. PICK o : o = Overs OBVIOUS
  <2>8. PICK s : s = <<o>> OBVIOUS
  <2>9. UNCHANGED <<version, disk, building, changes, stage, txn>>
    BY <1>1 DEF ReplicaOnly, master
  <2>10. PositionOK(h, o)'
    <3>1. Grows(h, h) BY <2>9, GrowsSame
    <3>2. PositionOK(h, o) BY <2>7, OverOK
    <3> QED BY <3>1, <3>2, PositionGrows
  <2>11. AnySeq(s) /\ Len(s) = 1 /\ s[1] = o /\ AnySeq(chan') /\ Len(chan') = 0
    BY <1>1, <2>1, <2>8, SeqOne
  <2>12. Track(h, s)' BY <2>10, <2>11 DEF Track
  <2>13. ReplicaAt(h, o)' BY <2>6, <2>7 DEF ReplicaAt, Overs
  <2>14. NoServerAt(o)' BY <2>7 DEF NoServerAt, Overs
  <2>15. NotBefore(version, r.goal)'
    BY <1>2, <2>6, <2>9 DEF Conversing, NotBefore
  <2>16. Conversing(h, s)'
    BY <1>1, <2>1, <2>11, <2>12, <2>13, <2>14, <2>15 DEF Conversing
  <2>17. HistoryOK(h)' /\ MasterOK(h)'
    BY <2>9 DEF PInv, HistoryOK, MasterOK, Uuids
  <2>18. IsServer' BY <2>1 DEF PInv, IsServer
  <2>19. PInv(h, s)' BY <2>6, <2>16, <2>17, <2>18 DEF PInv
  <2> QED BY <2>19
<1> QED BY <1>5, <1>6

-----------------------------------------------------------------------------
(* A changeset, or part of it, written to the target directory.            *)
LEMMA AppliedTyped ==
    ASSUME NEW h, LiveOK(h), NEW blocks, NEW v, NEW d, d = Applied(blocks, v)
    PROVE  /\ DOMAIN d = 0..1 /\ \A id \in 0..1 : IsDatabase(d[id])
           /\ d[Target].version = v
           /\ \A b \in Block : d[Target].disk[b] = IF b \in DOMAIN blocks THEN blocks[b]
                                                   ELSE dir[Target].disk[b]
           /\ d[Other(Target)] = dir[Other(Target)]
<1>1. /\ Target \in 0..1 /\ Other(Target) \in 0..1 /\ Other(Target) # Target
      /\ \A id \in 0..1 : id = Target \/ id = Other(Target)
  BY TwoDirectories DEF Target, Other
<1>2. DOMAIN dir = 0..1 /\ \A id \in 0..1 : IsDatabase(dir[id])
  BY TwoDirectories
<1> DEFINE t == Target
           after == [b \in Block |-> IF b \in DOMAIN blocks THEN blocks[b] ELSE dir[t].disk[b]]
<1> HIDE DEF t
<1>3. d = [dir EXCEPT ![t].disk = after, ![t].version = v] BY DEF Applied, t
<1>4. DOMAIN after = Block /\ \A b \in Block : after[b] = IF b \in DOMAIN blocks THEN blocks[b]
                                                          ELSE dir[t].disk[b]
  OBVIOUS
<1> HIDE DEF after
<1>5. dir[t] = [disk |-> dir[t].disk, version |-> dir[t].version]
  BY <1>1, <1>2 DEF IsDatabase, t
<1>6. d[t] = [disk |-> after, version |-> v] /\ DOMAIN d = 0..1
  BY <1>1, <1>2, <1>3, <1>5 DEF t
<1>7. d[Other(t)] = dir[Other(t)] BY <1>1, <1>2, <1>3 DEF t
<1>8. IsDatabase(d[t]) BY <1>4, <1>6 DEF IsDatabase
<1>9. IsDatabase(d[Other(t)]) BY <1>1, <1>2, <1>7 DEF t
<1> QED BY <1>1, <1>4, <1>6, <1>7, <1>8, <1>9 DEF t

(* After the changeset to m + 1 the ones from there to n mend the block.   *)
LEMMA MendsStep ==
    ASSUME NEW h, HistoryOK(h), NEW u \in Uuids, NEW m \in Nat, NEW n \in 0..h.top[u],
           m + 1 <= n, NEW b, NEW x, NEW y, Mends(h, u, m, n, b, x),
           y = IF b \in DOMAIN h.wrote[u][m + 1] THEN h.wrote[u][m + 1][b] ELSE x
    PROVE  Mends(h, u, m + 1, n, b, y)
<1>1. Lineage(h.top[u], h.tree[u], h.wrote[u]) /\ h.top[u] \in Nat
  BY DEF HistoryOK, Lineage
<1>2. n \in Nat /\ m + 1 \in 0..n /\ m + 1 \in 1..h.top[u] BY <1>1
<1>3. CASE b \in DOMAIN h.wrote[u][m + 1]
  <2> SUFFICES ASSUME b \in DOMAIN h.tree[u][n], ~\E k \in (m + 1) + 1..n : b \in DOMAIN h.wrote[u][k]
               PROVE  y = h.tree[u][n][b]
    BY DEF Mends
  <2>1. b \in DOMAIN h.tree[u][m + 1] /\ h.tree[u][m + 1][b] = h.tree[u][n][b]
    BY <1>1, <1>2 DEF Lineage
  <2>2. h.tree[u][m + 1][b] = h.wrote[u][m + 1][b]
    BY <1>1, <1>2, <1>3, <2>1 DEF Lineage
  <2> QED BY <1>3, <2>1, <2>2
<1>4. CASE b \notin DOMAIN h.wrote[u][m + 1]
  <2>1. \A k \in m + 1..n : k = m + 1 \/ k \in (m + 1) + 1..n BY <1>2
  <2> QED BY <1>4, <2>1 DEF Mends
<1> QED BY <1>3, <1>4

(* The changeset that arrives is the one for the database it is applied    *)
(* to, so apply_changeset_from_conn never refuses it.                      *)
LEMMA ChangesetFits ==
    ASSUME NEW h, NEW p, PInv(h, p), Got("changeset")
    PROVE  /\ r.on /\ chan # <<>> /\ LiveOK(h) /\ HistoryOK(h) /\ ~Refused
           /\ p[1].uuid \in Uuids /\ p[1].rev \in Nat /\ p[1].need \in Nat
           /\ h.top[p[1].uuid] \in Nat /\ p[1].need <= h.top[p[1].uuid]
           /\ ~r.copying /\ ~r.need_copy_next
           /\ p[1].rev < p[1].need => Offline(h, p[1])
           /\ p[1].rev >= p[1].need => Online(p[1])
           /\ Changes(h, p[1], msg, p[2])
           /\ ChangesetOK(h, p[1].uuid, p[1].rev, msg.changes)
<1>1. r.on /\ chan # <<>> /\ msg.type = "changeset" BY DEF Got, msg
<1>2. /\ Link(h, p[1], msg, p[2]) /\ LiveOK(h) /\ ReplicaAt(h, p[1])
      /\ HistoryOK(h)
      /\ PositionOK(h, p[1]) /\ PositionOK(h, p[2])
  BY <1>1, RecvTrack
<1>3. Changes(h, p[1], msg, p[2]) BY <1>1, <1>2, LinkType
<1>4. p[1].at = "loop" /\ ChangesetOK(h, p[1].uuid, p[1].rev, msg.changes)
  BY <1>3 DEF Changes
<1>5. /\ p[1].uuid \in Uuids /\ p[1].rev \in Nat /\ p[1].need \in Nat
      /\ h.top[p[1].uuid] \in Nat /\ p[1].need <= h.top[p[1].uuid]
  BY <1>1, <1>2, <1>4, RecvTrack DEF PositionOK, Positions
<1>6. /\ ~r.copying /\ ~r.need_copy_next
      /\ p[1].rev < p[1].need => Offline(h, p[1])
      /\ p[1].rev >= p[1].need => Online(p[1])
  BY <1>2, <1>4 DEF ReplicaAt
<1>7. ~Refused
  <2>1. msg.changes.start = p[1].rev BY <1>4 DEF ChangesetOK
  <2> QED BY <1>5, <1>6, <2>1 DEF Refused, Offline, Online
<1> QED BY <1>1, <1>2, <1>3, <1>4, <1>5, <1>6, <1>7

(* recv_changeset: applied to the live database, a whole changeset leads   *)
(* from one revision to the next; applied offline, it brings the copy      *)
(* nearer to the revision it needs.                                        *)
LEMMA RecvChangesetInv ==
    ASSUME NEW h, NEW p, PInv(h, p), recv_changeset
    PROVE  \E s : PInv(h, s)'
<1> DEFINE u == p[1].uuid
           rev == p[1].rev
           need == p[1].need
           cs == msg.changes
<1>1. Got("changeset") /\ ReplicaOnly BY DEF recv_changeset
<1>2. /\ r.on /\ chan # <<>> /\ LiveOK(h) /\ HistoryOK(h) /\ ~Refused
      /\ u \in Uuids /\ rev \in Nat /\ need \in Nat
      /\ h.top[u] \in Nat /\ need <= h.top[u]
      /\ ~r.copying /\ ~r.need_copy_next
      /\ rev < need => Offline(h, p[1])
      /\ rev >= need => Online(p[1])
      /\ Changes(h, p[1], msg, p[2])
      /\ ChangesetOK(h, u, rev, cs)
  BY <1>1, ChangesetFits
<1>3. PICK d : d = Applied(cs.blocks, cs.version) OBVIOUS
<1>4. /\ IF r.have_offline_db
         THEN possibly_make_offline_live([r EXCEPT !.offline_revision = cs.end], d)
         ELSE dir' = d /\ UNCHANGED <<r, stub>>
      /\ Next_message
  BY <1>2, <1>3 DEF recv_changeset, apply_changeset
<1>5. /\ rev + 1 <= h.top[u] /\ cs.start = rev /\ cs.end = rev + 1
      /\ cs.blocks = h.wrote[u][rev + 1]
      /\ cs.version = [uuid |-> u, rev |-> rev + 1, tree |-> h.tree[u][rev + 1]]
  BY <1>2 DEF ChangesetOK
<1>6. /\ p[2].at = "loop" /\ p[2].uuid = u /\ p[2].need = need
      /\ p[2].rev = rev + 1
  BY <1>2 DEF Changes
<1> HIDE DEF u, rev, need, cs
<1>7. /\ DOMAIN d = 0..1 /\ \A id \in 0..1 : IsDatabase(d[id])
      /\ d[Target].version = cs.version
      /\ \A b \in Block : d[Target].disk[b] = IF b \in DOMAIN h.wrote[u][rev + 1]
                                              THEN h.wrote[u][rev + 1][b]
                                              ELSE dir[Target].disk[b]
      /\ d[Other(Target)] = dir[Other(Target)]
  <2>1. PICK x, v : x = cs.blocks /\ v = cs.version OBVIOUS
  <2>2. LiveOK(h) /\ d = Applied(x, v) BY <1>2, <1>3, <2>1
  <2>3. /\ DOMAIN d = 0..1 /\ \A id \in 0..1 : IsDatabase(d[id])
        /\ d[Target].version = v
        /\ \A b \in Block : d[Target].disk[b] = IF b \in DOMAIN x THEN x[b]
                                                ELSE dir[Target].disk[b]
        /\ d[Other(Target)] = dir[Other(Target)]
    BY <2>2, AppliedTyped
  <2> QED BY <1>5, <2>1, <2>3
<1>8. rev + 1 \in 0..h.top[u] /\ rev \in 0..h.top[u] BY <1>2, <1>5
<1>9. CASE rev < need
  <2>1. /\ r.have_offline_db /\ r.offline_uuid = u /\ r.offline_revision = rev
        /\ r.offline_needed_revision = need
        /\ \A b \in Block : Mends(h, u, rev, need, b, offline.disk[b])
    BY <1>2, <1>9 DEF Offline, u, rev, need
  <2>2. Target = Other(stub) /\ dir[Target] = offline /\ Other(Target) = stub
    BY <1>2, <2>1, TwoDirectories DEF Target, offline
  <2>3. PICK q : q = [r EXCEPT !.offline_revision = rev + 1] OBVIOUS
  <2>4. possibly_make_offline_live(q, d) BY <1>4, <1>5, <2>1, <2>3
  <2>5. /\ q.on /\ ~q.copying /\ ~q.need_copy_next /\ q.goal = r.goal
        /\ q.result = r.result
        /\ q.have_offline_db /\ q.offline_uuid = u /\ q.offline_revision = rev + 1
        /\ q.offline_needed_revision = need
        /\ r.goal.uuid \in Int /\ r.goal.rev \in Int
    BY <1>2, <2>1, <2>3 DEF PInv, IsReplica
  <2>6. q = [on |-> q.on, copying |-> q.copying, have_offline_db |-> q.have_offline_db,
             need_copy_next |-> q.need_copy_next, offline_revision |-> q.offline_revision,
             offline_uuid |-> q.offline_uuid, result |-> q.result, goal |-> q.goal,
             offline_needed_revision |-> q.offline_needed_revision]
    <3>1. IsReplica BY DEF PInv
    <3> QED BY <2>3, <3>1 DEF IsReplica
  <2>7. ASSUME NEW b \in Block PROVE Mends(h, u, rev + 1, need, b, d[Target].disk[b])
    <3>1. Mends(h, u, rev, need, b, offline.disk[b]) BY <2>1
    <3>2. need \in 0..h.top[u] /\ rev + 1 <= need BY <1>2, <1>9
    <3>3. PICK x, y : x = offline.disk[b] /\ y = d[Target].disk[b] OBVIOUS
    <3>4. y = IF b \in DOMAIN h.wrote[u][rev + 1] THEN h.wrote[u][rev + 1][b] ELSE x
      BY <1>7, <2>2, <3>3
    <3>5. HistoryOK(h) /\ u \in Uuids /\ rev \in Nat BY <1>2
    <3>6. PICK n : n = need OBVIOUS
    <3>7. Mends(h, u, rev + 1, n, b, y)
      BY <3>1, <3>2, <3>3, <3>4, <3>5, <3>6, MendsStep
    <3> QED BY <3>3, <3>6, <3>7
  <2>8. /\ d[Target].version.uuid = u /\ d[Target].version.rev = rev + 1
        /\ d[Target].version.tree = h.tree[u][rev + 1]
    BY <1>5, <1>7
  <2>9. Ready(q, d) <=> rev + 1 >= need
    <3>1. d[Target].version # NoVersion
      BY <1>2, <2>8 DEF NoVersion, NewVersion, Uuids
    <3> QED BY <1>2, <2>2, <2>5, <2>8, <3>1 DEF Ready, NotNeeded
  <2>10. CASE rev + 1 >= need
    <3>1. need = rev + 1 BY <1>2, <1>9, <2>10
    <3>2. Whole(h, d[Target]) BY <1>2, <1>8, <2>7, <2>8, <3>1, MendsWhole
    <3>3. Ready(q, d) BY <2>9, <2>10
    <3>4. r' = [q EXCEPT !.have_offline_db = FALSE]
      BY <2>4, <3>3 DEF possibly_make_offline_live
    <3>5. /\ r'.on /\ ~r'.copying /\ r'.goal = r.goal /\ r'.result = r.result
          /\ ~r'.need_copy_next /\ ~r'.have_offline_db
          /\ r'.offline_needed_revision = r.offline_needed_revision
          /\ r' = [on |-> r'.on, copying |-> r'.copying, have_offline_db |-> r'.have_offline_db,
                   need_copy_next |-> r'.need_copy_next, offline_revision |-> r'.offline_revision,
                   offline_uuid |-> r'.offline_uuid, result |-> r'.result, goal |-> r'.goal,
                   offline_needed_revision |-> r'.offline_needed_revision]
      BY <2>1, <2>5, <2>6, <3>4
    <3>6. IsReplica' BY <2>5, <3>5 DEF IsReplica
    <3>7. LiveOK(h)' /\ live' = d[Target]
      BY <1>1, <1>2, <1>7, <2>2, <2>4, <3>2, <3>3, <3>5, GoesLive
    <3>8. Online(p[2])' BY <1>6, <2>8, <3>5, <3>7 DEF Online
    <3>9. ~(p[2].rev < p[2].need) BY <1>2, <1>6, <3>1
    <3>10. ReplicaAt(h, p[2])' BY <1>6, <3>5, <3>8, <3>9 DEF ReplicaAt
    <3> QED BY <1>1, <1>2, <1>4, <3>5, <3>6, <3>7, <3>10, RecvInv
  <2>11. CASE rev + 1 < need
    <3>1. ~Ready(q, d) BY <1>2, <2>9, <2>11
    <3>2. LiveOK(h)' /\ offline' = d[Target] /\ r' = q
      BY <1>1, <1>2, <1>7, <2>2, <2>4, <2>5, <3>1, StaysOffline
    <3>3. IsReplica' BY <2>5, <2>6, <3>2 DEF IsReplica
    <3>4. Offline(h, p[2])' BY <1>6, <2>5, <2>7, <2>8, <3>2 DEF Offline
    <3>5. ~(p[2].rev >= p[2].need) BY <1>2, <1>6, <2>11
    <3>6. ReplicaAt(h, p[2])' BY <1>6, <2>5, <3>2, <3>4, <3>5 DEF ReplicaAt
    <3> QED BY <1>1, <1>2, <1>4, <2>1, <2>5, <3>2, <3>3, <3>6, RecvInv
  <2> QED BY <1>2, <2>10, <2>11
<1>10. CASE rev >= need
  <2>1. ~r.have_offline_db /\ live.version.uuid = u /\ live.version.rev = rev
    BY <1>2, <1>10 DEF Online, u, rev, need
  <2>2. Target = stub /\ dir[Target] = live BY <2>1 DEF Target, live
  <2>3. dir' = d /\ r' = r /\ stub' = stub BY <1>4, <2>1
  <2>4. Whole(h, live) BY <1>2 DEF LiveOK
  <2>5. live.version.tree = h.tree[u][rev] BY <2>1, <2>4 DEF Whole
  <2>6. ASSUME NEW b \in Block PROVE Mends(h, u, rev + 1, rev + 1, b, d[Target].disk[b])
    <3>1. Mends(h, u, rev, rev + 1, b, live.disk[b])
      <4>1. Lineage(h.top[u], h.tree[u], h.wrote[u]) BY <1>2 DEF HistoryOK
      <4>2. rev \in 0..rev + 1 BY <1>2
      <4>3. b \in DOMAIN h.tree[u][rev + 1] =>
              \/ \E k \in rev + 1..rev + 1 : b \in DOMAIN h.wrote[u][k]
              \/ b \in DOMAIN h.tree[u][rev] /\ h.tree[u][rev][b] = h.tree[u][rev + 1][b]
        BY <1>8, <4>1, <4>2, LineageKept
      <4>4. b \in DOMAIN h.tree[u][rev] => live.disk[b] = h.tree[u][rev][b]
        BY <2>4, <2>5 DEF Whole
      <4> QED BY <4>3, <4>4 DEF Mends
    <3>2. PICK x, y : x = live.disk[b] /\ y = d[Target].disk[b] OBVIOUS
    <3>3. y = IF b \in DOMAIN h.wrote[u][rev + 1] THEN h.wrote[u][rev + 1][b] ELSE x
      BY <1>7, <2>2, <3>2
    <3>4. HistoryOK(h) /\ u \in Uuids /\ rev \in Nat BY <1>2
    <3>5. PICK n : n = rev + 1 OBVIOUS
    <3>6. n \in 0..h.top[u] /\ rev + 1 <= n BY <1>2, <1>8, <3>5
    <3>7. Mends(h, u, rev + 1, n, b, y)
      BY <3>1, <3>2, <3>3, <3>4, <3>5, <3>6, MendsStep
    <3> QED BY <3>2, <3>5, <3>7
  <2>7. /\ d[Target].version.uuid = u /\ d[Target].version.rev = rev + 1
        /\ d[Target].version.tree = h.tree[u][rev + 1]
    BY <1>5, <1>7
  <2>8. Whole(h, d[Target]) BY <1>2, <1>8, <2>6, <2>7, MendsWhole
  <2>9. live' = d[Target] BY <2>2, <2>3 DEF live
  <2>10. LiveOK(h)'
    <3>1. version' = version /\ Uuids' = Uuids
      BY <1>1 DEF ReplicaOnly, master, Uuids
    <3>2. Whole(h, live)' BY <2>8, <2>9, <3>1 DEF Whole
    <3> QED BY <1>2, <1>7, <2>3, <3>2 DEF LiveOK
  <2>11. Online(p[2])' BY <1>6, <2>1, <2>3, <2>7, <2>9 DEF Online
  <2>12. ~(p[2].rev < p[2].need) BY <1>2, <1>6, <1>10
  <2>13. ReplicaAt(h, p[2])' BY <1>2, <1>6, <2>3, <2>11, <2>12 DEF ReplicaAt
  <2>14. IsReplica' BY <2>3 DEF PInv, IsReplica
  <2> QED BY <1>1, <1>2, <1>4, <2>3, <2>10, <2>13, <2>14, RecvInv
<1> QED BY <1>2, <1>9, <1>10

(* changeset_interrupted: the blocks of a changeset are in no tree of the  *)
(* revision before it, so that a part of them leaves the live database     *)
(* whole.                                                                  *)
LEMMA ChangesetInterruptedInv ==
    ASSUME NEW h, NEW p, PInv(h, p), NEW written, changeset_interrupted(written)
    PROVE  PInv(h, p)'
<1> DEFINE u == p[1].uuid
           rev == p[1].rev
           blocks == Restrict(msg.changes.blocks, written)
<1>1. Got("changeset") /\ ReplicaOnly /\ written \subseteq DOMAIN msg.changes.blocks
  BY DEF changeset_interrupted
<1>2. PICK d : d = Applied(blocks, dir[Target].version) OBVIOUS
<1>3. Ends("closed", d) BY <1>2 DEF changeset_interrupted
<1>4. /\ r.on /\ LiveOK(h) /\ HistoryOK(h) /\ u \in Uuids /\ rev \in Nat
      /\ h.top[u] \in Nat
      /\ p[1].need \in Nat
      /\ p[1].rev < p[1].need => Offline(h, p[1])
      /\ p[1].rev >= p[1].need => Online(p[1])
      /\ ChangesetOK(h, u, rev, msg.changes)
  BY <1>1, ChangesetFits
<1>5. DOMAIN blocks \subseteq DOMAIN h.wrote[u][rev + 1]
  BY <1>1, <1>4 DEF Restrict, ChangesetOK
<1> HIDE DEF u, rev, blocks
<1>6. /\ DOMAIN d = 0..1 /\ \A id \in 0..1 : IsDatabase(d[id])
      /\ d[Target].version = dir[Target].version
      /\ \A b \in Block : d[Target].disk[b] = IF b \in DOMAIN blocks THEN blocks[b]
                                              ELSE dir[Target].disk[b]
      /\ d[Other(Target)] = dir[Other(Target)]
  <2>1. PICK x, v : x = blocks /\ v = dir[Target].version OBVIOUS
  <2>2. LiveOK(h) /\ d = Applied(x, v) BY <1>2, <1>4, <2>1
  <2>3. /\ DOMAIN d = 0..1 /\ \A id \in 0..1 : IsDatabase(d[id])
        /\ d[Target].version = v
        /\ \A b \in Block : d[Target].disk[b] = IF b \in DOMAIN x THEN x[b]
                                                ELSE dir[Target].disk[b]
        /\ d[Other(Target)] = dir[Other(Target)]
    BY <2>2, AppliedTyped
  <2> QED BY <2>1, <2>3
<1>7. Whole(h, d[stub])
  <2>1. CASE r.have_offline_db
    <3>1. Other(Target) = stub BY <1>4, <2>1, TwoDirectories DEF Target
    <3> QED BY <1>4, <1>6, <3>1, TwoDirectories
  <2>2. CASE ~r.have_offline_db
    <3>1. Target = stub BY <2>2 DEF Target
    <3>2. live.version.uuid = u /\ live.version.rev = rev
      BY <1>4, <2>2 DEF Offline, Online, u, rev
    <3>3. Whole(h, live) BY <1>4 DEF LiveOK
    <3>4. live.version.tree = h.tree[u][rev] BY <3>2, <3>3 DEF Whole
    <3>5. ASSUME NEW b \in DOMAIN live.version.tree
          PROVE  b \in Block /\ b \notin DOMAIN h.wrote[u][rev + 1]
      <4>1. Lineage(h.top[u], h.tree[u], h.wrote[u]) BY <1>4 DEF HistoryOK
      <4>2. rev + 1 \in 1..h.top[u] /\ rev \in 0..h.top[u] /\ rev + 1 - 1 = rev
        BY <1>4 DEF ChangesetOK
      <4> QED BY <3>4, <4>1, <4>2 DEF Lineage
    <3>6. \A b \in DOMAIN live.version.tree : d[stub].disk[b] = live.disk[b]
      BY <1>5, <1>6, <3>1, <3>5 DEF live
    <3>7. d[stub].version = live.version BY <1>6, <3>1 DEF live
    <3> QED BY <3>3, <3>6, <3>7 DEF Whole
  <2> QED BY <2>1, <2>2
<1> QED BY <1>1, <1>3, <1>6, <1>7, EndsInv

(* recv_last: END_OF_CHANGES comes when the live database is at the goal.  *)
LEMMA RecvLastInv ==
    ASSUME NEW h, NEW p, PInv(h, p), recv_last
    PROVE  PInv(h, p)'
<1>1. LiveOK(h) /\ ReplicaOnly BY DEF PInv, recv_last
<1>2. /\ DOMAIN dir = 0..1 /\ \A id \in 0..1 : IsDatabase(dir[id]) /\ Whole(h, dir[stub])
  BY <1>1, TwoDirectories
<1>3. CASE Ends("closed", dir) BY <1>1, <1>2, <1>3, EndsInv
<1>4. CASE Got("end") /\ Ends("end", dir)
  <2>1. r.on /\ chan # <<>> /\ msg.type = "end" BY <1>4 DEF Got, msg
  <2>2. End(p[1], msg, p[2], r.goal) /\ ReplicaAt(h, p[1]) /\ PositionOK(h, p[1])
    BY <2>1, RecvTrack, LinkType
  <2>3. Online(p[1])
    <3>1. p[1].at = "loop" /\ p[1].rev >= p[1].need
      BY <2>2 DEF End, PositionOK, Positions
    <3> QED BY <2>2, <3>1 DEF ReplicaAt
  <2>4. NotBefore(dir[stub].version, r.goal)
    BY <2>2, <2>3 DEF End, Online, NotBefore, live
  <2> QED BY <1>1, <1>2, <1>4, <2>4, EndsInv
<1> QED BY <1>3, <1>4 DEF recv_last

(* The replica's process is killed.                                        *)
LEMMA ReplicaKilledInv ==
    ASSUME NEW h, NEW p, PInv(h, p), replica_killed
    PROVE  PInv(h, p)'
<1>1. LiveOK(h) /\ ReplicaOnly /\ Ends("closed", dir)
  BY DEF PInv, replica_killed
<1>2. /\ DOMAIN dir = 0..1 /\ \A id \in 0..1 : IsDatabase(dir[id]) /\ Whole(h, dir[stub])
  BY <1>1, TwoDirectories
<1> QED BY <1>1, <1>2, EndsInv

-----------------------------------------------------------------------------
(* The replica begins with an empty database, the master with another.     *)
LEMMA InitRepInv == Init => RepInv
<1> SUFFICES ASSUME Init PROVE RepInv OBVIOUS
<1>1. PICK h : h = [top |-> [u \in 0..1 |-> 0], tree |-> [u \in 0..1 |-> [n \in 0..0 |-> <<>>]],
                    wrote |-> [u \in 0..1 |-> <<>>]]
  OBVIOUS
<1>2. /\ h.top[0] = 0 /\ h.top[1] = 0 /\ h.tree[0][0] = <<>> /\ h.tree[1][0] = <<>>
  BY <1>1
<1>3. version = [uuid |-> 1, rev |-> 0, tree |-> <<>>] /\ Uuids = {0, 1}
  BY DEF Init, NewVersion, Uuids
<1>4. HistoryOK(h)
  <2>1. \A u \in {0, 1} : h.top[u] = 0 /\ DOMAIN h.tree[u][0] = {} BY <1>2
  <2> QED BY <1>3, <2>1 DEF HistoryOK, Lineage
<1>5. MasterOK(h)
  <2>1. DOMAIN version.tree = {} /\ DOMAIN building = {} /\ DOMAIN changes = {}
        /\ DOMAIN disk = Block /\ stage = "idle"
    BY <1>3 DEF Init, Blank
  <2> QED BY <1>2, <1>3, <2>1 DEF MasterOK, IsMaster
<1>6. LiveOK(h)
  <2>1. /\ dir[0] = [disk |-> Blank, version |-> NewVersion(0)]
        /\ dir[1] = NoDatabase
        /\ DOMAIN dir = 0..1 /\ stub = 0
    BY DEF Init
  <2>2. IsDatabase(dir[0]) BY <2>1 DEF IsDatabase, Blank
  <2>3. \A id \in 0..1 : IsDatabase(dir[id]) BY <2>1, <2>2, NoDatabaseTyped
  <2>4. live.version.uuid = 0 /\ live.version.rev = 0 /\ live.version.tree = <<>>
    BY <2>1 DEF live, NewVersion
  <2>5. Whole(h, live) BY <1>2, <1>3, <2>4 DEF Whole
  <2>6. r.result = "none" BY DEF Init, NewReplica
  <2> QED BY <2>1, <2>3, <2>5, <2>6 DEF LiveOK
<1>7. IsReplica /\ ~r.on
  BY DEF Init, IsReplica, NewReplica, Id, NoVersion, NewVersion
<1>8. IsServer /\ ~srv.on BY DEF Init, IsServer, NoServer
<1>9. Idle BY <1>8 DEF Idle, Init
<1>10. PInv(h, <<>>) BY <1>4, <1>5, <1>6, <1>7, <1>8, <1>9 DEF PInv
<1> QED BY <1>10 DEF RepInv

(* Every step preserves the invariant.                                     *)
LEMMA NextRepInv == RepInv /\ [Next]_vars => RepInv'
<1> SUFFICES ASSUME RepInv, [Next]_vars PROVE RepInv' OBVIOUS
<1>0. PICK h, p : PInv(h, p) BY DEF RepInv
<1> SUFFICES \E g, s : PInv(g, s)' BY DEF RepInv
<1>1. ASSUME NEW b \in Block, write_block(b) PROVE \E g, s : PInv(g, s)'
  BY <1>0, <1>1, WriteBlockInv
<1>2. ASSUME NEW keep \in SUBSET DOMAIN version.tree, commit(keep) PROVE \E g, s : PInv(g, s)'
  BY <1>0, <1>2, CommitInv
<1>3. ASSUME NEW max, store_changeset(max) PROVE \E g, s : PInv(g, s)'
  BY <1>0, <1>3, StoreChangesetInv
<1>4. CASE killed BY <1>0, <1>4, KilledInv
<1>5. CASE Connect BY <1>0, <1>5, ConnectInv DEF Connect
<1>6. CASE too_fast BY <1>0, <1>6, TooFastInv
<1>7. CASE send_header BY <1>0, <1>7, SendHeaderInv
<1>8. CASE send_file BY <1>0, <1>8, SendFileInv
<1>9. CASE send_footer BY <1>0, <1>9, SendFooterInv
<1>10. CASE reopen BY <1>0, <1>10, ReopenInv
<1>11. CASE send_changeset BY <1>0, <1>11, SendChangesetInv
<1>12. CASE recv_header BY <1>0, <1>12, RecvHeaderInv
<1>13. CASE recv_file BY <1>0, <1>13, RecvFileInv
<1>14. CASE recv_footer BY <1>0, <1>14, RecvFooterInv
<1>15. CASE copy_cut_short BY <1>0, <1>15, CopyCutShortInv
<1>16. CASE recv_changeset BY <1>0, <1>16, RecvChangesetInv
<1>17. CASE recv_last BY <1>0, <1>17, RecvLastInv
<1>18. ASSUME NEW written, changeset_interrupted(written) PROVE \E g, s : PInv(g, s)'
  BY <1>0, <1>18, ChangesetInterruptedInv
<1>19. CASE replica_killed BY <1>0, <1>19, ReplicaKilledInv
<1>20. CASE connection_lost /\ ~LostAfterCopy BY <1>0, <1>20, ConnectionLostInv
<1>21. CASE replace_directory /\ ~WantsChangeset
  BY <1>0, <1>21, ReplaceDirectoryInv
<1>22. CASE UNCHANGED vars
  <2>1. version' = version /\ UNCHANGED <<server, replica>>
        /\ UNCHANGED <<disk, building, changes, stage>>
    BY <1>22 DEF vars, master
  <2>2. MasterOK(h)' BY <1>0, <2>1 DEF PInv, MasterOK
  <2>3. PInv(h, p)' BY <1>0, <2>1, <2>2, GrowsSame, MasterMoves
  <2> QED BY <2>3
<1>23. CASE MasterStep BY <1>1, <1>2, <1>3, <1>4, <1>23 DEF MasterStep
<1>24. CASE ServerStep
  BY <1>6, <1>7, <1>8, <1>9, <1>10, <1>11, <1>24 DEF ServerStep
<1>25. CASE ReplicaStep
  BY <1>12, <1>13, <1>14, <1>15, <1>16, <1>17, <1>25 DEF ReplicaStep
<1>26. CASE Fault BY <1>18, <1>19, <1>26 DEF Fault
<1> QED
  BY <1>5, <1>20, <1>21, <1>22, <1>23, <1>24, <1>25, <1>26 DEF Next, Undisturbed

(* The invariant holds of every behaviour, for any number of blocks,       *)
(* transactions, databases, changesets kept, copies in a conversation and  *)
(* messages in flight.                                                     *)
THEOREM ReplicationInvariantHolds == Spec => []RepInv
<1>1. Init => RepInv BY InitRepInv
<1>2. RepInv /\ [Next]_vars => RepInv' BY NextRepInv
<1> QED BY <1>1, <1>2, PTL DEF Spec

(* The database that the stub file names is at every moment whole: each of *)
(* its blocks is as the revision in its version file has it, though        *)
(* apply_db_copy receives files that change while they are read, and       *)
(* changesets and connections are cut short.                               *)
THEOREM LiveIsWholeHolds == Spec => []LiveIsWhole
<1>1. RepInv => LiveIsWhole
  <2> SUFFICES ASSUME NEW h, NEW p, PInv(h, p) PROVE LiveIsWhole BY DEF RepInv
  <2>1. Whole(h, live) BY DEF PInv, LiveOK
  <2>2. live.version.uuid \in 0..version.uuid BY <2>1 DEF Whole, Uuids
  <2>3. PICK u, top : u = live.version.uuid /\ top = version.uuid OBVIOUS
  <2>4. u # -1 BY <2>2, <2>3
  <2>5. NoVersion.uuid = -1 BY DEF NoVersion, NewVersion
  <2>6. live.version # NoVersion BY <2>3, <2>4, <2>5
  <2> QED BY <2>1, <2>6 DEF Whole, LiveIsWhole
<1> QED BY <1>1, ReplicationInvariantHolds, PTL

(* A conversation that ends with REPL_REPLY_END_OF_CHANGES has brought the *)
(* live database to the revision the master had when it began, or further, *)
(* and no changeset is ever refused.                                       *)
THEOREM EndMeansCaughtUpHolds == Spec => []EndMeansCaughtUp
<1>1. RepInv => EndMeansCaughtUp BY DEF RepInv, PInv, LiveOK, EndMeansCaughtUp
<1> QED BY <1>1, ReplicationInvariantHolds, PTL
=============================================================================
