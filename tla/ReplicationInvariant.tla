------------------------ MODULE ReplicationInvariant ------------------------
(***************************************************************************)
(* The inductive invariant of Replication, what it takes for it to survive *)
(* a step of the master or of the server, and the proof for the steps of   *)
(* the master.  ReplicationSteps and ReplicationProofs go on from there.   *)
(*                                                                         *)
(* It has two things in it that the program does not store.  The history h *)
(* is, for every database u there has been at the master's path, its last  *)
(* revision h.top[u] and for every revision n its tree h.tree[u][n] and    *)
(* the blocks h.wrote[u][n] that the transaction wrote.  The positions p   *)
(* are one for the replica, one after each message on its way, the last    *)
(* one the server's: they say what the conversation has come to there, and *)
(* every message leads from one to the next.                               *)
(***************************************************************************)
EXTENDS Replication, TLAPS

(* Provers for the leaves that do not name one.                            *)
USE ZenonT(8), SMTT(30)

(* The databases there have been: 0 is the empty one of the new replica.   *)
Uuids == 0..version.uuid

(* Mends: the content x of block b is right for the revision n of the      *)
(* database u once the changesets from revision m to n are applied.        *)
Mends(h, u, m, n, b, x) ==
    \/ \E k \in m + 1..n : b \in DOMAIN h.wrote[u][k]
    \/ b \in DOMAIN h.tree[u][n] => x = h.tree[u][n][b]

(* ... for all revisions n of u from c on.                                 *)
Copied(h, u, m, c, b, x) == \A n \in c..h.top[u] : Mends(h, u, m, n, b, x)

(* One database of the history.                                            *)
Lineage(top, tree, wrote) ==
    /\ top \in Nat
    /\ \A n \in 0..top : DOMAIN tree[n] \subseteq Block
    /\ \A n \in 1..top : \A b \in DOMAIN wrote[n] :
          b \in Block /\ b \notin DOMAIN tree[n - 1]
    /\ \A n \in 1..top : \A b \in DOMAIN tree[n] \cap DOMAIN wrote[n] :
          tree[n][b] = wrote[n][b]
    /\ \A n \in 0..top : \A m \in 0..n : \A b \in DOMAIN tree[n] :
          \/ \E k \in m + 1..n : b \in DOMAIN wrote[k]
          \/ b \in DOMAIN tree[m] /\ tree[m][b] = tree[n][b]

HistoryOK(h) == \A u \in Uuids : Lineage(h.top[u], h.tree[u], h.wrote[u])

(* c is the changeset that leads from u's revision n to n + 1.             *)
ChangesetOK(h, u, n, c) ==
    /\ n + 1 <= h.top[u]
    /\ c.start = n /\ c.end = n + 1 /\ c.blocks = h.wrote[u][n + 1]
    /\ c.version = [uuid |-> u, rev |-> n + 1, tree |-> h.tree[u][n + 1]]

(* The tree new that a transaction makes of the tree old: the blocks that  *)
(* it wrote, none of which old uses, and blocks of old as they were.       *)
Committed(old, new, written) ==
    /\ DOMAIN new \subseteq Block
    /\ \A b \in DOMAIN written : b \in Block /\ b \notin DOMAIN old
    /\ \A b \in DOMAIN new : IF b \in DOMAIN written THEN new[b] = written[b]
                              ELSE b \in DOMAIN old /\ new[b] = old[b]

(* The master's files: its version file is the last revision of its        *)
(* history, its table files hold that tree and the blocks of the           *)
(* transaction in progress, and every changeset file is right.             *)
IsMaster(h, ver, data, wrote, stored, at) ==
    /\ ver = [uuid |-> ver.uuid, rev |-> ver.rev, tree |-> ver.tree]
    /\ ver.uuid \in Nat \ {0} /\ ver.rev = h.top[ver.uuid]
    /\ ver.tree = h.tree[ver.uuid][ver.rev]
    /\ DOMAIN data = Block /\ DOMAIN wrote \subseteq Block
    /\ \A b \in DOMAIN ver.tree : data[b] = ver.tree[b]
    /\ \A b \in DOMAIN wrote : data[b] = wrote[b]
    /\ at \in {"idle", "renamed"}
    /\ at = "idle" => DOMAIN wrote \cap DOMAIN ver.tree = {}
    /\ at = "renamed" => ver.rev >= 1 /\ h.wrote[ver.uuid][ver.rev] = wrote
    /\ \A n \in DOMAIN stored : n \in Nat /\ ChangesetOK(h, ver.uuid, n, stored[n])

MasterOK(h) == IsMaster(h, version, disk, building, changes, stage)

(* A directory of the replica.                                             *)
IsDatabase(d) == d = [disk |-> d.disk, version |-> d.version] /\ DOMAIN d.disk = Block

(* A database that is whole, at a revision of the history.                 *)
Whole(h, d) ==
    /\ d.version.uuid \in Uuids /\ d.version.rev \in 0..h.top[d.version.uuid]
    /\ d.version.tree = h.tree[d.version.uuid][d.version.rev]
    /\ \A b \in DOMAIN d.version.tree : d.disk[b] = d.version.tree[b]

(* The directory that the stub file names, and what the last conversation  *)
(* came to.                                                                *)
LiveOK(h) ==
    /\ stub \in 0..1 /\ DOMAIN dir = 0..1
    /\ \A id \in 0..1 : IsDatabase(dir[id])
    /\ Whole(h, live)
    /\ r.result # "refused"
    /\ r.result = "end" => ~r.on /\ NotBefore(live.version, r.goal)

-----------------------------------------------------------------------------
(* Positions in the conversation.  at is "loop" where changesets come next, *)
(* for a replica at revision rev of uuid that needs revision need; "copy"  *)
(* within a copy, whose header named uuid and rev, with file i next and    *)
(* the files so far read no later than revision seen; "whole" where a copy *)
(* must come next; "over" after the last message.                          *)
Positions == [at : {"whole", "loop", "copy", "over"}, uuid : Nat, rev : Nat,
              need : Nat, i : 1..NBlocks + 2, seen : Nat]

(* A copy during which the database was replaced: its footer asks for a    *)
(* revision that no changeset leads to, and another copy follows.          *)
Bad(h, q) == q.seen > h.top[q.uuid] /\ q.uuid # version.uuid

PositionOK(h, q) ==
    /\ q \in Positions /\ q.uuid \in Uuids
    /\ q.rev <= h.top[q.uuid]
    /\ q.at = "loop" => q.need <= h.top[q.uuid]
    /\ q.at = "copy" => q.rev <= q.seen /\ (q.seen <= h.top[q.uuid] \/ Bad(h, q))

(* A version file that came with the copy at position q.                   *)
VersionOK(h, q, v) ==
    /\ v.uuid \in Uuids \ {0}
    /\ \/ Bad(h, q)
       \/ /\ v.uuid = q.uuid /\ v.rev \in q.rev..q.seen
          /\ v.tree = h.tree[v.uuid][v.rev]

(* From one file of a copy to the next.                                    *)
SameCopy(p, q) ==
    /\ p.at = "copy" /\ q.at = "copy" /\ q.i = p.i + 1
    /\ q.uuid = p.uuid /\ q.rev = p.rev /\ p.seen <= q.seen

(* What each message does to the position: p before it, q after it.        *)
Header(p, m, q) ==
    /\ m.type = "header" /\ p.at \in {"whole", "loop"}
    /\ q.at = "copy" /\ q.i = 1 /\ q.uuid = m.uuid /\ q.rev = m.rev

File(h, p, m, q) ==
    /\ m.type = "file" /\ SameCopy(p, q) /\ m.b = p.i /\ m.b \in Block
    /\ Copied(h, q.uuid, q.rev, q.seen, m.b, m.data)

VersionFile(h, p, m, q) ==
    /\ m.type = "version" /\ SameCopy(p, q) /\ p.i = NBlocks + 1
    /\ VersionOK(h, q, m.version)

Footer(p, m, q) ==
    /\ m.type = "footer" /\ p.at = "copy" /\ p.i = NBlocks + 2
    /\ \/ /\ q.at = "loop" /\ q.uuid = p.uuid /\ q.rev = p.rev
          /\ q.need = m.rev /\ p.seen <= m.rev
       \/ q.at = "whole" /\ m.rev = p.rev + 1

Changes(h, p, m, q) ==
    /\ m.type = "changeset" /\ p.at = "loop" /\ q.at = "loop"
    /\ q.uuid = p.uuid /\ q.need = p.need /\ q.rev = p.rev + 1
    /\ ChangesetOK(h, p.uuid, p.rev, m.changes)

End(p, m, q, goal) ==
    /\ m.type = "end" /\ q.at = "over"
    /\ p.at = "loop" /\ p.need <= p.rev /\ NotBefore(p, goal)

(* The message m leads from position p to position q.                      *)
Link(h, p, m, q) ==
    \/ Header(p, m, q)
    \/ File(h, p, m, q)
    \/ VersionFile(h, p, m, q)
    \/ Footer(p, m, q)
    \/ Changes(h, p, m, q)
    \/ End(p, m, q, r.goal)
    \/ m.type = "fail" /\ q.at = "over"

(* A sequence, of whatever.                                                *)
AnySeq(s) == \E S : s \in Seq(S)

(* A position for the replica, for each message on its way, and for the    *)
(* server.                                                                 *)
Track(h, p) ==
    /\ AnySeq(chan) /\ AnySeq(p) /\ Len(p) = Len(chan) + 1
    /\ \A i \in 1..Len(p) : PositionOK(h, p[i])
    /\ \A i \in 1..Len(chan) : Link(h, p[i], chan[i], p[i + 1])

-----------------------------------------------------------------------------
(* In the loop, before the revision that the footer named: the changesets  *)
(* still to come mend what was copied, block by block.                     *)
Offline(h, q) ==
    /\ r.have_offline_db /\ r.offline_uuid = q.uuid /\ r.offline_revision = q.rev
    /\ r.offline_needed_revision = q.need /\ offline.version.uuid = q.uuid
    /\ \A b \in Block : Mends(h, q.uuid, q.rev, q.need, b, offline.disk[b])

(* In the loop, with nothing to wait for.                                  *)
Online(q) ==
    /\ ~r.have_offline_db
    /\ live.version.uuid = q.uuid /\ live.version.rev = q.rev

(* While a copy arrives: the blocks received so far were read no earlier   *)
(* than the revision in the header, and no later than q.seen.              *)
Copying(h, q) ==
    /\ r.have_offline_db /\ r.offline_uuid = q.uuid /\ r.offline_revision = q.rev
    /\ \A b \in Block : b < q.i => Copied(h, q.uuid, q.rev, q.seen, b, offline.disk[b])
    /\ IF q.i = NBlocks + 2 THEN VersionOK(h, q, offline.version)
                            ELSE offline.version = NoVersion

(* The replica's object and offline directory fit its position.            *)
ReplicaAt(h, q) ==
    /\ q.at # "copy" => ~r.copying
    /\ q.at = "loop" => ~r.need_copy_next
    /\ q.at = "loop" /\ q.rev < q.need => Offline(h, q)
    /\ q.at = "loop" /\ q.rev >= q.need => Online(q)
    /\ q.at = "copy" => r.copying /\ Copying(h, q)

(* The server's variables fit its position.                                *)
ServerAt(h, q) ==
    /\ srv.db.uuid \in Uuids /\ srv.db.rev \in 0..h.top[srv.db.uuid]
    /\ srv.at = "loop" => q.at \in {"whole", "loop"}
    /\ srv.at = "loop" /\ ~srv.need_whole_db =>
          q.at = "loop" /\ q.uuid = srv.start_uuid /\ q.rev = srv.start_rev
    /\ WantsChangeset => srv.start_uuid = version.uuid
    /\ srv.at = "copy" =>
          /\ q.at = "copy" /\ q.i = srv.i
          /\ q.uuid = srv.start_uuid /\ q.rev = srv.start_rev
          /\ q.seen <= h.top[q.uuid] + 1

(* No server: a copy that lost its footer is the first of the conversation. *)
NoServerAt(q) ==
    q.at = "copy" /\ q.i = NBlocks + 2 =>
        /\ r.offline_needed_revision = NotNeeded
        /\ \A n \in 1..Len(chan) : chan[n].type # "footer"

(* During one.                                                             *)
Conversing(h, p) ==
    /\ Track(h, p)
    /\ ReplicaAt(h, p[1])
    /\ srv.on => ServerAt(h, p[Len(p)])
    /\ ~srv.on => NoServerAt(p[Len(p)])
    /\ NotBefore(version, r.goal)

(* Between conversations.                                                  *)
Idle == ~srv.on /\ chan = <<>>

(* Types of the two objects.                                               *)
IsReplica ==
    /\ r = [on |-> r.on, copying |-> r.copying, have_offline_db |-> r.have_offline_db,
            need_copy_next |-> r.need_copy_next, offline_revision |-> r.offline_revision,
            offline_uuid |-> r.offline_uuid, result |-> r.result, goal |-> r.goal,
            offline_needed_revision |-> r.offline_needed_revision]
    /\ r.goal.uuid \in Int /\ r.goal.rev \in Int

IsServer ==
    /\ srv = [on |-> srv.on, at |-> srv.at, db |-> srv.db, start_rev |-> srv.start_rev,
              start_uuid |-> srv.start_uuid, need_whole_db |-> srv.need_whole_db,
              left |-> srv.left, i |-> srv.i]
    /\ srv.at \in {"loop", "copy"}

(* The invariant, for a history h and positions p.                         *)
PInv(h, p) ==
    /\ HistoryOK(h) /\ MasterOK(h) /\ LiveOK(h) /\ IsReplica /\ IsServer
    /\ r.on => Conversing(h, p)
    /\ ~r.on => Idle

RepInv == \E h, p : PInv(h, p)

-----------------------------------------------------------------------------
(* Sequences: what Append, Tail, SubSeq and the short ones give.           *)
LEMMA SeqAppend ==
    ASSUME NEW s, NEW x, AnySeq(s)
    PROVE  /\ AnySeq(Append(s, x)) /\ Len(s) \in Nat
           /\ Len(Append(s, x)) = Len(s) + 1
           /\ \A i \in 1..Len(s) : Append(s, x)[i] = s[i]
           /\ Append(s, x)[Len(s) + 1] = x
<1>1. PICK S : s \in Seq(S) BY DEF AnySeq
<1>2. s \in Seq(S \cup {x}) BY <1>1
<1>3. Append(s, x) \in Seq(S \cup {x}) BY <1>2
<1> QED BY <1>1, <1>2, <1>3 DEF AnySeq

LEMMA SeqTail ==
    ASSUME NEW s, AnySeq(s), s # <<>>
    PROVE  /\ AnySeq(Tail(s)) /\ Len(s) \in Nat \ {0} /\ Len(Tail(s)) = Len(s) - 1
           /\ \A i \in 1..Len(s) - 1 : Tail(s)[i] = s[i + 1]
           /\ Head(s) = s[1]
<1>1. PICK S : s \in Seq(S) BY DEF AnySeq
<1>2. Tail(s) \in Seq(S) BY <1>1
<1> QED BY <1>1, <1>2 DEF AnySeq

LEMMA SeqFront ==
    ASSUME NEW s, AnySeq(s), NEW n \in 0..Len(s)
    PROVE  /\ AnySeq(SubSeq(s, 1, n)) /\ Len(s) \in Nat
           /\ Len(SubSeq(s, 1, n)) = n
           /\ \A i \in 1..n : SubSeq(s, 1, n)[i] = s[i]
<1>1. PICK S : s \in Seq(S) BY DEF AnySeq
<1>2. SubSeq(s, 1, n) \in Seq(S) BY <1>1
<1> QED BY <1>1, <1>2 DEF AnySeq

LEMMA SeqOne ==
    ASSUME NEW x
    PROVE  AnySeq(<<>>) /\ Len(<<>>) = 0 /\ AnySeq(<<x>>) /\ Len(<<x>>) = 1 /\ <<x>>[1] = x
<1>1. <<x>> \in Seq({x}) /\ <<>> \in Seq({x})
  OBVIOUS
<1> QED BY <1>1 DEF AnySeq

LEMMA SeqEmpty ==
    ASSUME NEW s, AnySeq(s), Len(s) = 0
    PROVE  s = <<>>
  BY DEF AnySeq

Grows(h, g) ==
    /\ version.uuid \in Nat /\ version'.uuid \in {version.uuid, version.uuid + 1}
    /\ HistoryOK(h) /\ HistoryOK(g)'
    /\ \A u \in Uuids :
          /\ h.top[u] <= g.top[u]
          /\ \A n \in 0..h.top[u] : g.tree[u][n] = h.tree[u][n]
          /\ \A n \in 1..h.top[u] : g.wrote[u][n] = h.wrote[u][n]
          /\ u # version'.uuid => g.top[u] = h.top[u]

(* What Grows says of one database.                                        *)
LEMMA GrowsTop ==
    ASSUME NEW h, NEW g, Grows(h, g), NEW u \in Uuids
    PROVE  /\ u \in Uuids' /\ u \in Nat /\ h.top[u] \in Nat /\ g.top[u] \in Nat
           /\ h.top[u] <= g.top[u]
           /\ Lineage(h.top[u], h.tree[u], h.wrote[u])
           /\ Lineage(g.top[u], g.tree[u], g.wrote[u])
           /\ \A n \in 0..h.top[u] : g.tree[u][n] = h.tree[u][n]
           /\ \A n \in 1..h.top[u] : g.wrote[u][n] = h.wrote[u][n]
           /\ u # version'.uuid => g.top[u] = h.top[u]
           /\ u # version.uuid => g.top[u] = h.top[u] /\ u # version'.uuid
<1>1. u \in Uuids' /\ u \in Nat /\ u <= version.uuid BY DEF Grows, Uuids
<1>2. /\ Lineage(h.top[u], h.tree[u], h.wrote[u])
      /\ Lineage(g.top[u], g.tree[u], g.wrote[u])
  BY <1>1 DEF Grows, HistoryOK
<1>3. u # version.uuid => u # version'.uuid BY <1>1 DEF Grows
<1> QED BY <1>1, <1>2, <1>3 DEF Grows, Lineage

(* A block that the changesets up to n mend is mended in the longer        *)
(* history.                                                                *)
LEMMA MendsGrows ==
    ASSUME NEW h, NEW g, Grows(h, g), NEW u \in Uuids, NEW b, NEW x,
           NEW m \in Nat, NEW n \in 0..h.top[u], Mends(h, u, m, n, b, x)
    PROVE  Mends(g, u, m, n, b, x)
<1>1. h.top[u] \in Nat /\ g.tree[u][n] = h.tree[u][n] BY GrowsTop
<1>2. \A k \in m + 1..n : g.wrote[u][k] = h.wrote[u][k]
  <2> TAKE k \in m + 1..n
  <2>1. k \in 1..h.top[u] BY <1>1
  <2> QED BY <2>1, GrowsTop
<1> QED BY <1>1, <1>2 DEF Mends

(* A block of the tree of n, not written since m, is in the tree of m.     *)
LEMMA LineageKept ==
    ASSUME NEW top, NEW tree, NEW wrote, Lineage(top, tree, wrote),
           NEW n \in 0..top, NEW m \in 0..n, NEW b \in DOMAIN tree[n]
    PROVE  \/ \E k \in m + 1..n : b \in DOMAIN wrote[k]
           \/ b \in DOMAIN tree[m] /\ tree[m][b] = tree[n][b]
  BY DEF Lineage

(* A block read at revision c stays good for all later revisions: a        *)
(* revision that changes it has it in its changeset.                       *)
LEMMA CopiedGrows ==
    ASSUME NEW h, NEW g, Grows(h, g), NEW u \in Uuids, NEW b, NEW x,
           NEW m \in Nat, NEW c \in Nat, m <= c, c <= h.top[u] \/ u # version'.uuid,
           Copied(h, u, m, c, b, x)
    PROVE  Copied(g, u, m, c, b, x)
<1>0. /\ h.top[u] \in Nat /\ g.top[u] \in Nat /\ h.top[u] <= g.top[u]
      /\ Lineage(g.top[u], g.tree[u], g.wrote[u])
      /\ u # version'.uuid => g.top[u] = h.top[u]
  BY GrowsTop
<1> SUFFICES ASSUME NEW n \in c..g.top[u] PROVE Mends(g, u, m, n, b, x)
  BY DEF Copied
<1>1. CASE n <= h.top[u]
  <2>1. n \in 0..h.top[u] /\ n \in c..h.top[u] BY <1>0, <1>1
  <2>2. Mends(h, u, m, n, b, x) BY <2>1 DEF Copied
  <2> QED BY <2>1, <2>2, MendsGrows
<1>2. CASE n > h.top[u]
  <2> DEFINE t == h.top[u]
  <2>1. c <= t /\ t \in c..t /\ t \in 0..n /\ n \in 0..g.top[u] BY <1>0, <1>2
  <2>2. Mends(h, u, m, t, b, x) BY <2>1 DEF Copied
  <2>3. t \in 0..h.top[u] BY <1>0
  <2>4. Mends(g, u, m, t, b, x) BY <2>2, <2>3, MendsGrows
  <2>5. ASSUME b \in DOMAIN g.tree[u][n]
        PROVE  \/ \E k \in t + 1..n : b \in DOMAIN g.wrote[u][k]
               \/ b \in DOMAIN g.tree[u][t] /\ g.tree[u][t][b] = g.tree[u][n][b]
    BY <1>0, <2>1, <2>5, LineageKept
  <2>6. (m + 1..t) \subseteq (m + 1..n) /\ (t + 1..n) \subseteq (m + 1..n)
    BY <2>1, <1>0
  <2> HIDE DEF t
  <2> QED BY <2>4, <2>5, <2>6 DEF Mends
<1> QED BY <1>0, <1>1, <1>2

(* A right changeset stays right.                                          *)
LEMMA ChangesetGrows ==
    ASSUME NEW h, NEW g, Grows(h, g), NEW u \in Uuids, NEW n \in Nat, NEW c,
           ChangesetOK(h, u, n, c)
    PROVE  ChangesetOK(g, u, n, c)
<1>1. n + 1 \in 1..h.top[u] /\ n + 1 \in 0..h.top[u] /\ n + 1 <= g.top[u]
  BY GrowsTop DEF ChangesetOK
<1>2. g.tree[u][n + 1] = h.tree[u][n + 1] /\ g.wrote[u][n + 1] = h.wrote[u][n + 1]
  BY <1>1, GrowsTop
<1> QED BY <1>1, <1>2 DEF ChangesetOK

(* Positions, version files, blocks copied and links stay right while the  *)
(* master commits or is replaced.                                          *)
LEMMA PositionGrows ==
    ASSUME NEW h, NEW g, Grows(h, g), NEW q, PositionOK(h, q)
    PROVE  PositionOK(g, q)'
<1>1. q.uuid \in Uuids /\ q \in Positions BY DEF PositionOK
<1>2. /\ q.uuid \in Uuids' /\ h.top[q.uuid] \in Nat /\ g.top[q.uuid] \in Nat
      /\ h.top[q.uuid] <= g.top[q.uuid]
      /\ q.uuid # version.uuid => g.top[q.uuid] = h.top[q.uuid] /\ q.uuid # version'.uuid
  BY <1>1, GrowsTop
<1>3. q.rev \in Nat /\ q.need \in Nat /\ q.seen \in Nat BY <1>1 DEF Positions
<1>4. Bad(h, q) => Bad(g, q)' BY <1>2, <1>3 DEF Bad
<1>5. q.rev <= g.top[q.uuid] /\ (q.at = "loop" => q.need <= g.top[q.uuid])
  BY <1>2, <1>3 DEF PositionOK
<1>6. q.at = "copy" => q.rev <= q.seen /\ (q.seen <= g.top[q.uuid] \/ Bad(g, q)')
  BY <1>2, <1>3, <1>4 DEF PositionOK
<1> QED BY <1>1, <1>2, <1>5, <1>6 DEF PositionOK

LEMMA VersionGrows ==
    ASSUME NEW h, NEW g, Grows(h, g), NEW q, NEW v, PositionOK(h, q), q.at = "copy",
           VersionOK(h, q, v)
    PROVE  VersionOK(g, q, v)'
<1>1. q.uuid \in Uuids /\ q \in Positions BY DEF PositionOK
<1>2. /\ q.uuid \in Uuids' /\ h.top[q.uuid] \in Nat /\ g.top[q.uuid] \in Nat
      /\ h.top[q.uuid] <= g.top[q.uuid]
      /\ q.uuid # version.uuid => g.top[q.uuid] = h.top[q.uuid] /\ q.uuid # version'.uuid
  BY <1>1, GrowsTop
<1>3. q.rev \in Nat /\ q.seen \in Nat BY <1>1 DEF Positions
<1>4. v.uuid \in Uuids' \ {0} BY GrowsTop DEF VersionOK
<1>5. CASE Bad(h, q)
  <2>1. Bad(g, q)' BY <1>2, <1>3, <1>5 DEF Bad
  <2> QED BY <1>4, <2>1 DEF VersionOK
<1>6. CASE ~Bad(h, q)
  <2>1. q.seen <= h.top[q.uuid] BY <1>6 DEF PositionOK
  <2>2. /\ v.uuid = q.uuid /\ v.rev \in q.rev..q.seen
        /\ v.tree = h.tree[v.uuid][v.rev]
    BY <1>6 DEF VersionOK
  <2>3. v.rev \in 0..h.top[q.uuid] BY <2>1, <2>2, <1>2, <1>3
  <2>4. g.tree[q.uuid][v.rev] = h.tree[q.uuid][v.rev] BY <1>1, <2>3, GrowsTop
  <2> QED BY <1>4, <2>2, <2>4 DEF VersionOK
<1> QED BY <1>5, <1>6

LEMMA PositionCopied ==
    ASSUME NEW h, NEW g, Grows(h, g), NEW q, PositionOK(h, q), q.at = "copy",
           NEW b, NEW x, Copied(h, q.uuid, q.rev, q.seen, b, x)
    PROVE  Copied(g, q.uuid, q.rev, q.seen, b, x)
<1>1. q.uuid \in Uuids /\ q \in Positions BY DEF PositionOK
<1>2. q.rev \in Nat /\ q.seen \in Nat BY <1>1 DEF Positions
<1>3. q.uuid # version.uuid => q.uuid # version'.uuid BY <1>1, GrowsTop
<1>4. q.rev <= q.seen /\ (q.seen <= h.top[q.uuid] \/ q.uuid # version'.uuid)
  BY <1>3 DEF PositionOK, Bad
<1> QED BY <1>1, <1>2, <1>4, CopiedGrows

LEMMA LinkGrows ==
    ASSUME NEW h, NEW g, Grows(h, g), NEW p, NEW m, NEW q, r'.goal = r.goal,
           PositionOK(h, p), PositionOK(h, q), Link(h, p, m, q)
    PROVE  Link(g, p, m, q)'
<1>1. Header(p, m, q) => Header(p, m, q)' BY DEF Header
<1>2. File(h, p, m, q) => File(g, p, m, q)'
  BY PositionCopied DEF File, SameCopy
<1>3. VersionFile(h, p, m, q) => VersionFile(g, p, m, q)'
  BY VersionGrows DEF VersionFile, SameCopy
<1>4. Changes(h, p, m, q) => Changes(g, p, m, q)'
  <2>1. p.uuid \in Uuids /\ p.rev \in Nat BY DEF PositionOK, Positions
  <2> QED BY <2>1, ChangesetGrows DEF Changes
<1> QED BY <1>1, <1>2, <1>3, <1>4 DEF Link

(* The replica's side, the server's side and the messages stay right while *)
(* the master moves on.                                                    *)
LEMMA WholeGrows ==
    ASSUME NEW h, NEW g, Grows(h, g), NEW d, Whole(h, d)
    PROVE  Whole(g, d)'
<1>1. d.version.uuid \in Uuids /\ d.version.rev \in 0..h.top[d.version.uuid]
  BY DEF Whole
<1>2. /\ d.version.uuid \in Uuids' /\ d.version.rev \in 0..g.top[d.version.uuid]
      /\ g.tree[d.version.uuid][d.version.rev] = h.tree[d.version.uuid][d.version.rev]
  BY <1>1, GrowsTop
<1> QED BY <1>2 DEF Whole

LEMMA LiveGrows ==
    ASSUME NEW h, NEW g, Grows(h, g), LiveOK(h), UNCHANGED replica
    PROVE  LiveOK(g)'
<1>1. dir' = dir /\ stub' = stub /\ r' = r /\ live' = live BY DEF replica, live
<1>2. Whole(h, live) BY DEF LiveOK
<1>3. Whole(g, live)' BY <1>1, <1>2, WholeGrows
<1> QED BY <1>1, <1>3 DEF LiveOK

LEMMA ReplicaGrows ==
    ASSUME NEW h, NEW g, Grows(h, g), NEW q, PositionOK(h, q), ReplicaAt(h, q),
           UNCHANGED replica
    PROVE  ReplicaAt(g, q)'
<1>1. /\ dir' = dir /\ stub' = stub /\ r' = r /\ live' = live
      /\ offline' = offline
  BY DEF replica, live, offline
<1>2. q.uuid \in Uuids /\ q.rev \in Nat /\ q.need \in Nat
  BY DEF PositionOK, Positions
<1>3. ASSUME q.at = "loop", Offline(h, q) PROVE Offline(g, q)'
  <2>1. q.need \in 0..h.top[q.uuid] BY <1>2, <1>3, GrowsTop DEF PositionOK
  <2>2. ASSUME NEW b \in Block PROVE Mends(g, q.uuid, q.rev, q.need, b, offline'.disk[b])
    <3>1. Mends(h, q.uuid, q.rev, q.need, b, offline.disk[b])
      BY <1>3 DEF Offline
    <3> QED BY <1>1, <1>2, <2>1, <3>1, MendsGrows
  <2> QED BY <1>1, <1>3, <2>2 DEF Offline
<1>4. Online(q) => Online(q)' BY <1>1 DEF Online
<1>5. ASSUME q.at = "copy", Copying(h, q) PROVE Copying(g, q)'
  <2>1. ASSUME NEW b \in Block, b < q.i
        PROVE  Copied(g, q.uuid, q.rev, q.seen, b, offline'.disk[b])
    <3>1. Copied(h, q.uuid, q.rev, q.seen, b, offline.disk[b])
      BY <1>5, <2>1 DEF Copying
    <3> QED BY <1>1, <1>5, <3>1, PositionCopied
  <2>2. VersionOK(h, q, offline.version) => VersionOK(g, q, offline.version)'
    BY <1>1, <1>5, VersionGrows
  <2> QED BY <1>1, <1>5, <2>1, <2>2 DEF Copying
<1> QED BY <1>1, <1>3, <1>4, <1>5 DEF ReplicaAt

LEMMA ServerGrows ==
    ASSUME NEW h, NEW g, Grows(h, g), NEW q, PositionOK(h, q), ServerAt(h, q),
           srv' = srv, version'.uuid = version.uuid \/ ~WantsChangeset
    PROVE  ServerAt(g, q)'
<1>1. srv' = srv OBVIOUS
<1>2. srv.db.uuid \in Uuids' /\ srv.db.rev \in 0..g.top[srv.db.uuid]
  BY GrowsTop DEF ServerAt
<1>3. (WantsChangeset)' = WantsChangeset BY <1>1 DEF WantsChangeset, UpToDate
<1>4. q.seen <= h.top[q.uuid] + 1 => q.seen <= g.top[q.uuid] + 1
  <2>1. q.uuid \in Uuids /\ q.seen \in Nat BY DEF PositionOK, Positions
  <2> QED BY <2>1, GrowsTop
<1>5. WantsChangeset' => srv'.start_uuid = version'.uuid
  BY <1>1, <1>3 DEF ServerAt
<1> QED BY <1>1, <1>2, <1>4, <1>5 DEF ServerAt

LEMMA TrackGrows ==
    ASSUME NEW h, NEW g, Grows(h, g), NEW p, Track(h, p), chan' = chan, r'.goal = r.goal
    PROVE  Track(g, p)'
<1>1. \A i \in 1..Len(p) : PositionOK(h, p[i]) /\ PositionOK(g, p[i])'
  BY PositionGrows DEF Track
<1>2. ASSUME NEW i \in 1..Len(chan)
      PROVE  Link(g, p[i], chan[i], p[i + 1])'
  <2>1. Len(p) = Len(chan) + 1 /\ Len(chan) \in Nat BY SeqAppend DEF Track
  <2>2. i \in 1..Len(p) /\ i + 1 \in 1..Len(p) BY <2>1
  <2>3. Link(h, p[i], chan[i], p[i + 1]) BY DEF Track
  <2>4. PositionOK(h, p[i]) /\ PositionOK(h, p[i + 1]) BY <1>1, <2>2
  <2> QED BY <2>3, <2>4, LinkGrows
<1> QED BY <1>1, <1>2 DEF Track

LEMMA ConversingGrows ==
    ASSUME NEW h, NEW g, Grows(h, g), NEW p, Conversing(h, p), IsReplica,
           UNCHANGED <<server, replica>>,
           version.rev \in Nat, version'.rev \in Nat, NotBefore(version', version),
           version'.uuid = version.uuid \/ ~WantsChangeset
    PROVE  Conversing(g, p)'
<1>1. UNCHANGED server /\ UNCHANGED replica OBVIOUS
<1>2. r' = r /\ srv' = srv /\ chan' = chan BY DEF server, replica
<1>3. Track(h, p) /\ ReplicaAt(h, p[1]) BY DEF Conversing
<1>4. 1 \in 1..Len(p) /\ Len(p) \in 1..Len(p) BY <1>3, SeqAppend DEF Track
<1>5. PositionOK(h, p[1]) /\ PositionOK(h, p[Len(p)]) BY <1>3, <1>4 DEF Track
<1>6. Track(g, p)' BY <1>2, <1>3, TrackGrows
<1>7. ReplicaAt(g, p[1])' BY <1>1, <1>3, <1>5, ReplicaGrows
<1>8. srv.on => ServerAt(g, p[Len(p)])'
  BY <1>2, <1>5, ServerGrows DEF Conversing
<1>9. ~srv.on => NoServerAt(p[Len(p)])' BY <1>2 DEF Conversing, NoServerAt
<1>10. NotBefore(version', r'.goal)
  <2>1. NotBefore(version, r.goal) BY DEF Conversing
  <2>2. version.uuid \in Nat /\ version'.uuid \in Nat BY DEF Grows
  <2> QED BY <1>2, <2>1, <2>2 DEF NotBefore, IsReplica
<1> QED BY <1>2, <1>6, <1>7, <1>8, <1>9, <1>10 DEF Conversing

-----------------------------------------------------------------------------
(* The master's steps.                                                     *)

(* A step of the master alone preserves the invariant if its own files     *)
(* stay right.                                                             *)
LEMMA MasterMoves ==
    ASSUME NEW h, NEW g, NEW p, PInv(h, p), Grows(h, g), MasterOK(g)',
           UNCHANGED <<server, replica>>, NotBefore(version', version),
           version'.uuid = version.uuid \/ ~WantsChangeset
    PROVE  PInv(g, p)'
<1>1. r' = r /\ srv' = srv /\ chan' = chan /\ UNCHANGED replica
  BY DEF server, replica
<1>2. HistoryOK(g)' BY DEF Grows
<1>3. LiveOK(g)' BY <1>1, LiveGrows DEF PInv
<1>4. IsReplica' /\ IsServer' BY <1>1 DEF PInv, IsReplica, IsServer
<1>5. version.rev \in Nat /\ version'.rev \in Nat
  <2>1. version.uuid \in Uuids /\ version'.uuid \in Uuids' BY DEF Grows, Uuids
  <2>2. h.top[version.uuid] \in Nat /\ g.top[version'.uuid] \in Nat
    BY <2>1, <1>2 DEF PInv, HistoryOK, Lineage
  <2> QED BY <2>2 DEF PInv, MasterOK, IsMaster
<1>6. r.on => Conversing(g, p)' BY <1>5, ConversingGrows DEF PInv
<1>7. ~r.on => Idle' BY <1>1 DEF PInv, Idle
<1> QED BY <1>1, <1>2, <1>3, <1>4, <1>6, <1>7 DEF PInv

(* The history may stay as it is.                                          *)
LEMMA GrowsSame ==
    ASSUME NEW h, NEW p, PInv(h, p), version' = version
    PROVE  Grows(h, h) /\ NotBefore(version', version)
<1>1. HistoryOK(h) /\ HistoryOK(h)' BY DEF PInv, HistoryOK, Uuids
<1>2. version.uuid \in Nat BY DEF PInv, MasterOK, IsMaster
<1>3. \A u \in Uuids : h.top[u] \in Nat BY <1>1 DEF HistoryOK, Lineage
<1>4. version.uuid \in Uuids BY <1>2 DEF Uuids
<1>5. version.rev \in Nat BY <1>3, <1>4 DEF PInv, MasterOK, IsMaster
<1>6. NotBefore(version', version) BY <1>2, <1>5 DEF NotBefore
<1> QED BY <1>1, <1>2, <1>3, <1>6 DEF Grows

(* Dropping the transaction in progress leaves the files right.            *)
LEMMA TransactionDropped ==
    ASSUME NEW h, NEW ver, NEW data, NEW wrote, NEW stored, NEW at,
           IsMaster(h, ver, data, wrote, stored, at)
    PROVE  IsMaster(h, ver, data, <<>>, stored, "idle")
<1>1. DOMAIN <<>> = {} OBVIOUS
<1> QED BY <1>1 DEF IsMaster

(* A block that a transaction writes is in no tree, so no reader of a tree *)
(* sees it change.                                                         *)
LEMMA WriteBlockInv ==
    ASSUME NEW h, NEW p, PInv(h, p), NEW b \in Block, write_block(b)
    PROVE  PInv(h, p)'
<1>1. /\ stage = "idle" /\ b \notin DOMAIN version.tree
      /\ b \notin DOMAIN building
      /\ disk' = [disk EXCEPT ![b] = txn]
      /\ building' = Over([c \in {b} |-> txn], building)
      /\ version' = version /\ changes' = changes /\ stage' = stage
      /\ UNCHANGED <<server, replica>>
  BY DEF write_block
<1>2. MasterOK(h) BY DEF PInv
<1>3. DOMAIN building' = DOMAIN building \cup {b} /\ building'[b] = txn
  BY <1>1 DEF Over
<1>4. \A c \in DOMAIN building : building'[c] = building[c] BY <1>1 DEF Over
<1>5. DOMAIN disk' = Block /\ disk'[b] = txn /\ \A c \in Block \ {b} : disk'[c] = disk[c]
  BY <1>1, <1>2 DEF MasterOK, IsMaster
<1>6. DOMAIN version.tree \subseteq Block
  <2>1. version.uuid \in Uuids BY <1>2 DEF MasterOK, IsMaster, Uuids
  <2>2. Lineage(h.top[version.uuid], h.tree[version.uuid], h.wrote[version.uuid])
    BY <2>1 DEF PInv, HistoryOK
  <2>3. /\ version.rev = h.top[version.uuid]
        /\ version.tree = h.tree[version.uuid][version.rev]
    BY <1>2 DEF MasterOK, IsMaster
  <2>4. h.top[version.uuid] \in 0..h.top[version.uuid] BY <2>2 DEF Lineage
  <2> QED BY <2>2, <2>3, <2>4 DEF Lineage
<1>7. \A c \in DOMAIN version'.tree : disk'[c] = version'.tree[c]
  <2>1. \A c \in DOMAIN version.tree : disk[c] = version.tree[c]
    BY <1>2 DEF MasterOK, IsMaster
  <2> QED BY <1>1, <1>5, <1>6, <2>1
<1>8. \A c \in DOMAIN building' : disk'[c] = building'[c]
  <2>1. \A c \in DOMAIN building : c \in Block /\ disk[c] = building[c]
    BY <1>2 DEF MasterOK, IsMaster
  <2> QED BY <1>1, <1>3, <1>4, <1>5, <2>1
<1>9. DOMAIN building' \subseteq Block /\ DOMAIN building' \cap DOMAIN version.tree = {}
  BY <1>1, <1>2, <1>3 DEF MasterOK, IsMaster
<1>10. MasterOK(h)'
  <2>1. stage' = "idle" BY <1>1
  <2> HIDE DEF Block
  <2> QED
    BY <1>1, <1>2, <1>5, <1>7, <1>8, <1>9, <2>1 DEF MasterOK, IsMaster
<1> QED BY <1>1, <1>10, GrowsSame, MasterMoves

(* The writer is killed.                                                   *)
LEMMA KilledInv ==
    ASSUME NEW h, NEW p, PInv(h, p), killed
    PROVE  PInv(h, p)'
<1>1. /\ stage' = "idle" /\ building' = <<>> /\ UNCHANGED <<version, disk, changes>>
      /\ UNCHANGED <<server, replica>>
  BY DEF killed
<1>2. MasterOK(h) BY DEF PInv
<1>3. IsMaster(h, version, disk, <<>>, changes, "idle")
  BY <1>2, TransactionDropped DEF MasterOK
<1>4. MasterOK(h)' BY <1>1, <1>3 DEF MasterOK
<1> QED BY <1>1, <1>4, GrowsSame, MasterMoves

(* The changeset written after a commit is the one of the history; older   *)
(* ones go.                                                                *)
LEMMA StoreChangesetInv ==
    ASSUME NEW h, NEW p, PInv(h, p), NEW max, store_changeset(max)
    PROVE  PInv(h, p)'
<1> DEFINE all == Over([n \in {version.rev - 1} |-> Changeset], changes)
<1>1. /\ stage = "renamed" /\ stage' = "idle" /\ building' = <<>>
      /\ version' = version /\ disk' = disk
      /\ UNCHANGED <<server, replica>>
      /\ changes' = IF max = 0 THEN changes
                    ELSE Restrict(all, {n \in DOMAIN all : n >= version.rev - max})
  BY DEF store_changeset
<1>2. MasterOK(h) BY DEF PInv
<1>3. version.rev \in Nat \ {0}
  <2>1. version.uuid \in Uuids BY <1>2 DEF MasterOK, IsMaster, Uuids
  <2>2. h.top[version.uuid] \in Nat BY <2>1 DEF PInv, HistoryOK, Lineage
  <2> QED BY <1>1, <1>2, <2>2 DEF MasterOK, IsMaster
<1>4. ChangesetOK(h, version.uuid, version.rev - 1, Changeset)
  <2>1. version.rev - 1 + 1 = version.rev BY <1>3
  <2>2. version.rev <= h.top[version.uuid] BY <1>2, <1>3 DEF MasterOK, IsMaster
  <2> QED
    BY <1>1, <1>2, <2>1, <2>2 DEF MasterOK, IsMaster, ChangesetOK, Changeset
<1>5. ASSUME NEW n \in DOMAIN changes'
      PROVE  n \in Nat /\ ChangesetOK(h, version.uuid, n, changes'[n])
  <2>1. CASE max = 0 BY <1>1, <1>2, <2>1 DEF MasterOK, IsMaster
  <2>2. CASE max # 0
    <3>1. n \in DOMAIN all /\ changes'[n] = all[n] BY <1>1, <2>2 DEF Restrict
    <3>2. CASE n = version.rev - 1
      <4>1. all[n] = Changeset BY <3>2 DEF Over
      <4> QED BY <1>3, <1>4, <3>1, <3>2, <4>1
    <3>3. CASE n # version.rev - 1
      <4>1. n \in DOMAIN changes /\ all[n] = changes[n] BY <3>1, <3>3 DEF Over
      <4> QED BY <1>2, <3>1, <4>1 DEF MasterOK, IsMaster
    <3> QED BY <3>2, <3>3
  <2> QED BY <2>1, <2>2
<1>6. MasterOK(h)'
  <2>1. \A n \in DOMAIN changes' :
           n \in Nat /\ ChangesetOK(h, version'.uuid, n, changes'[n])
    BY <1>1, <1>5
  <2>2. /\ stage' = "idle" /\ building' = <<>> /\ version' = version /\ disk' = disk
        /\ DOMAIN building' = {}
    BY <1>1
  <2> QED BY <1>2, <2>1, <2>2 DEF MasterOK, IsMaster
<1> QED BY <1>1, <1>6, GrowsSame, MasterMoves

(* One more revision.                                                      *)
LEMMA LineageGrows ==
    ASSUME NEW top, NEW tree, NEW wrote, NEW tree2, NEW wrote2,
           Lineage(top, tree, wrote),
           \A n \in 0..top : tree2[n] = tree[n],
           \A n \in 1..top : wrote2[n] = wrote[n],
           Committed(tree[top], tree2[top + 1], wrote2[top + 1])
    PROVE  Lineage(top + 1, tree2, wrote2)
<1>0. top \in Nat BY DEF Lineage
<1>1. \A n \in 0..top + 1 : DOMAIN tree2[n] \subseteq Block
  <2>1. \A n \in 0..top + 1 : n \in 0..top \/ n = top + 1 BY <1>0
  <2> QED BY <2>1 DEF Lineage, Committed
<1>2. ASSUME NEW n \in 1..top + 1, NEW b \in DOMAIN wrote2[n]
      PROVE  b \in Block /\ b \notin DOMAIN tree2[n - 1]
  <2>1. CASE n = top + 1
    <3>1. n - 1 = top /\ tree2[top] = tree[top] BY <1>0, <2>1
    <3> QED BY <2>1, <3>1 DEF Committed
  <2>2. CASE n \in 1..top
    <3>1. tree2[n - 1] = tree[n - 1] /\ wrote2[n] = wrote[n] BY <1>0, <2>2
    <3> QED BY <2>2, <3>1 DEF Lineage
  <2> QED BY <1>0, <2>1, <2>2
<1>3. ASSUME NEW n \in 1..top + 1, NEW b \in DOMAIN tree2[n] \cap DOMAIN wrote2[n]
      PROVE  tree2[n][b] = wrote2[n][b]
  <2>1. CASE n = top + 1 BY <2>1 DEF Committed
  <2>2. CASE n \in 1..top
    <3>1. tree2[n] = tree[n] /\ wrote2[n] = wrote[n] BY <1>0, <2>2
    <3> QED BY <2>2, <3>1 DEF Lineage
  <2> QED BY <1>0, <2>1, <2>2
<1>4. ASSUME NEW n \in 0..top, NEW m \in 0..n, NEW b \in DOMAIN tree[n]
      PROVE  \/ \E k \in m + 1..n : b \in DOMAIN wrote2[k]
             \/ b \in DOMAIN tree2[m] /\ tree2[m][b] = tree[n][b]
  <2>1. \/ \E k \in m + 1..n : b \in DOMAIN wrote[k]
        \/ b \in DOMAIN tree[m] /\ tree[m][b] = tree[n][b]
    BY DEF Lineage
  <2>2. m \in 0..top /\ m + 1..n \subseteq 1..top BY <1>0
  <2> QED BY <2>1, <2>2
<1>5. ASSUME NEW n \in 0..top + 1, NEW m \in 0..n, NEW b \in DOMAIN tree2[n]
      PROVE  \/ \E k \in m + 1..n : b \in DOMAIN wrote2[k]
             \/ b \in DOMAIN tree2[m] /\ tree2[m][b] = tree2[n][b]
  <2>1. CASE n \in 0..top
    <3>1. tree2[n] = tree[n] BY <2>1
    <3> QED BY <2>1, <3>1, <1>4
  <2>2. CASE n = top + 1 /\ m = n BY <2>2
  <2>3. CASE n = top + 1 /\ m # n /\ b \in DOMAIN wrote2[n]
    <3>1. n \in m + 1..n BY <1>0, <2>3
    <3> QED BY <2>3, <3>1
  <2>4. CASE n = top + 1 /\ m # n /\ b \notin DOMAIN wrote2[n]
    <3>1. b \in DOMAIN tree[top] /\ tree2[n][b] = tree[top][b]
      BY <2>4 DEF Committed
    <3>2. top \in 0..top /\ m \in 0..top BY <1>0, <2>4
    <3>3. \/ \E k \in m + 1..top : b \in DOMAIN wrote2[k]
          \/ b \in DOMAIN tree2[m] /\ tree2[m][b] = tree[top][b]
      BY <1>4, <3>1, <3>2
    <3>4. m + 1..top \subseteq m + 1..n BY <1>0, <2>4
    <3> QED BY <3>1, <3>3, <3>4
  <2> QED BY <1>0, <2>1, <2>2, <2>3, <2>4
<1>6. top + 1 \in Nat BY <1>0
<1> QED BY <1>1, <1>2, <1>3, <1>5, <1>6 DEF Lineage

(* g is h with revision k, of tree t and written blocks w, as u's last.    *)
Extension(h, u, k, t, w, g) ==
    /\ g.top[u] = k /\ g.tree[u][k] = t /\ g.wrote[u][k] = w
    /\ \A n \in Nat \ {k} : g.tree[u][n] = h.tree[u][n] /\ g.wrote[u][n] = h.wrote[u][n]
    /\ \A v \in Nat \ {u} : /\ g.top[v] = h.top[v] /\ g.tree[v] = h.tree[v]
                             /\ g.wrote[v] = h.wrote[v]

(* There is such a history.                                                *)
LEMMA HistoryExtended ==
    ASSUME NEW h, NEW u \in Nat, NEW k \in Nat, NEW t, NEW w
    PROVE  \E g : Extension(h, u, k, t, w, g)
<1> DEFINE With(f, x) == [v \in Nat |-> IF v = u THEN x ELSE f[v]]
           tree == [n \in Nat |-> IF n = k THEN t ELSE h.tree[u][n]]
           wrote == [n \in Nat |-> IF n = k THEN w ELSE h.wrote[u][n]]
           g == [top |-> With(h.top, k), tree |-> With(h.tree, tree), wrote |-> With(h.wrote, wrote)]
<1>1. tree[k] = t /\ \A n \in Nat \ {k} : tree[n] = h.tree[u][n] OBVIOUS
<1>2. wrote[k] = w /\ \A n \in Nat \ {k} : wrote[n] = h.wrote[u][n] OBVIOUS
<1> HIDE DEF tree, wrote
<1>3. /\ g.top[u] = k /\ g.tree[u] = tree /\ g.wrote[u] = wrote
      /\ \A v \in Nat \ {u} : /\ g.top[v] = h.top[v] /\ g.tree[v] = h.tree[v]
                               /\ g.wrote[v] = h.wrote[v]
  OBVIOUS
<1> HIDE DEF g
<1>4. Extension(h, u, k, t, w, g) BY <1>1, <1>2, <1>3 DEF Extension
<1> QED BY <1>4

(* commit adds a revision to the history.                                  *)
LEMMA CommitInv ==
    ASSUME NEW h, NEW p, PInv(h, p), NEW keep \in SUBSET DOMAIN version.tree, commit(keep)
    PROVE  \E g : PInv(g, p)'
<1> DEFINE u == version.uuid
           t == version'.tree
<1>1. /\ stage = "idle" /\ stage' = "renamed"
      /\ version' = [version EXCEPT !.rev = @ + 1, !.tree = Over(building, Restrict(@, keep))]
      /\ UNCHANGED <<disk, building, changes>> /\ UNCHANGED <<server, replica>>
  BY DEF commit
<1>2. MasterOK(h) /\ HistoryOK(h) BY DEF PInv
<1>3. u \in Nat \ {0} /\ u \in Uuids /\ version.rev = h.top[u]
  BY <1>2 DEF MasterOK, IsMaster, Uuids
<1>4. Lineage(h.top[u], h.tree[u], h.wrote[u]) /\ version.rev \in Nat
  BY <1>2, <1>3 DEF HistoryOK, Lineage
<1>5. /\ version'.uuid = u /\ version'.rev = version.rev + 1
      /\ t = Over(building, Restrict(version.tree, keep))
      /\ version' = [uuid |-> version'.uuid, rev |-> version'.rev, tree |-> version'.tree]
  BY <1>1, <1>2 DEF MasterOK, IsMaster
<1>6. DOMAIN t = DOMAIN building \cup keep BY <1>5 DEF Over, Restrict
<1>7. \A b \in DOMAIN building : t[b] = building[b] BY <1>5 DEF Over
<1>8. \A b \in keep \ DOMAIN building : t[b] = version.tree[b]
  BY <1>5 DEF Over, Restrict
<1> HIDE DEF t
<1>9. PICK g : Extension(h, u, version.rev + 1, t, building, g)
  <2>1. u \in Nat /\ version.rev + 1 \in Nat BY <1>3, <1>4
  <2> HIDE DEF u
  <2> QED BY <2>1, HistoryExtended
<1>10. DOMAIN version.tree \subseteq Block /\ DOMAIN building \subseteq Block
  <2>1. version.rev \in 0..h.top[u] BY <1>3, <1>4
  <2>2. DOMAIN h.tree[u][version.rev] \subseteq Block BY <1>4, <2>1 DEF Lineage
  <2> QED BY <1>2, <2>2 DEF MasterOK, IsMaster
<1>11. Lineage(g.top[u], g.tree[u], g.wrote[u])
  <2>1. \A n \in 0..h.top[u] : g.tree[u][n] = h.tree[u][n]
    BY <1>3, <1>4, <1>9 DEF Extension
  <2>2. \A n \in 1..h.top[u] : g.wrote[u][n] = h.wrote[u][n]
    BY <1>3, <1>4, <1>9 DEF Extension
  <2>3. g.tree[u][h.top[u] + 1] = t /\ g.wrote[u][h.top[u] + 1] = building
    BY <1>3, <1>4, <1>9 DEF Extension
  <2>4. h.tree[u][h.top[u]] = version.tree BY <1>2, <1>3 DEF MasterOK, IsMaster
  <2>5. \A b \in DOMAIN building : b \in Block /\ b \notin DOMAIN version.tree
    <3>1. DOMAIN building \subseteq Block /\ DOMAIN building \cap DOMAIN version.tree = {}
      BY <1>1, <1>2 DEF MasterOK, IsMaster
    <3> QED BY <3>1
  <2>6. \A b \in DOMAIN t : IF b \in DOMAIN building THEN t[b] = building[b]
                            ELSE b \in DOMAIN version.tree /\ t[b] = version.tree[b]
    BY <1>6, <1>7, <1>8
  <2>7. DOMAIN t \subseteq Block BY <1>6, <1>10
  <2>8. Lineage(h.top[u] + 1, g.tree[u], g.wrote[u])
    <3>1. Committed(version.tree, t, building)
      BY <2>5, <2>6, <2>7 DEF Committed
    <3>2. Committed(h.tree[u][h.top[u]], g.tree[u][h.top[u] + 1], g.wrote[u][h.top[u] + 1])
      BY <2>3, <2>4, <3>1
    <3> HIDE DEF u
    <3> QED BY <1>4, <2>1, <2>2, <3>2, LineageGrows
  <2> QED BY <1>3, <1>9, <2>8 DEF Extension
<1>12. HistoryOK(g)'
  <2> SUFFICES ASSUME NEW v \in Uuids, v # u PROVE Lineage(g.top[v], g.tree[v], g.wrote[v])
    BY <1>5, <1>11 DEF HistoryOK, Uuids
  <2>1. v \in Nat BY DEF Uuids
  <2>2. Lineage(h.top[v], h.tree[v], h.wrote[v]) BY <1>2 DEF HistoryOK
  <2>3. g.top[v] = h.top[v] /\ g.tree[v] = h.tree[v] /\ g.wrote[v] = h.wrote[v]
    BY <1>9, <2>1 DEF Extension
  <2> QED BY <2>2, <2>3
<1>13. Grows(h, g)
  <2>1. ASSUME NEW v \in Uuids
        PROVE  /\ h.top[v] <= g.top[v]
               /\ \A n \in 0..h.top[v] : g.tree[v][n] = h.tree[v][n]
               /\ \A n \in 1..h.top[v] : g.wrote[v][n] = h.wrote[v][n]
               /\ v # version'.uuid => g.top[v] = h.top[v]
    <3>1. v \in Nat /\ h.top[v] \in Nat BY <1>2 DEF Uuids, HistoryOK, Lineage
    <3> QED BY <1>3, <1>4, <1>5, <1>9, <3>1 DEF Extension
  <2> QED BY <1>2, <1>3, <1>5, <1>12, <2>1 DEF Grows
<1>14. MasterOK(g)'
  <2>1. g.top[u] = version'.rev /\ g.tree[u][version'.rev] = t /\ g.wrote[u][version'.rev] = building
    BY <1>3, <1>4, <1>5, <1>9 DEF Extension
  <2>2. \A b \in DOMAIN t : disk[b] = t[b]
    <3>1. /\ \A b \in DOMAIN version.tree : disk[b] = version.tree[b]
          /\ \A b \in DOMAIN building : disk[b] = building[b]
      BY <1>2 DEF MasterOK, IsMaster
    <3>2. keep \subseteq DOMAIN version.tree OBVIOUS
    <3> QED BY <1>6, <1>7, <1>8, <3>1, <3>2
  <2>3. \A n \in DOMAIN changes : n \in Nat /\ ChangesetOK(g, u, n, changes[n])
    BY <1>2, <1>3, <1>13, ChangesetGrows DEF MasterOK, IsMaster
  <2>4. /\ version' = [uuid |-> version'.uuid, rev |-> version'.rev, tree |-> version'.tree]
        /\ version'.uuid \in Nat \ {0} /\ version'.rev = g.top[version'.uuid]
        /\ version'.tree = g.tree[version'.uuid][version'.rev]
    BY <1>3, <1>5, <2>1 DEF t
  <2>5. /\ DOMAIN disk' = Block /\ DOMAIN building' \subseteq Block
        /\ \A b \in DOMAIN version'.tree : disk'[b] = version'.tree[b]
        /\ \A b \in DOMAIN building' : disk'[b] = building'[b]
    BY <1>1, <1>2, <2>2 DEF MasterOK, IsMaster, t
  <2>6. version'.rev >= 1 /\ g.wrote[version'.uuid][version'.rev] = building'
    BY <1>1, <1>3, <1>4, <1>5, <2>1
  <2>7. \A n \in DOMAIN changes' : n \in Nat /\ ChangesetOK(g, version'.uuid, n, changes'[n])
    BY <1>1, <1>5, <2>3
  <2>8. stage' = "renamed" BY <1>1
  <2> QED BY <2>4, <2>5, <2>6, <2>7, <2>8 DEF MasterOK, IsMaster
<1>15. NotBefore(version', version) BY <1>4, <1>5 DEF NotBefore
<1>16. PInv(g, p)' BY <1>1, <1>5, <1>13, <1>14, <1>15, MasterMoves
<1> QED BY <1>16

(* Another database begins a lineage of its own.                           *)
LEMMA ReplaceDirectoryInv ==
    ASSUME NEW h, NEW p, PInv(h, p), replace_directory, ~WantsChangeset
    PROVE  \E g : PInv(g, p)'
<1> DEFINE u == version.uuid + 1
<1>1. /\ version' = NewVersion(u) /\ disk' = Blank /\ building' = <<>>
      /\ stage' = "idle" /\ changes' = <<>> /\ UNCHANGED <<server, replica>>
  BY DEF replace_directory, NewDatabase
<1>2. MasterOK(h) /\ HistoryOK(h) BY DEF PInv
<1>3. version.uuid \in Nat /\ u \in Nat \ {0} BY <1>2 DEF MasterOK, IsMaster
<1>4. /\ version'.uuid = u /\ version'.rev = 0 /\ version'.tree = <<>>
      /\ version' = [uuid |-> version'.uuid, rev |-> version'.rev, tree |-> version'.tree]
  BY <1>1 DEF NewVersion
<1>5. PICK g : Extension(h, u, 0, <<>>, <<>>, g)
  BY <1>3, HistoryExtended
<1>a. g.top[u] = 0 /\ g.tree[u][0] = <<>> BY <1>3, <1>5 DEF Extension
<1>b. \A v \in Uuids : /\ v \in Nat /\ v # u /\ g.top[v] = h.top[v]
                       /\ g.tree[v] = h.tree[v] /\ g.wrote[v] = h.wrote[v]
  BY <1>3, <1>5 DEF Extension, Uuids
<1>6. HistoryOK(g)'
  <2> SUFFICES ASSUME NEW v \in Uuids' PROVE Lineage(g.top[v], g.tree[v], g.wrote[v])
    BY DEF HistoryOK
  <2>1. v \in Uuids \/ v = u BY <1>3, <1>4 DEF Uuids
  <2>2. CASE v \in Uuids
    <3>1. Lineage(h.top[v], h.tree[v], h.wrote[v]) BY <1>2, <2>2 DEF HistoryOK
    <3> QED BY <1>b, <2>2, <3>1
  <2>3. CASE v = u
    <3>1. DOMAIN g.tree[u][0] = {} BY <1>a
    <3> QED BY <1>a, <2>3, <3>1 DEF Lineage
  <2> QED BY <2>1, <2>2, <2>3
<1>7. Grows(h, g)
  <2>1. \A v \in Uuids : h.top[v] \in Nat BY <1>2 DEF HistoryOK, Lineage
  <2> QED BY <1>2, <1>3, <1>4, <1>b, <1>6, <2>1 DEF Grows
<1>8. MasterOK(g)'
  <2>1. DOMAIN version'.tree = {} /\ DOMAIN building' = {} /\ DOMAIN changes' = {}
        /\ DOMAIN disk' = Block
    BY <1>1, <1>4 DEF Blank
  <2> QED BY <1>1, <1>3, <1>4, <1>a, <2>1 DEF MasterOK, IsMaster
<1>9. NotBefore(version', version) BY <1>3, <1>4 DEF NotBefore
<1>10. PInv(g, p)' BY <1>1, <1>7, <1>8, <1>9, MasterMoves
<1> QED BY <1>10

-----------------------------------------------------------------------------
(* Lemmas on the server's steps.                                           *)

(* A step of the server alone preserves the invariant if it ends at a      *)
(* position of its own.                                                    *)
LEMMA ServerMoves ==
    ASSUME NEW h, NEW p, NEW s, PInv(h, p), r.on, ServerOnly, IsServer',
           Track(h, s)', s[1] = p[1],
           srv'.on => ServerAt(h, s[Len(s)])', ~srv'.on => NoServerAt(s[Len(s)])'
    PROVE  PInv(h, s)'
<1>1. UNCHANGED <<version, disk, building, changes, stage, txn>> /\ UNCHANGED replica
  BY DEF ServerOnly, master
<1>2. Grows(h, h) BY <1>1, GrowsSame
<1>3. r' = r BY <1>1 DEF replica
<1>4. HistoryOK(h)' BY <1>2 DEF Grows
<1>5. MasterOK(h)' BY <1>1 DEF PInv, MasterOK
<1>6. LiveOK(h)' BY <1>1, <1>2, LiveGrows DEF PInv
<1>7. IsReplica' BY <1>3 DEF PInv, IsReplica
<1>8. Conversing(h, p) BY DEF PInv
<1>9. ReplicaAt(h, s[1])'
  <2>1. Track(h, p) /\ ReplicaAt(h, p[1]) BY <1>8 DEF Conversing
  <2>2. 1 \in 1..Len(p) BY <2>1, SeqAppend DEF Track
  <2>3. PositionOK(h, p[1]) BY <2>1, <2>2 DEF Track
  <2> QED BY <1>1, <1>2, <2>1, <2>3, ReplicaGrows
<1>10. NotBefore(version, r.goal)'
  BY <1>1, <1>3, <1>8 DEF Conversing, NotBefore
<1>11. Conversing(h, s)' BY <1>9, <1>10 DEF Conversing
<1> QED BY <1>3, <1>4, <1>5, <1>6, <1>7, <1>11 DEF PInv

(* A message sent adds a position to the track.                            *)
LEMMA SendTrack ==
    ASSUME NEW h, NEW p, NEW m, NEW q, PInv(h, p), r.on, ServerOnly, Send(m),
           PositionOK(h, q), Link(h, p[Len(p)], m, q)
    PROVE  /\ Track(h, Append(p, q))'
           /\ Append(p, q)[1] = p[1]
           /\ Append(p, q)[Len(Append(p, q))] = q
<1>1. chan' = Append(chan, m) /\ version' = version /\ r' = r
  BY DEF Send, ServerOnly, master, replica
<1>2. Track(h, p) BY DEF PInv, Conversing
<1>3. /\ AnySeq(chan') /\ Len(chan) \in Nat /\ Len(chan') = Len(chan) + 1
      /\ \A i \in 1..Len(chan) : chan'[i] = chan[i]
      /\ chan'[Len(chan) + 1] = m
  BY <1>1, <1>2, SeqAppend DEF Track
<1> DEFINE s == Append(p, q)
<1>4. /\ AnySeq(s) /\ Len(p) = Len(chan) + 1 /\ Len(s) = Len(p) + 1
      /\ \A i \in 1..Len(p) : s[i] = p[i]
      /\ s[Len(p) + 1] = q
  BY <1>2, SeqAppend DEF Track
<1> HIDE DEF s
<1>5. Grows(h, h) BY <1>1, GrowsSame
<1>6. \A i \in 1..Len(s) : PositionOK(h, s[i])
  <2>1. \A i \in 1..Len(s) : i \in 1..Len(p) \/ i = Len(p) + 1 BY <1>3, <1>4
  <2> QED BY <1>2, <1>4, <2>1 DEF Track
<1>7. ASSUME NEW i \in 1..Len(chan') PROVE Link(h, s[i], chan'[i], s[i + 1])
  <2>1. CASE i \in 1..Len(chan)
    <3>1. i \in 1..Len(p) /\ i + 1 \in 1..Len(p) BY <1>3, <1>4, <2>1
    <3>2. s[i] = p[i] /\ s[i + 1] = p[i + 1] /\ chan'[i] = chan[i]
      BY <1>3, <1>4, <2>1, <3>1
    <3> QED BY <1>2, <2>1, <3>2 DEF Track
  <2>2. CASE i = Len(chan) + 1
    <3>1. Len(p) \in 1..Len(p) /\ i = Len(p) BY <1>3, <1>4, <2>2
    <3>2. s[i] = p[Len(p)] /\ s[i + 1] = q /\ chan'[i] = m
      BY <1>3, <1>4, <2>2, <3>1
    <3> QED BY <3>2
  <2> QED BY <1>3, <2>1, <2>2
<1>8. \A i \in 1..Len(s) : PositionOK(h, s[i])' BY <1>5, <1>6, PositionGrows
<1>9. ASSUME NEW i \in 1..Len(chan') PROVE Link(h, s[i], chan[i], s[i + 1])'
  <2>1. i \in 1..Len(s) /\ i + 1 \in 1..Len(s) BY <1>3, <1>4
  <2>2. PositionOK(h, s[i]) /\ PositionOK(h, s[i + 1]) BY <1>6, <2>1
  <2>3. PICK x : x = chan'[i] OBVIOUS
  <2>4. Link(h, s[i], x, s[i + 1]) BY <1>7, <2>3
  <2>5. Link(h, s[i], x, s[i + 1])' BY <1>1, <1>5, <2>2, <2>4, LinkGrows
  <2> QED BY <2>3, <2>5
<1>10. Track(h, s)' BY <1>3, <1>4, <1>8, <1>9 DEF Track
<1>11. s[1] = p[1] /\ s[Len(s)] = q BY <1>3, <1>4
<1> QED BY <1>10, <1>11 DEF s

(* A step of the server that sends a message.                              *)
LEMMA SendInv ==
    ASSUME NEW h, NEW p, NEW m, NEW q, PInv(h, p), r.on, ServerOnly, Send(m),
           PositionOK(h, q), Link(h, p[Len(p)], m, q), IsServer',
           srv'.on => ServerAt(h, q)', srv'.on \/ q.at = "over"
    PROVE  PInv(h, Append(p, q))'
<1>1. PICK s : s = Append(p, q) OBVIOUS
<1>2. Track(h, s)' /\ s[1] = p[1] /\ s[Len(s)] = q BY <1>1, SendTrack
<1>3. srv'.on => ServerAt(h, s[Len(s)])' BY <1>2
<1>4. ~srv'.on => NoServerAt(s[Len(s)])' BY <1>2 DEF NoServerAt
<1>5. PInv(h, s)' BY <1>2, <1>3, <1>4, ServerMoves
<1> QED BY <1>1, <1>5

(* A step of the server that sends none.                                   *)
LEMMA QuietInv ==
    ASSUME NEW h, NEW p, PInv(h, p), r.on, ServerOnly, chan' = chan, IsServer',
           srv'.on, ServerAt(h, p[Len(p)])'
    PROVE  PInv(h, p)'
<1>1. version' = version /\ r' = r BY DEF ServerOnly, master, replica
<1>2. Grows(h, h) BY <1>1, GrowsSame
<1>3. Track(h, p) BY DEF PInv, Conversing
<1>4. Track(h, p)' BY <1>1, <1>2, <1>3, TrackGrows
<1> QED BY <1>4, ServerMoves

(* Where the server is, when it may send.                                  *)
LEMMA ServerPosition ==
    ASSUME NEW h, NEW p, PInv(h, p), srv.on
    PROVE  /\ r.on /\ PositionOK(h, p[Len(p)]) /\ ServerAt(h, p[Len(p)])
           /\ version.uuid \in Nat \ {0} /\ version.uuid \in Uuids
           /\ version.rev \in Nat
           /\ version.rev = h.top[version.uuid]
           /\ \A u \in Uuids : u \in Nat /\ h.top[u] \in Nat
<1>1. r.on BY DEF PInv, Idle
<1>2. Track(h, p) /\ ServerAt(h, p[Len(p)]) BY <1>1 DEF PInv, Conversing
<1>3. Len(p) \in 1..Len(p) BY <1>2, SeqAppend DEF Track
<1>4. PositionOK(h, p[Len(p)]) BY <1>2, <1>3 DEF Track
<1>5. /\ version.uuid \in Nat \ {0} /\ version.uuid \in Uuids
      /\ version.rev = h.top[version.uuid]
  BY DEF PInv, MasterOK, IsMaster, Uuids
<1>6. \A u \in Uuids : u \in Nat /\ h.top[u] \in Nat
  BY DEF Uuids, PInv, HistoryOK, Lineage
<1> QED BY <1>1, <1>2, <1>4, <1>5, <1>6
=============================================================================
