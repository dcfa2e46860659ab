----------------------------- MODULE RemoteProofs ---------------------------
(***************************************************************************)
(* RemoteDatabase: its inductive invariant, and the proof that replies     *)
(* match their requests, that nothing unsaved is forgotten and that cached *)
(* statistics are current.                                                 *)
(***************************************************************************)
EXTENDS RemoteDatabase, SequenceTheorems, TLAPS

(* Provers for the leaves that do not name one.                            *)
USE ZenonT(8), SMTT(30)

(* A sequence of whatever it holds.                                        *)
AnySeq(q) == \E S : q \in Seq(S)

(* The messages that change the documents, and the statistics with them.   *)
Changes == {"ADDDOCUMENT", "DELETEDOCUMENT", "CANCEL"}

(* The messages that the client sends, apart from MSG_SHUTDOWN.            *)
MsgTypes == Writes \cup {"COMMIT", "CANCEL", "WRITEACCESS", "REOPEN", "UPDATE", "VALUESTATS",
                         "READ", "DOCUMENT", "TERMLIST", "POSTLIST", "QUERY", "GETMSET"}

(* The client object: the fields of RemoteDatabase, and what its stages    *)
(* say of them. It waits with no reply pending only while it reads the     *)
(* server's greeting, and an exception is never among the replies it asks  *)
(* for.                                                                    *)
IsClient ==
    /\ c = [call |-> c.call, stage |-> c.stage, then |-> c.then, need |-> c.need,
            out |-> c.out, pending |-> c.pending, cached |-> c.cached, stats |-> c.stats,
            mru |-> c.mru, uncommitted |-> c.uncommitted, state |-> c.state,
            link |-> c.link, closed |-> c.closed, matched |-> c.matched, base |-> c.base]
    /\ c.out = [type |-> c.out.type, arg |-> c.out.arg, id |-> c.out.id]
    /\ c.out.type \in MsgTypes
    /\ c.pending \in BOOLEAN
    /\ c.stage \in {"none", "send", "wait", "shutdown", "closing"}
    /\ c.call = "none" => c.stage = "none"
    /\ c.stage # "none" => c.link = "up"
    /\ c.stage = "wait" /\ ~c.pending => c.call = "open"
    /\ c.then \in {"none", "TERMLIST", "GETMSET", "WRITEACCESS"}
    /\ "EXCEPTION" \notin c.need

(* The server object has the fields of RemoteServer.                       *)
IsServer == s = [cur |-> s.cur, comm |-> s.comm, phase |-> s.phase, wdb |-> s.wdb, lost |-> s.lost]

(* Every reply in q is an exception: the server sends one that nobody      *)
(* asked for when it times out.                                            *)
Errors(q) == \A i \in 1..Len(q) : q[i].type = "EXCEPTION"

(* The channels: a request is alone on its way to the server, with at most *)
(* a MSG_SHUTDOWN behind it; while a living server has a request to read,  *)
(* nothing is on its way back and the client knows that a reply is         *)
(* pending; only the last reply to a request may be other than an          *)
(* intermediate one, until the server has gone; and a client with no reply *)
(* pending has nothing left to read.                                       *)
ChannelsOK ==
    /\ \A i \in 1..Len(toServer) : toServer[i].type \in MsgTypes \cup {"SHUTDOWN"}
    /\ \A i \in 2..Len(toServer) : toServer[i].type = "SHUTDOWN"
    /\ (\E i \in 1..Len(toServer) : toServer[i].type = "SHUTDOWN") =>
          c.stage = "closing" \/ c.link = "closed"
    /\ toServer # <<>> /\ toServer[1].type # "SHUTDOWN" =>
          Errors(toClient) /\ (Alive => c.pending /\ toClient = <<>>)
    /\ \A i, j \in 1..Len(toClient) :
          i < j /\ ~is_intermediate_reply(toClient[i].type) =>
             ~Alive /\ toClient[j].type = "EXCEPTION"
    /\ ~c.pending /\ c.stage # "wait" /\ c.link = "up" =>
          Errors(toClient) /\ (Alive => toClient = <<>>)

(* While the client waits, what it will read answers what it sent.         *)
WaitOK ==
    c.stage = "wait" =>
       /\ \A i \in 1..Len(toClient) :
             toClient[i].id = c.out.id \/ toClient[i].type = "EXCEPTION"
       /\ Alive => \A i \in 1..Len(toServer) : toServer[i] = c.out
       /\ ~c.pending =>
             \A i \in 1..Len(toClient) : ~is_intermediate_reply(toClient[i].type)

(* Without uncommitted_changes set, the server has nothing uncommitted and *)
(* no change is on its way to it; and once the reply to a MSG_COMMIT or a  *)
(* MSG_CANCEL is on its way, nothing is uncommitted.                       *)
SavedOK ==
    /\ ~c.uncommitted =>
          s.cur = s.comm /\ \A i \in 1..Len(toServer) : toServer[i].type \notin Writes
    /\ c.stage = "send" /\ c.out.type \in Writes => c.uncommitted
    /\ c.stage = "wait" /\ c.out.type \in {"COMMIT", "CANCEL"} =>
          \A i \in 1..Len(toClient) : toClient[i].type # "EXCEPTION" => s.cur = s.comm

(* These statistics are those of the database, and no change is on its     *)
(* way.                                                                    *)
Current(stats) ==
    Alive /\ ~s.lost => /\ stats = Stats(s.cur)
                        /\ \A i \in 1..Len(toServer) : toServer[i].type \notin Changes

(* What the client has cached is current; when it sends a change, it has   *)
(* dropped it; and statistics on their way to it are current.              *)
StatsOK ==
    /\ c.cached => Current(c.stats)
    /\ c.mru # NoStats => Current(c.mru)
    /\ c.stage = "send" /\ c.out.type \in Changes => ~c.cached /\ c.mru = NoStats
    /\ c.stage = "wait" /\ Alive /\ ~s.lost =>
          \A i \in 1..Len(toClient) :
             toClient[i].type \in {"UPDATE", "VALUESTATS"} => toClient[i].stats = Stats(s.cur)

(* A MSG_GETMSET reaches a living server only between the two halves of a  *)
(* query, for which the reply to the MSG_QUERY had to be read first.       *)
QueryOK ==
    /\ c.stage = "send" /\ c.out.type = "GETMSET" =>
          ~c.pending /\ (Alive => s.phase = "query")
    /\ Alive => \A i \in 1..Len(toServer) : toServer[i].type = "GETMSET" => s.phase = "query"
    /\ c.stage = "wait" /\ c.out.type = "QUERY" /\ Alive =>
          \A i \in 1..Len(toClient) : toClient[i].type # "EXCEPTION" => s.phase = "query"
    /\ c.stage \in {"send", "wait"} /\ c.then = "GETMSET" => c.out.type = "QUERY"

(* A closed object has no connection, and the server has gone too, unless  *)
(* a reply was still pending.                                              *)
ClosedOK == c.closed => c.link = "closed" /\ (c.pending \/ ~Alive)

(* The inductive invariant.                                                *)
RemoteInv ==
    /\ IsClient /\ IsServer /\ ChannelsOK /\ WaitOK /\ SavedOK /\ StatsOK /\ QueryOK /\ ClosedOK
    /\ c.matched

-----------------------------------------------------------------------------
(* The invariant, and that both channels are sequences of something.       *)
Inv == RemoteInv /\ AnySeq(toServer) /\ AnySeq(toClient)

(* Append, on a sequence of anything.                                      *)
LEMMA SeqAppend ==
    ASSUME NEW q, NEW x, AnySeq(q)
    PROVE  /\ AnySeq(Append(q, x)) /\ Len(q) \in Nat /\ Len(Append(q, x)) = Len(q) + 1
           /\ \A i \in 1..Len(q) : Append(q, x)[i] = q[i]
           /\ Append(q, x)[Len(q) + 1] = x
           /\ Append(q, x) # <<>>
<1>1. PICK S : q \in Seq(S) BY DEF AnySeq
<1>2. q \in Seq(S \cup {x}) BY <1>1
<1>3. Append(q, x) \in Seq(S \cup {x}) BY <1>2
<1> QED BY <1>1, <1>2, <1>3 DEF AnySeq

(* Head and Tail, on a sequence of anything.                               *)
LEMMA SeqTail ==
    ASSUME NEW q, AnySeq(q), q # <<>>
    PROVE  /\ AnySeq(Tail(q)) /\ Len(q) \in Nat \ {0} /\ Len(Tail(q)) = Len(q) - 1
           /\ \A i \in 1..Len(q) - 1 : Tail(q)[i] = q[i + 1]
           /\ Head(q) = q[1]
<1>1. PICK S : q \in Seq(S) BY DEF AnySeq
<1>2. Tail(q) \in Seq(S) BY <1>1
<1> QED BY <1>1, <1>2 DEF AnySeq

(* A sequence is empty when its length is 0.                               *)
LEMMA SeqLen ==
    ASSUME NEW q, AnySeq(q)
    PROVE  Len(q) \in Nat /\ (q # <<>> <=> Len(q) > 0)
  BY DEF AnySeq

(* A sequence of one element.                                              *)
LEMMA SeqOne ==
    ASSUME NEW x
    PROVE  AnySeq(<<x>>) /\ Len(<<x>>) = 1 /\ <<x>>[1] = x /\ <<>> \o <<x>> = <<x>>
<1>1. <<x>> \in Seq({x}) OBVIOUS
<1>2. <<>> \o <<x>> = <<x>> BY <1>1, ConcatEmptySeq
<1> QED BY <1>1, <1>2 DEF AnySeq

(* A sequence of two elements.                                             *)
LEMMA SeqTwo ==
    ASSUME NEW x, NEW y
    PROVE  /\ AnySeq(<<x, y>>) /\ Len(<<x, y>>) = 2 /\ <<x, y>>[1] = x /\ <<x, y>>[2] = y
           /\ <<>> \o <<x, y>> = <<x, y>>
<1>1. <<x, y>> \in Seq({x, y}) OBVIOUS
<1>2. <<>> \o <<x, y>> = <<x, y>> BY <1>1, ConcatEmptySeq
<1> QED BY <1>1, <1>2 DEF AnySeq

(* A sequence of three elements.                                           *)
LEMMA SeqThree ==
    ASSUME NEW x, NEW y, NEW z
    PROVE  /\ AnySeq(<<x, y, z>>) /\ Len(<<x, y, z>>) = 3 /\ <<x, y, z>>[1] = x
           /\ <<x, y, z>>[2] = y /\ <<x, y, z>>[3] = z
           /\ <<>> \o <<x, y, z>> = <<x, y, z>>
<1>1. <<x, y, z>> \in Seq({x, y, z}) OBVIOUS
<1>2. <<>> \o <<x, y, z>> = <<x, y, z>> BY <1>1, ConcatEmptySeq
<1> QED BY <1>1, <1>2 DEF AnySeq

(* The sequence of no elements.                                            *)
LEMMA SeqEmpty == AnySeq(<<>>) /\ Len(<<>>) = 0
<1>1. <<>> \in Seq({}) OBVIOUS
<1> QED BY <1>1 DEF AnySeq

-----------------------------------------------------------------------------
(* What the server's answer to a message has to be.                        *)
Answers(msg, replies) ==
    /\ AnySeq(replies) /\ <<>> \o replies = replies
    /\ \A i \in 1..Len(replies) : replies[i].id = msg.id
    /\ \A i \in 1..Len(replies) - 1 : is_intermediate_reply(replies[i].type)
    /\ s'.phase \in {"idle", "query"}
    /\ s' = [cur |-> s'.cur, comm |-> s'.comm, phase |-> s'.phase, wdb |-> s'.wdb,
             lost |-> s'.lost]
    /\ msg.type \notin Writes /\ s.cur = s.comm => s'.cur = s'.comm
    /\ msg.type \in {"COMMIT", "CANCEL"} =>
          \A i \in 1..Len(replies) : replies[i].type # "EXCEPTION" => s'.cur = s'.comm
    /\ msg.type = "QUERY" =>
          \A i \in 1..Len(replies) : replies[i].type # "EXCEPTION" => s'.phase = "query"
    /\ ~s'.lost => ~s.lost
    /\ ~s'.lost /\ msg.type \notin Changes => Stats(s'.cur) = Stats(s.cur)
    /\ \A i \in 1..Len(replies) :
          replies[i].type \in {"UPDATE", "VALUESTATS"} => replies[i].stats = Stats(s'.cur)

(* A server that answers as Answers says preserves the invariant.          *)
LEMMA AnswerInv ==
    ASSUME Inv, Alive, toServer # <<>>, NEW msg, msg = toServer[1], msg.type # "SHUTDOWN",
           toServer' = Tail(toServer), c' = c, NEW replies, Answer(replies),
           Answers(msg, replies)
    PROVE  Inv'
<1>1. ChannelsOK /\ WaitOK /\ SavedOK /\ StatsOK /\ QueryOK /\ ClosedOK /\ IsClient /\ c.matched
      /\ AnySeq(toServer)
  BY DEF Inv, RemoteInv
<1>2. toClient = <<>> /\ c.pending BY <1>1 DEF ChannelsOK
<1>3. toClient' = replies BY <1>2 DEF Answer, Answers
<1>4. /\ AnySeq(toServer') /\ Len(toServer) \in Nat \ {0} /\ Len(toServer') = Len(toServer) - 1
      /\ \A i \in 1..Len(toServer') : /\ i + 1 \in 2..Len(toServer)
                                      /\ toServer'[i] = toServer[i + 1]
  BY <1>1, SeqTail
<1>5. \A i \in 1..Len(toServer') : toServer'[i].type = "SHUTDOWN"
  BY <1>1, <1>4 DEF ChannelsOK
<1>6. IsClient' /\ IsServer'
  <2>1. IsServer' BY DEF IsServer, Answers
  <2> QED BY <1>1, <2>1 DEF IsClient
<1>7. AnySeq(replies) /\ Len(replies) \in Nat BY SeqLen DEF Answers
<1>8. Alive' BY DEF Alive, Answers
<1>9. ChannelsOK'
  <2>1. \A i \in 2..Len(toServer') : toServer'[i].type = "SHUTDOWN" BY <1>4, <1>5
  <2>2. (\E i \in 1..Len(toServer') : toServer'[i].type = "SHUTDOWN") =>
           c.stage = "closing" \/ c.link = "closed"
    BY <1>1, <1>4 DEF ChannelsOK
  <2>3. toServer' # <<>> => toServer'[1].type = "SHUTDOWN"
    <3>1. toServer' # <<>> => Len(toServer') \in Nat /\ Len(toServer') > 0 BY <1>4, SeqLen
    <3>2. toServer' # <<>> => 1 \in 1..Len(toServer') BY <3>1
    <3> QED BY <1>5, <3>2
  <2>4. \A i, j \in 1..Len(replies) : i < j => is_intermediate_reply(replies[i].type)
    <3>1. TAKE i, j \in 1..Len(replies)
    <3>2. i < j => i \in 1..Len(replies) - 1 BY <1>7
    <3> QED BY <3>2 DEF Answers
  <2>5. \A i \in 1..Len(toServer') : toServer'[i].type \in MsgTypes \cup {"SHUTDOWN"} BY <1>5
  <2> QED BY <1>2, <1>3, <2>5, <2>1, <2>2, <2>3, <2>4 DEF ChannelsOK
<1>10. c.stage = "wait" => msg = c.out
  BY <1>1, <1>4 DEF WaitOK
<1>11. c.stage = "wait" => \A i \in 1..Len(toServer') : toServer'[i] = c.out
  BY <1>1, <1>4 DEF WaitOK
<1>12. WaitOK' BY <1>2, <1>3, <1>10, <1>11 DEF WaitOK, Answers
<1>13. SavedOK'
  <2>1. ~c.uncommitted => s'.cur = s'.comm
    <3>1. 1 \in 1..Len(toServer) BY <1>4
    <3> QED BY <1>1, <3>1 DEF SavedOK, Answers
  <2>2. \A i \in 1..Len(toServer') : toServer'[i].type \notin Writes BY <1>5 DEF Writes
  <2>3. c.stage = "wait" /\ c.out.type \in {"COMMIT", "CANCEL"} =>
           \A i \in 1..Len(replies) : replies[i].type # "EXCEPTION" => s'.cur = s'.comm
    BY <1>10 DEF Answers
  <2> QED BY <1>1, <1>3, <2>1, <2>2, <2>3 DEF SavedOK
<1>14. StatsOK'
  <2>1. \A i \in 1..Len(toServer') : toServer'[i].type \notin Changes BY <1>5 DEF Changes
  <2>2. ASSUME NEW x, Current(x) PROVE Current(x)'
    <3>1. 1 \in 1..Len(toServer) BY <1>4
    <3> QED BY <2>1, <2>2, <3>1 DEF Current, Answers
  <2>3. c.cached => Current(c.stats)' 
    <3>1. PICK x : x = c.stats OBVIOUS
    <3>2. c.cached => Current(x)' BY <1>1, <2>2, <3>1 DEF StatsOK
    <3> QED BY <3>1, <3>2 DEF Current
  <2>4. c.mru # NoStats => Current(c.mru)'
    <3>1. PICK x : x = c.mru OBVIOUS
    <3>2. c.mru # NoStats => Current(x)' BY <1>1, <2>2, <3>1 DEF StatsOK
    <3> QED BY <3>1, <3>2 DEF Current
  <2>5. \A i \in 1..Len(replies) :
           replies[i].type \in {"UPDATE", "VALUESTATS"} => replies[i].stats = Stats(s'.cur)
    BY DEF Answers
  <2> QED BY <1>1, <1>3, <2>3, <2>4, <2>5 DEF StatsOK
<1>15. ClosedOK' BY <1>1, <1>2 DEF ClosedOK
<1>16. QueryOK' BY <1>1, <1>2, <1>3, <1>5, <1>10 DEF QueryOK, Answers
<1> QED
  BY <1>1, <1>3, <1>4, <1>6, <1>7, <1>9, <1>12, <1>13, <1>14, <1>15, <1>16 DEF Inv, RemoteInv

-----------------------------------------------------------------------------
(* A server that goes, with or without a last exception, preserves it.     *)
LEMMA GoneInv ==
    ASSUME Inv, Alive, c' = c, IsServer', ~Alive', s'.cur = s'.comm,
           toServer' = toServer \/ (toServer # <<>> /\ toServer' = Tail(toServer)),
           toClient' = toClient \/ (toServer = <<>> /\ Answer(<<Reply("EXCEPTION", 0)>>))
    PROVE  Inv'
<1>1. ChannelsOK /\ WaitOK /\ SavedOK /\ StatsOK /\ QueryOK /\ ClosedOK /\ IsClient /\ c.matched
      /\ AnySeq(toServer) /\ AnySeq(toClient) /\ Len(toClient) \in Nat
  BY SeqLen DEF Inv, RemoteInv
<1>2. /\ AnySeq(toServer')
      /\ \A i \in 2..Len(toServer') : toServer'[i].type = "SHUTDOWN"
      /\ \A i \in 1..Len(toServer') : \E k \in 1..Len(toServer) : toServer'[i] = toServer[k]
      /\ toServer' # <<>> /\ toServer'[1].type # "SHUTDOWN" => toServer' = toServer
  <2>1. CASE toServer' = toServer BY <1>1, <2>1 DEF ChannelsOK
  <2>2. CASE toServer # <<>> /\ toServer' = Tail(toServer)
    <3>1. /\ AnySeq(toServer') /\ Len(toServer) \in Nat \ {0}
          /\ Len(toServer') = Len(toServer) - 1
          /\ \A i \in 1..Len(toServer') : toServer'[i] = toServer[i + 1]
      BY <1>1, <2>2, SeqTail
    <3>2. \A i \in 1..Len(toServer') : i + 1 \in 2..Len(toServer) /\ i + 1 \in 1..Len(toServer)
      BY <3>1
    <3>3. \A i \in 1..Len(toServer') : toServer'[i].type = "SHUTDOWN"
      BY <1>1, <3>1, <3>2 DEF ChannelsOK
    <3>4. toServer' # <<>> => 1 \in 1..Len(toServer') BY <3>1, SeqLen
    <3> QED BY <3>1, <3>2, <3>3, <3>4
  <2> QED BY <2>1, <2>2
<1>3. /\ AnySeq(toClient') /\ Len(toClient') \in Nat
      /\ \A i \in 1..Len(toClient') : \/ i \in 1..Len(toClient) /\ toClient'[i] = toClient[i]
                                      \/ i = Len(toClient) + 1 /\ toClient'[i].type = "EXCEPTION"
      /\ toServer # <<>> => toClient' = toClient
  <2>1. CASE toClient' = toClient BY <1>1, <2>1
  <2>2. CASE toServer = <<>> /\ Answer(<<Reply("EXCEPTION", 0)>>)
    <3>1. PICK x : x = Reply("EXCEPTION", 0) OBVIOUS
    <3>2. x.type = "EXCEPTION" BY <3>1 DEF Reply
    <3>3. toClient' = Append(toClient, x)
      <4>1. toClient' = toClient \o <<x>> BY <2>2, <3>1 DEF Answer
      <4>2. PICK S : toClient \in Seq(S) BY <1>1 DEF AnySeq
      <4>3. toClient \in Seq(S \cup {x}) BY <4>2
      <4> QED BY <4>1, <4>3
    <3> QED BY <1>1, <2>2, <3>2, <3>3, SeqAppend
  <2> QED BY <2>1, <2>2
<1>4. IsClient' BY <1>1 DEF IsClient
<1>5. ChannelsOK'
  <2>1. toServer' # <<>> /\ toServer'[1].type # "SHUTDOWN" => Errors(toClient')
    BY <1>1, <1>2, <1>3 DEF ChannelsOK
  <2>2. \A i, j \in 1..Len(toClient') :
           i < j /\ ~is_intermediate_reply(toClient'[i].type) => toClient'[j].type = "EXCEPTION"
    BY <1>1, <1>3 DEF ChannelsOK
  <2>3. ~c.pending /\ c.stage # "wait" /\ c.link = "up" => Errors(toClient')
    BY <1>1, <1>3 DEF ChannelsOK, Errors
  <2>4. (\E i \in 1..Len(toServer') : toServer'[i].type = "SHUTDOWN") =>
           c.stage = "closing" \/ c.link = "closed"
    BY <1>1, <1>2 DEF ChannelsOK
  <2>5. \A i \in 1..Len(toServer') : toServer'[i].type \in MsgTypes \cup {"SHUTDOWN"}
    BY <1>1, <1>2 DEF ChannelsOK
  <2> QED BY <1>2, <2>1, <2>2, <2>3, <2>4, <2>5 DEF ChannelsOK, Errors
<1>6. WaitOK' BY <1>1, <1>3 DEF WaitOK, is_intermediate_reply
<1>7. SavedOK' BY <1>1, <1>2 DEF SavedOK
<1>8. StatsOK' BY <1>1 DEF StatsOK, Current
<1>9. ClosedOK' BY <1>1 DEF ClosedOK
<1>10. QueryOK' BY <1>1 DEF QueryOK
<1> QED BY <1>1, <1>2, <1>3, <1>4, <1>5, <1>6, <1>7, <1>8, <1>9, <1>10 DEF Inv, RemoteInv

(* Shut leaves a server that has gone and has nothing uncommitted.         *)
LEMMA ShutTyped ==
    ASSUME Inv, NEW phase, phase \notin {"idle", "query"}, s' = Shut(phase)
    PROVE  IsServer' /\ ~Alive' /\ s'.cur = s'.comm
  BY DEF Inv, RemoteInv, IsServer, Shut, Alive

(* The server meets the end of the connection (ConnectionClosed in run()). *)
LEMMA ServerEOFInv == ASSUME Inv, ServerEOF PROVE Inv'
<1>1. Alive /\ s' = Shut("closed") /\ c' = c /\ toServer' = toServer /\ toClient' = toClient
  BY DEF ServerEOF
<1>2. IsServer' /\ ~Alive' /\ s'.cur = s'.comm BY <1>1, ShutTyped
<1> QED BY <1>1, <1>2, GoneInv

(* The server times out, and sends a REPLY_EXCEPTION that nobody asked     *)
(* for.                                                                    *)
LEMMA ServerTimeoutInv == ASSUME Inv, ServerTimeout PROVE Inv'
<1>1. Alive /\ s' = Shut("closed") /\ c' = c /\ toServer' = toServer /\ toServer = <<>>
      /\ Answer(<<Reply("EXCEPTION", 0)>>)
  BY DEF ServerTimeout
<1>2. IsServer' /\ ~Alive' /\ s'.cur = s'.comm BY <1>1, ShutTyped
<1> QED BY <1>1, <1>2, GoneInv

(* The server process is killed.                                           *)
LEMMA KillServerInv == ASSUME Inv, KillServer PROVE Inv'
<1>1. Alive /\ s' = [s EXCEPT !.cur = s.comm, !.phase = "killed"]
      /\ c' = c /\ toServer' = toServer /\ toClient' = toClient
  BY DEF KillServer
<1>2. IsServer' /\ ~Alive' /\ s'.cur = s'.comm
  BY <1>1 DEF Inv, RemoteInv, IsServer, Alive
<1> QED BY <1>1, <1>2, GoneInv

-----------------------------------------------------------------------------
(* The statistics do not depend on the metadata.                           *)
LEMMA StatsOfDocs ==
    ASSUME NEW db, NEW val
    PROVE  Stats([db EXCEPT !.meta = val]) = Stats(db)
  BY DEF Stats

(* When an answer of one reply is right.                                   *)
LEMMA OneReply ==
    ASSUME NEW msg, NEW r, r.id = msg.id,
           s'.phase \in {"idle", "query"},
           s' = [cur |-> s'.cur, comm |-> s'.comm, phase |-> s'.phase, wdb |-> s'.wdb,
                 lost |-> s'.lost],
           msg.type \notin Writes /\ s.cur = s.comm => s'.cur = s'.comm,
           msg.type \in {"COMMIT", "CANCEL"} => r.type = "EXCEPTION" \/ s'.cur = s'.comm,
           msg.type = "QUERY" => r.type = "EXCEPTION" \/ s'.phase = "query",
           ~s'.lost => ~s.lost,
           ~s'.lost /\ msg.type \notin Changes => Stats(s'.cur) = Stats(s.cur),
           r.type \in {"UPDATE", "VALUESTATS"} => r.stats = Stats(s'.cur)
    PROVE  Answers(msg, <<r>>)
<1>1. PICK q : q = <<r>> OBVIOUS
<1>2. AnySeq(q) /\ Len(q) = 1 /\ q[1] = r /\ <<>> \o q = q BY <1>1, SeqOne
<1>3. \A i \in 1..Len(q) : i = 1 BY <1>2
<1>4. Answers(msg, q) BY <1>2, <1>3 DEF Answers
<1> QED BY <1>1, <1>4

(* When an answer of a header and a last reply is right.                   *)
LEMMA TwoReplies ==
    ASSUME NEW msg, NEW q, NEW r, q.id = msg.id, r.id = msg.id, s' = s, Alive, IsServer,
           is_intermediate_reply(q.type), r.type \in {"DONE", "TERMLIST", "POSTLIST", "EXCEPTION"},
           msg.type \notin {"COMMIT", "CANCEL", "QUERY"}
    PROVE  Answers(msg, <<q, r>>)
<1>1. PICK x : x = <<q, r>> OBVIOUS
<1>2. AnySeq(x) /\ Len(x) = 2 /\ x[1] = q /\ x[2] = r /\ <<>> \o x = x BY <1>1, SeqTwo
<1>3. \A i \in 1..Len(x) : i = 1 \/ i = 2 BY <1>2
<1>4. \A i \in 1..Len(x) - 1 : i = 1 BY <1>2
<1>5. \A i \in 1..Len(x) : x[i].id = msg.id /\ x[i].type \notin {"UPDATE", "VALUESTATS"}
  BY <1>2, <1>3 DEF is_intermediate_reply
<1>6. Answers(msg, x) BY <1>2, <1>4, <1>5 DEF Answers, Alive, IsServer
<1> QED BY <1>1, <1>6

(* When an answer of two intermediate replies and a last one is right.     *)
LEMMA ThreeReplies ==
    ASSUME NEW msg, NEW q, NEW r, NEW z, q.id = msg.id, r.id = msg.id, z.id = msg.id,
           s' = s, Alive, IsServer,
           is_intermediate_reply(q.type), is_intermediate_reply(r.type), z.type = "DONE",
           msg.type \notin {"COMMIT", "CANCEL", "QUERY"}
    PROVE  Answers(msg, <<q, r, z>>)
<1>1. PICK x : x = <<q, r, z>> OBVIOUS
<1>2. AnySeq(x) /\ Len(x) = 3 /\ x[1] = q /\ x[2] = r /\ x[3] = z /\ <<>> \o x = x
  BY <1>1, SeqThree
<1>3. \A i \in 1..Len(x) : i = 1 \/ i = 2 \/ i = 3 BY <1>2
<1>4. \A i \in 1..Len(x) - 1 : i = 1 \/ i = 2 BY <1>2
<1>5. \A i \in 1..Len(x) : x[i].id = msg.id /\ x[i].type \notin {"UPDATE", "VALUESTATS"}
  BY <1>2, <1>3 DEF is_intermediate_reply
<1>6. Answers(msg, x) BY <1>2, <1>4, <1>5 DEF Answers, Alive, IsServer
<1> QED BY <1>1, <1>6

(* The fields of a reply.                                                  *)
LEMMA ReplyTyped ==
    ASSUME NEW type, NEW id, NEW db
    PROVE  /\ Reply(type, id).type = type /\ Reply(type, id).id = id
           /\ StatsReply(type, id, db).type = type /\ StatsReply(type, id, db).id = id
           /\ StatsReply(type, id, db).stats = Stats(db)
  BY DEF Reply, StatsReply

(* The answer to a change of the database, or the exception when it fails. *)
LEMMA WriteAnswers ==
    ASSUME IsServer, Alive, NEW msg, msg.type \in Writes, msg_write(msg)
    PROVE  \E replies : Answer(replies) /\ Answers(msg, replies)
<1>1. CASE /\ Writable(s.cur, msg)
           /\ \E comm \in {s.comm, Written(s.cur, msg)} :
                  s' = [s EXCEPT !.cur = Written(s.cur, msg), !.comm = comm]
           /\ Answer(<<Reply(IF msg.type = "ADDDOCUMENT" THEN msg.type ELSE "DONE", msg.id)>>)
  <2>1. PICK r : r = Reply(IF msg.type = "ADDDOCUMENT" THEN msg.type ELSE "DONE", msg.id)
    OBVIOUS
  <2>2. r.id = msg.id /\ r.type \in {"ADDDOCUMENT", "DONE"} BY <2>1, ReplyTyped
  <2>3. /\ s'.cur = Written(s.cur, msg) /\ s'.phase = s.phase /\ s'.lost = s.lost
        /\ s' = [cur |-> s'.cur, comm |-> s'.comm, phase |-> s'.phase, wdb |-> s'.wdb,
                 lost |-> s'.lost]
    BY <1>1 DEF IsServer
  <2>4. msg.type \notin Changes => Stats(s'.cur) = Stats(s.cur)
    <3>1. msg.type \notin Changes => Written(s.cur, msg) = [s.cur EXCEPT !.meta = msg.arg]
      BY DEF Writes, Changes, Written
    <3> QED BY <2>3, <3>1, StatsOfDocs
  <2>5. Answers(msg, <<r>>) BY <2>2, <2>3, <2>4, OneReply DEF Alive, Writes
  <2> QED BY <1>1, <2>1, <2>5
<1>2. CASE /\ s' = IF Writable(s.cur, msg) /\ msg.type # "SETMETADATA"
                   THEN [s EXCEPT !.cur = s.comm] ELSE s
           /\ Answer(<<Reply("EXCEPTION", msg.id)>>)
  <2>1. PICK r : r = Reply("EXCEPTION", msg.id) OBVIOUS
  <2>2. r.id = msg.id /\ r.type = "EXCEPTION" BY <2>1, ReplyTyped
  <2>3. /\ s'.phase = s.phase /\ s'.lost = s.lost
        /\ s' = [cur |-> s'.cur, comm |-> s'.comm, phase |-> s'.phase, wdb |-> s'.wdb,
                 lost |-> s'.lost]
        /\ msg.type = "SETMETADATA" => s'.cur = s.cur
    BY <1>2 DEF IsServer
  <2>4. Answers(msg, <<r>>) BY <2>2, <2>3, OneReply DEF Alive, Writes, Changes
  <2> QED BY <1>2, <2>1, <2>4
<1> QED BY <1>1, <1>2 DEF msg_write

(* A reply to a message that changes nothing in the server, apart from     *)
(* which database object it uses.                                          *)
LEMMA QuietAnswers ==
    ASSUME IsServer, Alive, NEW msg, msg.type \notin {"COMMIT", "CANCEL", "QUERY"},
           s' = s \/ s' = [s EXCEPT !.wdb = TRUE],
           NEW r, r.id = msg.id,
           r.type \in {"UPDATE", "VALUESTATS"} => r.stats = Stats(s.cur),
           Answer(<<r>>)
    PROVE  \E replies : Answer(replies) /\ Answers(msg, replies)
<1>1. /\ s'.cur = s.cur /\ s'.comm = s.comm /\ s'.phase = s.phase /\ s'.lost = s.lost
      /\ s' = [cur |-> s'.cur, comm |-> s'.comm, phase |-> s'.phase, wdb |-> s'.wdb,
               lost |-> s'.lost]
  BY DEF IsServer
<1>2. Answers(msg, <<r>>) BY <1>1, OneReply DEF Alive
<1> QED BY <1>2

(* A handler that throws: REPLY_EXCEPTION, perhaps after a header.         *)
LEMMA ThrowsAnswers ==
    ASSUME IsServer, Alive, NEW msg, msg.type \notin {"COMMIT", "CANCEL"}, HandlerThrows(msg)
    PROVE  \E replies : Answer(replies) /\ Answers(msg, replies)
<1>1. s' = s BY DEF HandlerThrows
<1>2. PICK r : r = Reply("EXCEPTION", msg.id) OBVIOUS
<1>3. r.id = msg.id /\ r.type = "EXCEPTION" BY <1>2, ReplyTyped
<1>4. CASE Answer(<<r>>)
  <2>1. Answers(msg, <<r>>) BY <1>1, <1>3, OneReply DEF IsServer, Alive
  <2> QED BY <1>4, <2>1
<1>5. ASSUME NEW header, header \in {"TERMLISTHEADER", "POSTLISTHEADER"},
             msg.type \in {"TERMLIST", "POSTLIST"},
             Answer(<<Reply(header, msg.id), r>>)
      PROVE  \E replies : Answer(replies) /\ Answers(msg, replies)
  <2>1. PICK q : q = Reply(header, msg.id) OBVIOUS
  <2>2. q.id = msg.id /\ is_intermediate_reply(q.type)
    BY <1>5, <2>1, ReplyTyped DEF is_intermediate_reply
  <2>3. Answers(msg, <<q, r>>) BY <1>1, <1>3, <1>5, <2>2, TwoReplies
  <2> QED BY <1>5, <2>1, <2>3
<1>6. PICK h : h = [TERMLIST |-> "TERMLISTHEADER", POSTLIST |-> "POSTLISTHEADER"] OBVIOUS
<1>7. Answer(<<r>>) \/ (msg.type \in DOMAIN h /\ Answer(<<Reply(h[msg.type], msg.id), r>>))
  BY <1>2, <1>6 DEF HandlerThrows
<1>8. msg.type \in DOMAIN h => /\ msg.type \in {"TERMLIST", "POSTLIST"}
                               /\ h[msg.type] \in {"TERMLISTHEADER", "POSTLISTHEADER"}
  BY <1>6
<1> QED BY <1>4, <1>5, <1>7, <1>8

(* Sequences with one more element.                                        *)
LEMMA ConcatOne ==
    ASSUME NEW x, NEW y, NEW z
    PROVE  <<x>> \o <<y>> = <<x, y>> /\ <<x, y>> \o <<z>> = <<x, y, z>>
<1>1. PICK S : S = {x, y, z} OBVIOUS
<1>2. <<x>> \in Seq(S) /\ <<y>> \in Seq(S) /\ <<z>> \in Seq(S) /\ <<x, y>> \in Seq(S) BY <1>1
<1>3. <<x>> \o <<y>> = Append(<<x>>, y) BY <1>1, <1>2, AppendIsConcat
<1>4. <<x, y>> \o <<z>> = Append(<<x, y>>, z) BY <1>1, <1>2, AppendIsConcat
<1>5. Append(<<x>>, y) = <<x, y>>
  <2>1. PICK q : q = Append(<<x>>, y) OBVIOUS
  <2>2. q \in Seq(S) /\ Len(q) = 2 /\ q[1] = x /\ q[2] = y BY <1>1, <1>2, <2>1, AppendProperties
  <2>3. <<x, y>> \in Seq(S) /\ Len(<<x, y>>) = 2 /\ <<x, y>>[1] = x /\ <<x, y>>[2] = y BY <1>2
  <2>4. \A i \in 1..2 : q[i] = <<x, y>>[i] BY <2>2, <2>3
  <2> QED BY <2>1, <2>2, <2>3, <2>4, SeqEqual
<1>6. Append(<<x, y>>, z) = <<x, y, z>>
  <2>1. PICK q, e : q = Append(<<x, y>>, z) /\ e = <<x, y, z>> OBVIOUS
  <2>2. q \in Seq(S) /\ Len(q) = 3 /\ q[1] = x /\ q[2] = y /\ q[3] = z
    BY <1>1, <1>2, <2>1, AppendProperties
  <2>3. e \in Seq(S) /\ Len(e) = 3 /\ e[1] = x /\ e[2] = y /\ e[3] = z BY <1>1, <2>1
  <2>4. \A i \in 1..3 : q[i] = e[i] BY <2>2, <2>3
  <2> QED BY <2>1, <2>2, <2>3, <2>4, SeqEqual
<1> QED BY <1>3, <1>4, <1>5, <1>6

(* The answer to MSG_DOCUMENT: the data, the values, and REPLY_DONE.       *)
LEMMA DocumentAnswers ==
    ASSUME IsServer, Alive, NEW msg, msg.type = "DOCUMENT", msg_document(msg)
    PROVE  \E replies : Answer(replies) /\ Answers(msg, replies)
<1>1. PICK values \in 0..1 :
         Answer(<<Reply("DOCDATA", msg.id)>>
                \o [i \in 1..values |-> Reply("VALUE", msg.id)] \o <<Reply("DONE", msg.id)>>)
  BY DEF msg_document
<1>2. s' = s BY DEF msg_document
<1>3. PICK d, v, e : d = Reply("DOCDATA", msg.id) /\ v = Reply("VALUE", msg.id)
                     /\ e = Reply("DONE", msg.id)
  OBVIOUS
<1>4. /\ d.id = msg.id /\ v.id = msg.id /\ e.id = msg.id /\ e.type = "DONE"
      /\ is_intermediate_reply(d.type) /\ is_intermediate_reply(v.type)
  BY <1>3, ReplyTyped DEF is_intermediate_reply
<1>5. CASE values = 0
  <2>1. <<d>> \o [i \in 1..0 |-> v] \o <<e>> = <<d, e>>
    <3>1. [i \in 1..0 |-> v] = <<>> OBVIOUS
    <3>2. <<d>> \in Seq({d}) OBVIOUS
    <3>3. <<d>> \o <<>> = <<d>> BY <3>2, ConcatEmptySeq
    <3>4. <<d>> \o <<e>> = <<d, e>> BY ConcatOne
    <3> QED BY <3>1, <3>3, <3>4
  <2>2. Answer(<<d, e>>) BY <1>1, <1>3, <1>5, <2>1
  <2>3. Answers(msg, <<d, e>>) BY <1>2, <1>4, TwoReplies
  <2> QED BY <2>2, <2>3
<1>6. CASE values = 1
  <2>1. <<d>> \o [i \in 1..1 |-> v] \o <<e>> = <<d, v, e>>
    <3>1. [i \in 1..1 |-> v] = <<v>> OBVIOUS
    <3>2. <<d>> \o <<v>> = <<d, v>> BY ConcatOne
    <3>3. <<d, v>> \o <<e>> = <<d, v, e>> BY ConcatOne
    <3> QED BY <3>1, <3>2, <3>3
  <2>2. Answer(<<d, v, e>>) BY <1>1, <1>3, <1>6, <2>1
  <2>3. Answers(msg, <<d, v, e>>) BY <1>2, <1>4, ThreeReplies
  <2> QED BY <2>2, <2>3
<1> QED BY <1>5, <1>6

(* Every handler that run() dispatches to answers as Answers says.         *)
LEMMA HandleAnswers ==
    ASSUME IsServer, Alive, NEW msg, msg.type \in MsgTypes \ {"GETMSET"}, Handle(msg)
    PROVE  \E replies : Answer(replies) /\ Answers(msg, replies)
<1>1. CASE msg.type \in Writes
  <2>1. msg_write(msg) BY <1>1 DEF Handle, Writes
  <2> QED BY <1>1, <2>1, WriteAnswers
<1>2. CASE msg.type = "COMMIT"
  <2>1. msg_commit(msg) BY <1>2 DEF Handle, Writes
  <2>2. CASE s' = [s EXCEPT !.comm = s.cur] /\ Answer(<<Reply("DONE", msg.id)>>)
    <3>1. PICK r : r = Reply("DONE", msg.id) OBVIOUS
    <3>2. r.id = msg.id /\ r.type = "DONE" BY <3>1, ReplyTyped
    <3>3. Answers(msg, <<r>>) BY <1>2, <2>2, <3>2, OneReply DEF IsServer, Alive
    <3> QED BY <2>2, <3>1, <3>3
  <2>3. CASE s' = [s EXCEPT !.cur = s.comm, !.lost = TRUE] /\ Answer(<<Reply("EXCEPTION", msg.id)>>)
    <3>1. PICK r : r = Reply("EXCEPTION", msg.id) OBVIOUS
    <3>2. r.id = msg.id /\ r.type = "EXCEPTION" BY <3>1, ReplyTyped
    <3>3. Answers(msg, <<r>>) BY <1>2, <2>3, <3>2, OneReply DEF IsServer, Alive
    <3> QED BY <2>3, <3>1, <3>3
  <2> QED BY <2>1, <2>2, <2>3 DEF msg_commit
<1>3. CASE msg.type = "CANCEL"
  <2>1. msg_cancel(msg) BY <1>3 DEF Handle, Writes
  <2>2. PICK r : r = Reply("DONE", msg.id) OBVIOUS
  <2>3. r.id = msg.id /\ r.type = "DONE" BY <2>2, ReplyTyped
  <2>4. Answers(msg, <<r>>) BY <1>3, <2>1, <2>3, OneReply DEF IsServer, Alive, Changes, msg_cancel
  <2> QED BY <2>1, <2>2, <2>4 DEF msg_cancel
<1>4. CASE msg.type = "WRITEACCESS"
  <2>1. msg_writeaccess(msg) BY <1>4 DEF Handle, Writes
  <2>2. CASE s' = [s EXCEPT !.wdb = TRUE] /\ Answer(<<StatsReply("UPDATE", msg.id, s.cur)>>)
    <3>1. PICK r : r = StatsReply("UPDATE", msg.id, s.cur) OBVIOUS
    <3>2. r.id = msg.id /\ r.stats = Stats(s.cur) BY <3>1, ReplyTyped
    <3> QED BY <1>4, <2>2, <3>1, <3>2, QuietAnswers
  <2>3. CASE s' = s /\ Answer(<<Reply("EXCEPTION", msg.id)>>)
    <3>1. PICK r : r = Reply("EXCEPTION", msg.id) OBVIOUS
    <3>2. r.id = msg.id /\ r.type = "EXCEPTION" BY <3>1, ReplyTyped
    <3> QED BY <1>4, <2>3, <3>1, <3>2, QuietAnswers
  <2> QED BY <2>1, <2>2, <2>3 DEF msg_writeaccess
<1>5. ASSUME NEW type, type \notin {"UPDATE", "VALUESTATS"}, s' = s,
             msg.type \notin {"COMMIT", "CANCEL", "QUERY"}, Answer(<<Reply(type, msg.id)>>)
      PROVE  \E replies : Answer(replies) /\ Answers(msg, replies)
  <2>1. PICK r : r = Reply(type, msg.id) OBVIOUS
  <2>2. r.id = msg.id /\ r.type = type BY <2>1, ReplyTyped
  <2> QED BY <1>5, <2>1, <2>2, QuietAnswers
<1>6. ASSUME NEW type, s' = s, msg.type \notin {"COMMIT", "CANCEL", "QUERY"},
             Answer(<<StatsReply(type, msg.id, s.cur)>>)
      PROVE  \E replies : Answer(replies) /\ Answers(msg, replies)
  <2>1. PICK r : r = StatsReply(type, msg.id, s.cur) OBVIOUS
  <2>2. r.id = msg.id /\ r.stats = Stats(s.cur) BY <2>1, ReplyTyped
  <2> QED BY <1>6, <2>1, <2>2, QuietAnswers
<1>7. CASE msg.type = "REOPEN"
  <2>1. msg_reopen(msg) BY <1>7 DEF Handle, Writes
  <2> QED BY <1>5, <1>7, <2>1 DEF msg_reopen
<1>8. CASE msg.type = "UPDATE"
  <2>1. msg_update(msg) BY <1>8 DEF Handle, Writes
  <2> QED BY <1>6, <1>8, <2>1 DEF msg_update
<1>9. CASE msg.type = "VALUESTATS"
  <2>1. msg_valuestats(msg) BY <1>9 DEF Handle, Writes
  <2> QED BY <1>6, <1>9, <2>1 DEF msg_valuestats
<1>10. CASE msg.type = "READ"
  <2>1. msg_read(msg) \/ HandlerThrows(msg) BY <1>10 DEF Handle, Writes
  <2>2. CASE msg_read(msg) BY <1>5, <1>10, <2>2 DEF msg_read
  <2> QED BY <1>10, <2>1, <2>2, ThrowsAnswers
<1>11. CASE msg.type = "DOCUMENT"
  <2>1. msg_document(msg) \/ HandlerThrows(msg) BY <1>11 DEF Handle, Writes
  <2> QED BY <1>11, <2>1, DocumentAnswers, ThrowsAnswers
<1>12. ASSUME NEW header, header \in {"TERMLISTHEADER", "POSTLISTHEADER"},
              NEW type, type \in {"TERMLIST", "POSTLIST"}, s' = s,
              msg.type \notin {"COMMIT", "CANCEL", "QUERY"},
              Answer(<<Reply(header, msg.id), Reply(type, msg.id)>>)
       PROVE  \E replies : Answer(replies) /\ Answers(msg, replies)
  <2>1. PICK q, r : q = Reply(header, msg.id) /\ r = Reply(type, msg.id) OBVIOUS
  <2>2. q.id = msg.id /\ r.id = msg.id /\ r.type = type /\ is_intermediate_reply(q.type)
    BY <1>12, <2>1, ReplyTyped DEF is_intermediate_reply
  <2>3. Answers(msg, <<q, r>>) BY <1>12, <2>2, TwoReplies
  <2> QED BY <1>12, <2>1, <2>3
<1>13. CASE msg.type = "TERMLIST"
  <2>1. msg_termlist(msg) \/ HandlerThrows(msg) BY <1>13 DEF Handle, Writes
  <2>2. CASE msg_termlist(msg) BY <1>12, <1>13, <2>2 DEF msg_termlist
  <2> QED BY <1>13, <2>1, <2>2, ThrowsAnswers
<1>14. CASE msg.type = "POSTLIST"
  <2>1. msg_postlist(msg) \/ HandlerThrows(msg) BY <1>14 DEF Handle, Writes
  <2>2. CASE msg_postlist(msg) BY <1>12, <1>14, <2>2 DEF msg_postlist
  <2> QED BY <1>14, <2>1, <2>2, ThrowsAnswers
<1>15. CASE msg.type = "QUERY"
  <2>1. msg_query(msg) \/ HandlerThrows(msg) BY <1>15 DEF Handle, Writes
  <2>2. CASE msg_query(msg)
    <3>1. PICK r : r = Reply("STATS", msg.id) OBVIOUS
    <3>2. r.id = msg.id /\ r.type = "STATS" BY <3>1, ReplyTyped
    <3>3. Answers(msg, <<r>>) BY <1>15, <2>2, <3>2, OneReply DEF IsServer, Alive, msg_query
    <3> QED BY <2>2, <3>1, <3>3 DEF msg_query
  <2> QED BY <1>15, <2>1, <2>2, ThrowsAnswers
<1> QED
  BY <1>1, <1>2, <1>3, <1>4, <1>7, <1>8, <1>9, <1>10, <1>11, <1>13, <1>14, <1>15 DEF MsgTypes

(* A round of run(): MSG_SHUTDOWN, a query that is not followed by         *)
(* MSG_GETMSET, the results of a query, and every other message.           *)
LEMMA ServerRunInv == ASSUME Inv, ServerRun PROVE Inv'
<1>1. /\ Alive /\ toServer # <<>> /\ toServer' = Tail(toServer) /\ c' = c
  BY DEF ServerRun
<1>2. PICK msg : msg = toServer[1] OBVIOUS
<1>3. IsServer /\ ChannelsOK /\ QueryOK /\ AnySeq(toServer) BY DEF Inv, RemoteInv
<1>4. Head(toServer) = msg /\ 1 \in 1..Len(toServer) BY <1>1, <1>2, <1>3, SeqTail
<1>5. CASE msg.type = "SHUTDOWN"
  <2>1. s' = Shut("closed") /\ toClient' = toClient BY <1>4, <1>5 DEF ServerRun
  <2>2. IsServer' /\ ~Alive' /\ s'.cur = s'.comm BY <2>1, ShutTyped
  <2> QED BY <1>1, <2>1, <2>2, GoneInv
<1>6. CASE msg.type # "SHUTDOWN" /\ s.phase = "query" /\ msg.type # "GETMSET"
  <2>1. s' = Shut("confused") /\ toClient' = toClient BY <1>4, <1>6 DEF ServerRun, msg_getmset
  <2>2. IsServer' /\ ~Alive' /\ s'.cur = s'.comm BY <2>1, ShutTyped
  <2> QED BY <1>1, <2>1, <2>2, GoneInv
<1>7. CASE s.phase = "query" /\ msg.type = "GETMSET"
  <2>1. s' = [s EXCEPT !.phase = "idle"] /\ Answer(<<Reply("RESULTS", msg.id)>>)
    BY <1>4, <1>7 DEF ServerRun, msg_getmset
  <2>2. PICK r : r = Reply("RESULTS", msg.id) OBVIOUS
  <2>3. r.id = msg.id /\ r.type = "RESULTS" BY <2>2, ReplyTyped
  <2>4. Answers(msg, <<r>>) BY <1>3, <1>7, <2>1, <2>3, OneReply DEF IsServer
  <2> QED BY <1>1, <1>2, <1>7, <2>1, <2>2, <2>4, AnswerInv
<1>8. CASE msg.type # "SHUTDOWN" /\ s.phase # "query"
  <2>1. Handle(msg) BY <1>4, <1>8 DEF ServerRun
  <2>2. msg.type \in MsgTypes \ {"GETMSET"} BY <1>1, <1>2, <1>3, <1>4, <1>8 DEF ChannelsOK, QueryOK
  <2>3. PICK replies : Answer(replies) /\ Answers(msg, replies)
    BY <1>1, <1>3, <2>1, <2>2, HandleAnswers
  <2> QED BY <1>1, <1>2, <1>8, <2>3, AnswerInv
<1> QED BY <1>5, <1>6, <1>7, <1>8

-----------------------------------------------------------------------------
(* No call asks for a REPLY_EXCEPTION.                                     *)
LEMMA RequiredTyped == \A type : "EXCEPTION" \notin Required(type)
<1>1. ASSUME NEW type PROVE "EXCEPTION" \notin Required(type)
  <2>1. CASE type \in {"UPDATE", "WRITEACCESS", "REOPEN"} BY <2>1 DEF Required
  <2>2. CASE type \in {"VALUESTATS", "READ", "DOCUMENT", "TERMLIST", "POSTLIST", "QUERY",
                       "GETMSET", "ADDDOCUMENT"}
    BY <2>2 DEF Required
  <2>3. CASE type \notin {"UPDATE", "WRITEACCESS", "REOPEN", "VALUESTATS", "READ", "DOCUMENT",
                          "TERMLIST", "POSTLIST", "QUERY", "GETMSET", "ADDDOCUMENT"}
    BY <2>3 DEF Required
  <2> QED BY <2>1, <2>2, <2>3
<1> QED BY <1>1

(* Nor does one that reads on after an intermediate reply.                 *)
LEMMA RequiredAfterTyped ==
    ASSUME NEW type, is_intermediate_reply(type)
    PROVE  "EXCEPTION" \notin RequiredAfter(type)
<1>1. CASE type \in {"DOCDATA", "VALUE"} BY <1>1 DEF RequiredAfter
<1>2. CASE type = "TERMLISTHEADER" BY <1>2 DEF RequiredAfter
<1>3. CASE type = "POSTLISTHEADER" BY <1>3 DEF RequiredAfter
<1> QED BY <1>1, <1>2, <1>3 DEF is_intermediate_reply

(* A step of the client that sends and receives nothing.                   *)
LEMMA ClientOnlyInv ==
    ASSUME Inv, s' = s, toServer' = toServer, toClient' = toClient,
           IsClient', c'.matched, c'.stage # "wait",
           c'.pending = c.pending \/ (toClient = <<>> /\ ~Alive),
           c.stage = "closing" \/ c.link = "closed" =>
              c'.stage = "closing" \/ c'.link = "closed",
           ~c'.pending /\ c'.link = "up" => Errors(toClient) /\ (Alive => toClient = <<>>),
           c.uncommitted => c'.uncommitted,
           c'.cached => c.cached /\ c'.stats = c.stats,
           c'.mru # NoStats => c'.mru = c.mru,
           c'.stage = "send" =>
              /\ c'.out.type \in Writes => c'.uncommitted
              /\ c'.out.type \in Changes => ~c'.cached /\ c'.mru = NoStats
              /\ c'.out.type # "GETMSET"
              /\ c'.then = "GETMSET" => c'.out.type = "QUERY",
           ClosedOK'
    PROVE  Inv'
<1>1. /\ ChannelsOK /\ SavedOK /\ StatsOK /\ QueryOK /\ IsServer
      /\ AnySeq(toServer) /\ AnySeq(toClient)
  BY DEF Inv, RemoteInv
<1>2. Alive' = Alive /\ IsServer' BY <1>1 DEF Alive, IsServer
<1>3. ChannelsOK'
  <2>1. toServer # <<>> /\ toServer[1].type # "SHUTDOWN" =>
           Errors(toClient) /\ (Alive => c'.pending /\ toClient = <<>>)
    BY <1>1 DEF ChannelsOK
  <2>2. (\E i \in 1..Len(toServer) : toServer[i].type = "SHUTDOWN") =>
           c'.stage = "closing" \/ c'.link = "closed"
    BY <1>1 DEF ChannelsOK
  <2> QED BY <1>1, <1>2, <2>1, <2>2 DEF ChannelsOK
<1>4. WaitOK' BY DEF WaitOK
<1>5. SavedOK' BY <1>1 DEF SavedOK
<1>6. StatsOK' BY <1>1, <1>2 DEF StatsOK, Current
<1>7. QueryOK' BY <1>1, <1>2 DEF QueryOK
<1> QED BY <1>1, <1>2, <1>3, <1>4, <1>5, <1>6, <1>7 DEF Inv, RemoteInv

(* The object a call begins with: c, which may know of fewer statistics    *)
(* and of more changes.                                                    *)
Starts(obj) ==
    /\ obj = [c EXCEPT !.cached = obj.cached, !.mru = obj.mru,
                       !.uncommitted = obj.uncommitted, !.state = obj.state]
    /\ obj.cached => c.cached
    /\ obj.mru # NoStats => obj.mru = c.mru
    /\ c.uncommitted => obj.uncommitted

(* What holds of an object on which a call may be made.                    *)
LEMMA ReadyFacts ==
    ASSUME Inv, Ready
    PROVE  /\ IsClient /\ c.matched /\ c.stage = "none" /\ c.call = "none" /\ c.link = "up"
           /\ ~c.closed
           /\ ~c.pending => Errors(toClient) /\ (Alive => toClient = <<>>)
<1>1. IsClient /\ c.matched /\ ClosedOK /\ ChannelsOK BY DEF Inv, RemoteInv
<1>2. c.call = "none" /\ c.link = "up" BY DEF Ready
<1>3. c.stage = "none" BY <1>1, <1>2 DEF IsClient
<1>4. ~c.closed BY <1>1, <1>2 DEF ClosedOK
<1>5. ~c.pending => Errors(toClient) /\ (Alive => toClient = <<>>)
  BY <1>1, <1>2, <1>3 DEF ChannelsOK
<1> QED BY <1>1, <1>2, <1>3, <1>4, <1>5

(* A call that goes on to send a message.                                  *)
LEMMA BeginInv ==
    ASSUME Inv, NEW obj, Starts(obj), NEW call, call # "none",
           NEW type, type \in MsgTypes \ {"GETMSET"}, NEW arg,
           NEW then, then \in {"none", "TERMLIST", "GETMSET", "WRITEACCESS"},
           then = "GETMSET" => type = "QUERY",
           type \in Writes => obj.uncommitted,
           type \in Changes => ~obj.cached /\ obj.mru = NoStats,
           Begin(obj, call, type, arg, then)
    PROVE  Inv'
<1>1. /\ IsClient /\ c.matched /\ c.stage = "none" /\ c.link = "up" /\ ~c.closed
      /\ ~c.pending => Errors(toClient) /\ (Alive => toClient = <<>>)
  BY ReadyFacts DEF Begin
<1>2. PICK need : need = Required(type) OBVIOUS
<1>3. PICK out : out = [type |-> type, arg |-> arg, id |-> calls + 1] OBVIOUS
<1>4. c' = [c EXCEPT !.cached = obj.cached, !.mru = obj.mru, !.uncommitted = obj.uncommitted,
                     !.state = obj.state, !.call = call, !.stage = "send", !.then = then,
                     !.out = out, !.need = need]
  <2>1. c' = [obj EXCEPT !.call = call, !.stage = "send", !.then = then, !.out = out,
                         !.need = need]
    BY <1>2, <1>3 DEF Begin
  <2> QED BY <1>1, <2>1 DEF Starts, IsClient
<1>5. /\ c' = [call |-> call, stage |-> "send", then |-> then, need |-> need, out |-> out,
               pending |-> c.pending, cached |-> obj.cached, stats |-> c.stats,
               mru |-> obj.mru, uncommitted |-> obj.uncommitted, state |-> obj.state,
               link |-> c.link, closed |-> c.closed, matched |-> c.matched, base |-> c.base]
  BY <1>1, <1>4 DEF IsClient
<1>6. "EXCEPTION" \notin need BY <1>2, RequiredTyped
<1>7. /\ c'.call = call /\ c'.stage = "send" /\ c'.then = then /\ c'.need = need
      /\ c'.out = out /\ c'.pending = c.pending /\ c'.cached = obj.cached
      /\ c'.stats = c.stats /\ c'.mru = obj.mru /\ c'.uncommitted = obj.uncommitted
      /\ c'.state = obj.state /\ c'.link = c.link /\ c'.closed = c.closed
      /\ c'.matched = c.matched /\ c'.base = c.base
  BY <1>5
<1>8. out.type = type /\ out = [type |-> out.type, arg |-> out.arg, id |-> out.id] BY <1>3
<1>9. IsClient' BY <1>1, <1>5, <1>6, <1>7, <1>8 DEF IsClient
<1>10. ClosedOK' BY <1>1, <1>7 DEF ClosedOK
<1>11. s' = s /\ toServer' = toServer /\ toClient' = toClient BY DEF Begin
<1>12. /\ obj.cached => c.cached
       /\ obj.mru # NoStats => obj.mru = c.mru
       /\ c.uncommitted => obj.uncommitted
  BY DEF Starts
<1> QED BY <1>1, <1>7, <1>8, <1>9, <1>10, <1>11, <1>12, ClientOnlyInv

(* The object of a call that returns at once, or only has to shut down.    *)
Done(call, stage, state, base) ==
    [c EXCEPT !.call = call, !.stage = stage, !.state = state, !.base = base]

(* A call that sends nothing.                                              *)
LEMMA ReturnInv ==
    ASSUME Inv, NEW obj, NEW call, NEW stage, NEW state, NEW base,
           call = "none" => stage = "none", stage \in {"none", "shutdown"},
           obj = Done(call, stage, state, base), Return(obj)
    PROVE  Inv'
<1>1. /\ IsClient /\ c.matched /\ c.stage = "none" /\ c.link = "up" /\ ~c.closed
      /\ ~c.pending => Errors(toClient) /\ (Alive => toClient = <<>>)
  BY ReadyFacts DEF Return
<1>2. c' = obj /\ s' = s /\ toServer' = toServer /\ toClient' = toClient BY DEF Return
<1>3. c' = [call |-> call, stage |-> stage, then |-> c.then, need |-> c.need, out |-> c.out,
            pending |-> c.pending, cached |-> c.cached, stats |-> c.stats,
            mru |-> c.mru, uncommitted |-> c.uncommitted, state |-> state,
            link |-> c.link, closed |-> c.closed, matched |-> c.matched, base |-> base]
  BY <1>1, <1>2 DEF IsClient, Done
<1>4. IsClient' BY <1>1, <1>3 DEF IsClient
<1>5. ClosedOK' BY <1>1, <1>3 DEF ClosedOK
<1>6. /\ c'.stage = stage /\ c'.pending = c.pending /\ c'.link = "up" /\ c'.matched
      /\ c'.uncommitted = c.uncommitted /\ c'.cached = c.cached /\ c'.stats = c.stats
      /\ c'.mru = c.mru
  BY <1>1, <1>3
<1> QED BY <1>1, <1>2, <1>4, <1>5, <1>6, ClientOnlyInv

(* The object that a call leaves behind when it ends with an exception.    *)
Left(pending, then, link) ==
    [c EXCEPT !.pending = pending, !.call = "none", !.then = then, !.stage = "none",
              !.link = link]

(* The object after an exception, and after the death of the client.       *)
LEMMA LeftInv ==
    ASSUME Inv, s' = s, toServer' = toServer, toClient' = toClient,
           NEW pending, pending \in BOOLEAN, NEW then, NEW link,
           then \in {c.then, "none"}, link \in {c.link, "closed"},
           pending = c.pending \/ (toClient = <<>> /\ ~Alive),
           ~pending /\ link = "up" => Errors(toClient) /\ (Alive => toClient = <<>>),
           c.stage = "closing" => link = "closed",
           c.link = "up",
           c' = Left(pending, then, link)
    PROVE  Inv'
<1>1. IsClient /\ c.matched /\ ClosedOK BY DEF Inv, RemoteInv
<1>2. c' = [call |-> "none", stage |-> "none", then |-> then, need |-> c.need, out |-> c.out,
            pending |-> pending, cached |-> c.cached, stats |-> c.stats,
            mru |-> c.mru, uncommitted |-> c.uncommitted, state |-> c.state,
            link |-> link, closed |-> c.closed, matched |-> c.matched, base |-> c.base]
  BY <1>1 DEF IsClient, Left
<1>3. IsClient'
  <2>1. then \in {"none", "TERMLIST", "GETMSET", "WRITEACCESS"} BY <1>1 DEF IsClient
  <2>2. c'.stage = "none" /\ c'.call = "none" /\ c'.out = c.out /\ c'.need = c.need
        /\ c'.pending = pending /\ c'.then = then
    BY <1>2
  <2> QED BY <1>1, <1>2, <2>1, <2>2 DEF IsClient
<1>4. ~c.closed BY <1>1 DEF ClosedOK
<1>5. ClosedOK' BY <1>2, <1>4 DEF ClosedOK
<1>6. /\ c'.stage = "none" /\ c'.pending = pending /\ c'.link = link /\ c'.matched
      /\ c'.uncommitted = c.uncommitted /\ c'.cached = c.cached /\ c'.stats = c.stats
      /\ c'.mru = c.mru
  BY <1>1, <1>2
<1> QED BY <1>3, <1>5, <1>6, ClientOnlyInv

-----------------------------------------------------------------------------
(* What Thrown makes of an object that differs from c in pending only.     *)
LEMMA ThrownIs ==
    ASSUME IsClient, NEW pending
    PROVE  Thrown([c EXCEPT !.pending = pending]) =
              [c EXCEPT !.pending = pending, !.call = "none", !.then = "none", !.stage = "none",
                        !.link = IF c.call \in {"open", "close"} THEN "closed" ELSE c.link]
  BY DEF IsClient, Thrown

(* The client times out.                                                   *)
LEMMA GiveUpInv == ASSUME Inv, GiveUp PROVE Inv'
<1>1. IsClient /\ ChannelsOK BY DEF Inv, RemoteInv
<1>2. /\ c.stage = "wait" \/ (c.stage = "send" /\ (c.pending \/ c.out.type = "GETMSET"))
      /\ c' = Thrown(c) /\ s' = s /\ toServer' = toServer /\ toClient' = toClient
  BY DEF GiveUp
<1>3. PICK link : link = IF c.call \in {"open", "close"} THEN "closed" ELSE c.link OBVIOUS
<1>4. c = [c EXCEPT !.pending = c.pending] BY <1>1 DEF IsClient
<1>5. c' = [c EXCEPT !.pending = c.pending, !.call = "none", !.then = "none", !.stage = "none",
                     !.link = link]
  BY <1>1, <1>2, <1>3, <1>4, ThrownIs
<1>6. c.link = "up" /\ link \in {c.link, "closed"} /\ c.pending \in BOOLEAN
  BY <1>1, <1>2, <1>3 DEF IsClient
<1>7. ~c.pending /\ link = "up" => Errors(toClient) /\ (Alive => toClient = <<>>)
  <2>1. CASE c.stage = "wait" BY <1>1, <1>3, <2>1 DEF IsClient
  <2>2. CASE c.stage = "send" BY <1>1, <1>6, <2>2 DEF ChannelsOK
  <2> QED BY <1>2, <2>1, <2>2
<1>8. PICK pending, then : pending = c.pending /\ then = "none" OBVIOUS
<1>9. /\ pending \in BOOLEAN /\ then \in {c.then, "none"} /\ link \in {c.link, "closed"}
      /\ pending = c.pending \/ (toClient = <<>> /\ ~Alive)
      /\ ~pending /\ link = "up" => Errors(toClient) /\ (Alive => toClient = <<>>)
      /\ c.stage = "closing" => link = "closed"
      /\ c' = Left(pending, then, link)
  BY <1>2, <1>5, <1>6, <1>7, <1>8 DEF Left
<1> QED BY <1>2, <1>6, <1>9, LeftInv

(* The client meets the end of the connection.                             *)
LEMMA ConnectionClosedInv == ASSUME Inv, ConnectionClosed PROVE Inv'
<1>1. IsClient /\ AnySeq(toClient) BY DEF Inv, RemoteInv
<1>2. PICK pending : pending = IF c.stage = "wait" THEN FALSE ELSE c.pending OBVIOUS
<1>3. /\ c.stage \in {"wait", "send"} /\ toClient = <<>> /\ ~Alive
      /\ c' = Thrown([c EXCEPT !.pending = pending])
      /\ s' = s /\ toServer' = toServer /\ toClient' = toClient
  BY <1>2 DEF ConnectionClosed
<1>4. PICK link : link = IF c.call \in {"open", "close"} THEN "closed" ELSE c.link OBVIOUS
<1>5. c' = [c EXCEPT !.pending = pending, !.call = "none", !.then = "none", !.stage = "none",
                     !.link = link]
  BY <1>1, <1>3, <1>4, ThrownIs
<1>6. c.link = "up" /\ link \in {c.link, "closed"} /\ pending \in BOOLEAN
  BY <1>1, <1>2, <1>3, <1>4 DEF IsClient
<1>7. Errors(toClient) BY <1>3, SeqEmpty DEF Errors
<1>8. PICK then : then = "none" OBVIOUS
<1>9. /\ pending \in BOOLEAN /\ then \in {c.then, "none"} /\ link \in {c.link, "closed"}
      /\ pending = c.pending \/ (toClient = <<>> /\ ~Alive)
      /\ ~pending /\ link = "up" => Errors(toClient) /\ (Alive => toClient = <<>>)
      /\ c.stage = "closing" => link = "closed"
      /\ c' = Left(pending, then, link)
  BY <1>3, <1>5, <1>6, <1>7, <1>8 DEF Left
<1>10. s' = s /\ toServer' = toServer /\ toClient' = toClient BY <1>3
<1> QED BY <1>6, <1>9, <1>10, LeftInv

(* The client process is killed.                                           *)
LEMMA KillClientInv == ASSUME Inv, KillClient PROVE Inv'
<1>1. IsClient BY DEF Inv, RemoteInv
<1>2. /\ c.link = "up" /\ c' = [c EXCEPT !.link = "closed", !.call = "none", !.stage = "none"]
      /\ s' = s /\ toServer' = toServer /\ toClient' = toClient
  BY DEF KillClient
<1>3. c' = [c EXCEPT !.pending = c.pending, !.call = "none", !.then = c.then, !.stage = "none",
                     !.link = "closed"]
  BY <1>1, <1>2 DEF IsClient
<1>4. c.pending \in BOOLEAN BY <1>1 DEF IsClient
<1>5. PICK pending, then, link : pending = c.pending /\ then = c.then /\ link = "closed" OBVIOUS
<1>6. /\ pending \in BOOLEAN /\ then \in {c.then, "none"} /\ link \in {c.link, "closed"}
      /\ pending = c.pending \/ (toClient = <<>> /\ ~Alive)
      /\ ~pending /\ link = "up" => Errors(toClient) /\ (Alive => toClient = <<>>)
      /\ c.stage = "closing" => link = "closed"
      /\ c' = Left(pending, then, link)
  BY <1>2, <1>3, <1>4, <1>5 DEF Left
<1> QED BY <1>2, <1>6, LeftInv

(* do_close() has waited for the server and closes its socket.             *)
LEMMA CloseLinkInv == ASSUME Inv, CloseLink PROVE Inv'
<1>1. IsClient /\ c.matched /\ ChannelsOK BY DEF Inv, RemoteInv
<1>2. /\ c.stage = "closing" /\ (toClient # <<>> \/ ~Alive)
      /\ c' = [c EXCEPT !.call = "none", !.stage = "none", !.link = "closed", !.closed = TRUE]
      /\ s' = s /\ toServer' = toServer /\ toClient' = toClient
  BY DEF CloseLink
<1>3. c' = [call |-> "none", stage |-> "none", then |-> c.then, need |-> c.need,
            out |-> c.out, pending |-> c.pending, cached |-> c.cached, stats |-> c.stats,
            mru |-> c.mru, uncommitted |-> c.uncommitted, state |-> c.state,
            link |-> "closed", closed |-> TRUE, matched |-> c.matched, base |-> c.base]
  BY <1>1, <1>2 DEF IsClient
<1>4. IsClient' BY <1>1, <1>3 DEF IsClient
<1>5. /\ c'.stage = "none" /\ c'.pending = c.pending /\ c'.link = "closed" /\ c'.matched
      /\ c'.uncommitted = c.uncommitted /\ c'.cached = c.cached /\ c'.stats = c.stats
      /\ c'.mru = c.mru
  BY <1>1, <1>3
<1>6. c.pending \/ ~Alive
  <2>1. c.link = "up" BY <1>1, <1>2 DEF IsClient
  <2> QED BY <1>1, <1>2, <2>1 DEF ChannelsOK
<1>7. ClosedOK' BY <1>2, <1>5, <1>6 DEF ClosedOK, Alive
<1> QED BY <1>2, <1>4, <1>5, <1>7, ClientOnlyInv

-----------------------------------------------------------------------------
(* Before the answer to a call is read, the messages of earlier calls have *)
(* been answered.                                                          *)
LEMMA AnsweredFacts ==
    ASSUME Inv, c.stage \in {"send", "wait"}, toClient # <<>>
    PROVE  /\ c.link = "up"
           /\ \A i \in 1..Len(toServer) : toServer[i].type # "SHUTDOWN"
           /\ toServer # <<>> => Errors(toClient) /\ ~Alive
           /\ toClient[1].type # "EXCEPTION" => toServer = <<>>
<1>1. IsClient /\ ChannelsOK /\ AnySeq(toServer) /\ AnySeq(toClient) BY DEF Inv, RemoteInv
<1>2. c.link = "up" BY <1>1 DEF IsClient
<1>3. \A i \in 1..Len(toServer) : toServer[i].type # "SHUTDOWN" BY <1>1, <1>2 DEF ChannelsOK
<1>4. toServer # <<>> => 1 \in 1..Len(toServer) BY <1>1, SeqLen
<1>5. toServer # <<>> => Errors(toClient) /\ ~Alive BY <1>1, <1>3, <1>4 DEF ChannelsOK
<1>6. 1 \in 1..Len(toClient) BY <1>1, SeqLen
<1> QED BY <1>2, <1>3, <1>5, <1>6 DEF Errors

(* A step of the client that reads a reply.                                *)
LEMMA PopInv ==
    ASSUME Inv, s' = s, toServer' = toServer, toClient # <<>>, toClient' = Tail(toClient),
           NEW r, r = toClient[1], NEW more, more = is_intermediate_reply(r.type),
           c.stage = "wait" \/ (c.stage = "send" /\ c.pending),
           IsClient', c'.matched, c'.closed = c.closed, c'.stage # "closing",
           c'.pending = (c.pending /\ more),
           c'.stage = "wait" => c.stage = "wait" /\ c'.out = c.out /\ more,
           ~c'.uncommitted /\ c.uncommitted =>
              /\ c.stage = "wait" /\ c.out.type \in {"COMMIT", "CANCEL"}
              /\ r.type # "EXCEPTION",
           \/ c'.stats = c.stats /\ (c'.cached => c.cached)
           \/ c.stage = "wait" /\ r.type = "UPDATE" /\ c'.stats = r.stats,
           \/ c'.mru = c.mru
           \/ c.stage = "wait" /\ r.type = "VALUESTATS" /\ c'.mru = r.stats,
           c'.stage = "send" =>
              \/ /\ c.stage = "send" /\ c'.out = c.out /\ c'.uncommitted = c.uncommitted
                 /\ c'.cached = c.cached /\ c'.mru = c.mru /\ c'.then = c.then
              \/ /\ c'.out.type \in {"TERMLIST", "GETMSET", "WRITEACCESS"}
                 /\ c'.then = "none" /\ ~more
                 /\ c'.out.type = "GETMSET" =>
                       c.stage = "wait" /\ c.then = "GETMSET" /\ r.type # "EXCEPTION",
           c'.stage = "wait" => c'.then = c.then
    PROVE  Inv'
<1>1. /\ ChannelsOK /\ WaitOK /\ SavedOK /\ StatsOK /\ QueryOK /\ ClosedOK /\ IsServer
      /\ AnySeq(toServer) /\ AnySeq(toClient)
  BY DEF Inv, RemoteInv
<1>2. /\ c.link = "up"
      /\ \A i \in 1..Len(toServer) : toServer[i].type # "SHUTDOWN"
      /\ toServer # <<>> => Errors(toClient) /\ ~Alive
      /\ r.type # "EXCEPTION" => toServer = <<>>
  BY AnsweredFacts
<1>3. /\ AnySeq(toClient') /\ Len(toClient) \in Nat \ {0} /\ Len(toClient') = Len(toClient) - 1
      /\ \A i \in 1..Len(toClient') : /\ i + 1 \in 1..Len(toClient)
                                      /\ i + 1 \in 2..Len(toClient)
                                      /\ toClient'[i] = toClient[i + 1]
  BY <1>1, SeqTail
<1>4. 1 \in 1..Len(toClient) BY <1>3
<1>5. Alive' = Alive /\ IsServer' BY <1>1 DEF Alive, IsServer
<1>6. Errors(toClient) => Errors(toClient') BY <1>3 DEF Errors
<1>7. ~more => Errors(toClient') /\ (Alive => toClient' = <<>>)
  <2>1. ~more => \A j \in 2..Len(toClient) : ~Alive /\ toClient[j].type = "EXCEPTION"
    <3>1. \A j \in 2..Len(toClient) : j \in 1..Len(toClient) /\ 1 < j BY <1>3
    <3> QED BY <1>1, <1>4, <3>1 DEF ChannelsOK
  <2>2. ~more => Errors(toClient') BY <1>3, <2>1 DEF Errors
  <2>3. ~more /\ Alive => toClient' = <<>>
    <3>1. ~more /\ Alive => ~(1 \in 1..Len(toClient')) BY <1>3, <2>1
    <3> QED BY <1>3, <3>1, SeqLen
  <2> QED BY <2>2, <2>3
<1>8. ~c.pending => ~more BY <1>1, <1>4 DEF WaitOK
<1>9. ChannelsOK'
  <2>1. toServer # <<>> /\ toServer[1].type # "SHUTDOWN" => Errors(toClient') /\ ~Alive
    BY <1>2, <1>6
  <2>2. \A i, j \in 1..Len(toClient') :
          i < j /\ ~is_intermediate_reply(toClient'[i].type) =>
             ~Alive /\ toClient'[j].type = "EXCEPTION"
    <3>1. TAKE i, j \in 1..Len(toClient')
    <3>2. i + 1 \in 1..Len(toClient) /\ j + 1 \in 1..Len(toClient) /\ (i < j => i + 1 < j + 1)
          /\ toClient'[i] = toClient[i + 1] /\ toClient'[j] = toClient[j + 1]
      BY <1>3
    <3> QED BY <1>1, <3>2 DEF ChannelsOK
  <2>3. ~c'.pending => Errors(toClient') /\ (Alive => toClient' = <<>>) BY <1>7, <1>8
  <2>4. ~\E i \in 1..Len(toServer) : toServer[i].type = "SHUTDOWN" BY <1>2
  <2>5. /\ \A i \in 1..Len(toServer) : toServer[i].type \in MsgTypes \cup {"SHUTDOWN"}
        /\ \A i \in 2..Len(toServer) : toServer[i].type = "SHUTDOWN"
    BY <1>1 DEF ChannelsOK
  <2> QED BY <1>5, <2>1, <2>2, <2>3, <2>4, <2>5 DEF ChannelsOK
<1>10. WaitOK'
  <2> SUFFICES ASSUME c'.stage = "wait" PROVE WaitOK' BY DEF WaitOK
  <2>1. c.stage = "wait" /\ c'.out = c.out /\ c.pending /\ c'.pending BY <1>8
  <2>2. \A i \in 1..Len(toClient) : toClient[i].id = c.out.id \/ toClient[i].type = "EXCEPTION"
    BY <1>1, <2>1 DEF WaitOK
  <2>3. Alive => \A i \in 1..Len(toServer) : toServer[i] = c.out BY <1>1, <2>1 DEF WaitOK
  <2> QED BY <1>3, <1>5, <2>1, <2>2, <2>3 DEF WaitOK
<1>11. SavedOK'
  <2>1. ~c'.uncommitted => s.cur = s.comm /\ \A i \in 1..Len(toServer) : toServer[i].type \notin Writes
    <3>1. CASE ~c.uncommitted BY <1>1, <3>1 DEF SavedOK
    <3>2. CASE c.uncommitted /\ ~c'.uncommitted
      <4>1. toServer = <<>> BY <1>2, <3>2
      <4>2. s.cur = s.comm BY <1>1, <1>4, <3>2 DEF SavedOK
      <4> QED BY <4>1, <4>2, SeqEmpty
    <3> QED BY <3>1, <3>2
  <2>2. c'.stage = "send" /\ c'.out.type \in Writes => c'.uncommitted
    BY <1>1 DEF SavedOK, Writes
  <2>3. c'.stage = "wait" /\ c'.out.type \in {"COMMIT", "CANCEL"} =>
           \A i \in 1..Len(toClient') : toClient'[i].type # "EXCEPTION" => s.cur = s.comm
    BY <1>1, <1>3 DEF SavedOK
  <2> QED BY <2>1, <2>2, <2>3 DEF SavedOK
<1>12. StatsOK'
  <2>1. \A x : Current(x)' <=> Current(x) BY <1>5 DEF Current
  <2>2. c.stage = "wait" /\ r.type \in {"UPDATE", "VALUESTATS"} => Current(r.stats)
    <3>1. r.type \in {"UPDATE", "VALUESTATS"} => toServer = <<>> BY <1>2
    <3> QED BY <1>1, <1>4, <3>1, SeqEmpty DEF StatsOK, Current
  <2>3. c'.cached => Current(c'.stats) BY <1>1, <2>2 DEF StatsOK
  <2>4. c'.mru # NoStats => Current(c'.mru) BY <1>1, <2>2 DEF StatsOK
  <2>5. c'.stage = "send" /\ c'.out.type \in Changes => ~c'.cached /\ c'.mru = NoStats
    BY <1>1 DEF StatsOK, Changes
  <2>6. c'.stage = "wait" /\ Alive /\ ~s.lost =>
          \A i \in 1..Len(toClient') :
             toClient'[i].type \in {"UPDATE", "VALUESTATS"} => toClient'[i].stats = Stats(s.cur)
    BY <1>1, <1>3 DEF StatsOK
  <2>7. c'.cached => Current(c.stats)' BY <1>5, <2>3 DEF Current
  <2>8. c'.mru # NoStats => Current(c.mru)' BY <1>5, <2>4 DEF Current
  <2> QED BY <1>5, <2>5, <2>6, <2>7, <2>8 DEF StatsOK
<1>13. QueryOK'
  <2>1. c'.stage = "send" /\ c'.out.type = "GETMSET" => ~c'.pending /\ (Alive => s.phase = "query")
    <3> SUFFICES ASSUME c'.stage = "send", c'.out.type = "GETMSET"
                 PROVE  ~c'.pending /\ (Alive => s.phase = "query")
      OBVIOUS
    <3>1. CASE c.stage = "send" /\ c'.out = c.out BY <1>1, <3>1 DEF QueryOK
    <3>2. CASE c.stage = "wait" /\ c.then = "GETMSET" /\ r.type # "EXCEPTION" /\ ~more
      <4>1. c.out.type = "QUERY" BY <1>1, <3>2 DEF QueryOK
      <4> QED BY <1>1, <1>4, <3>2, <4>1 DEF QueryOK
    <3> QED BY <3>1, <3>2
  <2>2. Alive => \A i \in 1..Len(toServer) : toServer[i].type = "GETMSET" => s.phase = "query"
    BY <1>1 DEF QueryOK
  <2>3. c'.stage = "wait" /\ c'.out.type = "QUERY" /\ Alive =>
           \A i \in 1..Len(toClient') : toClient'[i].type # "EXCEPTION" => s.phase = "query"
    BY <1>1, <1>3 DEF QueryOK
  <2>4. c'.stage \in {"send", "wait"} /\ c'.then = "GETMSET" => c'.out.type = "QUERY"
    BY <1>1 DEF QueryOK
  <2> QED BY <1>5, <2>1, <2>2, <2>3, <2>4 DEF QueryOK
<1>14. ClosedOK' BY <1>1, <1>2 DEF ClosedOK
<1> QED
  BY <1>1, <1>3, <1>5, <1>9, <1>10, <1>11, <1>12, <1>13, <1>14 DEF Inv, RemoteInv

-----------------------------------------------------------------------------
(* A reply that nobody reads any more is dropped before the next message   *)
(* is sent.                                                                *)
LEMMA DrainReplyInv == ASSUME Inv, DrainReply PROVE Inv'
<1>1. IsClient /\ c.matched /\ AnySeq(toClient) BY DEF Inv, RemoteInv
<1>2. PICK r, more : r = toClient[1] /\ more = is_intermediate_reply(r.type) OBVIOUS
<1>3. /\ c.stage = "send" /\ c.pending /\ toClient # <<>> /\ toClient' = Tail(toClient)
      /\ c' = [c EXCEPT !.pending = more]
      /\ s' = s /\ toServer' = toServer
  BY <1>1, <1>2, SeqTail DEF DrainReply
<1>4. c' = [call |-> c.call, stage |-> c.stage, then |-> c.then, need |-> c.need,
            out |-> c.out, pending |-> more, cached |-> c.cached, stats |-> c.stats,
            mru |-> c.mru, uncommitted |-> c.uncommitted, state |-> c.state,
            link |-> c.link, closed |-> c.closed, matched |-> c.matched, base |-> c.base]
  BY <1>1, <1>3 DEF IsClient
<1>5. more \in BOOLEAN BY <1>2 DEF is_intermediate_reply
<1>6. /\ c'.stage = "send" /\ c'.pending = more /\ c'.closed = c.closed /\ c'.matched
      /\ c'.uncommitted = c.uncommitted /\ c'.cached = c.cached /\ c'.stats = c.stats
      /\ c'.mru = c.mru /\ c'.out = c.out /\ c'.then = c.then
  BY <1>1, <1>3, <1>4
<1>7. IsClient' BY <1>1, <1>3, <1>4, <1>5 DEF IsClient
<1>8. c'.pending = (c.pending /\ more) BY <1>3, <1>5, <1>6
<1> QED BY <1>2, <1>3, <1>6, <1>7, <1>8, PopInv

(* The client that get_message leaves: the reply was not the one needed,   *)
(* there are more to come, or it was the last one.                         *)
LEMMA GetMessageInv == ASSUME Inv, GetMessage PROVE Inv'
<1>1. IsClient /\ c.matched /\ WaitOK /\ AnySeq(toClient) BY DEF Inv, RemoteInv
<1>2. PICK r, more : r = toClient[1] /\ more = is_intermediate_reply(r.type) OBVIOUS
<1>3. PICK matched : matched = (c.matched /\ (r.type \in c.need => r.id = c.out.id)) OBVIOUS
<1>4. PICK pending : pending = (c.pending /\ more) OBVIOUS
<1>5. PICK obj : obj = [c EXCEPT !.pending = pending, !.matched = matched] OBVIOUS
<1>6. /\ c.stage = "wait" /\ toClient # <<>> /\ toClient' = Tail(toClient)
      /\ s' = s /\ toServer' = toServer
  BY DEF GetMessage
<1>7. Head(toClient) = r /\ 1 \in 1..Len(toClient) BY <1>1, <1>2, <1>6, SeqTail
<1>8. c' = IF r.type \notin c.need THEN Thrown(obj)
           ELSE IF more THEN [obj EXCEPT !.need = RequiredAfter(r.type)]
           ELSE Finished(obj, r)
  BY <1>2, <1>3, <1>4, <1>5, <1>7 DEF GetMessage
<1>9. r.type \in c.need => r.id = c.out.id /\ r.type # "EXCEPTION"
  BY <1>1, <1>2, <1>6, <1>7 DEF WaitOK, IsClient
<1>10. matched BY <1>1, <1>3, <1>9
<1>11. more \in BOOLEAN /\ pending \in BOOLEAN BY <1>2, <1>4 DEF is_intermediate_reply
<1>12. obj = [call |-> c.call, stage |-> c.stage, then |-> c.then, need |-> c.need,
              out |-> c.out, pending |-> pending, cached |-> c.cached, stats |-> c.stats,
              mru |-> c.mru, uncommitted |-> c.uncommitted, state |-> c.state,
              link |-> c.link, closed |-> c.closed, matched |-> matched, base |-> c.base]
  BY <1>1, <1>5 DEF IsClient
<1>13. CASE r.type \notin c.need
  <2>1. PICK link : link = IF c.call \in {"open", "close"} THEN "closed" ELSE c.link OBVIOUS
  <2>2. c' = [call |-> "none", stage |-> "none", then |-> "none", need |-> c.need,
              out |-> c.out, pending |-> pending, cached |-> c.cached, stats |-> c.stats,
              mru |-> c.mru, uncommitted |-> c.uncommitted, state |-> c.state,
              link |-> link, closed |-> c.closed, matched |-> matched, base |-> c.base]
    BY <1>8, <1>12, <1>13, <2>1 DEF Thrown
  <2>3. /\ c'.stage = "none" /\ c'.pending = pending /\ c'.closed = c.closed
        /\ c'.matched = matched /\ c'.uncommitted = c.uncommitted /\ c'.cached = c.cached
        /\ c'.stats = c.stats /\ c'.mru = c.mru
    BY <2>2
  <2>4. IsClient' BY <1>1, <1>11, <2>2 DEF IsClient
  <2> QED BY <1>2, <1>4, <1>6, <1>10, <2>3, <2>4, PopInv
<1>14. CASE r.type \in c.need /\ more
  <2>1. PICK need : need = RequiredAfter(r.type) OBVIOUS
  <2>2. "EXCEPTION" \notin need BY <1>2, <1>14, <2>1, RequiredAfterTyped
  <2>3. c' = [call |-> c.call, stage |-> c.stage, then |-> c.then, need |-> need,
              out |-> c.out, pending |-> pending, cached |-> c.cached, stats |-> c.stats,
              mru |-> c.mru, uncommitted |-> c.uncommitted, state |-> c.state,
              link |-> c.link, closed |-> c.closed, matched |-> matched, base |-> c.base]
    BY <1>8, <1>12, <1>14, <2>1
  <2>4. /\ c'.stage = "wait" /\ c'.pending = pending /\ c'.closed = c.closed
        /\ c'.matched = matched /\ c'.uncommitted = c.uncommitted /\ c'.cached = c.cached
        /\ c'.stats = c.stats /\ c'.mru = c.mru /\ c'.out = c.out /\ c'.then = c.then
    BY <1>6, <2>3
  <2>5. pending = c.pending BY <1>1, <1>4, <1>14 DEF IsClient
  <2>6. IsClient' BY <1>1, <1>11, <2>2, <2>3, <2>5 DEF IsClient
  <2> QED BY <1>2, <1>4, <1>6, <1>10, <1>14, <2>4, <2>6, PopInv
<1>15. CASE r.type \in c.need /\ ~more
  <2>1. PICK uncommitted, stats, cached, mru :
           /\ uncommitted = (c.uncommitted /\ c.out.type \notin {"COMMIT", "CANCEL"})
           /\ stats = IF r.type = "UPDATE" THEN r.stats ELSE c.stats
           /\ cached = (c.cached \/ r.type = "UPDATE")
           /\ mru = IF r.type = "VALUESTATS" THEN r.stats ELSE c.mru
    OBVIOUS
  <2>2. PICK new : new = [obj EXCEPT !.uncommitted = uncommitted, !.stats = stats,
                                     !.cached = cached, !.mru = mru]
    OBVIOUS
  <2>3. new = [call |-> c.call, stage |-> c.stage, then |-> c.then, need |-> c.need,
               out |-> c.out, pending |-> pending, cached |-> cached, stats |-> stats,
               mru |-> mru, uncommitted |-> uncommitted, state |-> c.state,
               link |-> c.link, closed |-> c.closed, matched |-> matched, base |-> c.base]
    BY <1>12, <2>2
  <2>4. c' = IF c.then # "none"
             THEN [new EXCEPT !.stage = "send", !.out.type = c.then, !.then = "none",
                              !.need = Required(c.then)]
             ELSE IF c.call = "close" THEN [new EXCEPT !.stage = "shutdown"]
             ELSE [new EXCEPT !.call = "none", !.stage = "none",
                              !.state = IF c.call = "begin" THEN "flushed" ELSE c.state,
                              !.base = IF c.call = "begin" THEN s.comm ELSE c.base]
    <3>1. c' = Finished(obj, r) BY <1>8, <1>15
    <3>2. /\ obj.out = c.out /\ obj.then = c.then /\ obj.call = c.call /\ obj.stats = c.stats
          /\ obj.cached = c.cached /\ obj.mru = c.mru /\ obj.uncommitted = c.uncommitted
      BY <1>12
    <3>3. new.state = c.state /\ new.base = c.base BY <2>3
    <3> DEFINE end == [obj EXCEPT
                          !.uncommitted = @ /\ obj.out.type \notin {"COMMIT", "CANCEL"},
                          !.stats = IF r.type = "UPDATE" THEN r.stats ELSE @,
                          !.cached = @ \/ r.type = "UPDATE",
                          !.mru = IF r.type = "VALUESTATS" THEN r.stats ELSE @]
    <3>4. new = end BY <2>1, <2>2, <3>2
    <3>5. Finished(obj, r) =
             IF obj.then # "none"
             THEN [end EXCEPT !.stage = "send", !.out.type = obj.then, !.then = "none",
                              !.need = Required(obj.then)]
             ELSE IF obj.call = "close" THEN [end EXCEPT !.stage = "shutdown"]
             ELSE [end EXCEPT !.call = "none", !.stage = "none",
                              !.state = IF obj.call = "begin" THEN "flushed" ELSE @,
                              !.base = IF obj.call = "begin" THEN s.comm ELSE @]
      BY DEF Finished
    <3> HIDE DEF end
    <3> QED BY <3>1, <3>2, <3>3, <3>4, <3>5
  <2>5. r.type # "EXCEPTION" BY <1>9, <1>15
  <2>6. /\ ~uncommitted /\ c.uncommitted => c.out.type \in {"COMMIT", "CANCEL"}
        /\ \/ stats = c.stats /\ (cached => c.cached)
           \/ r.type = "UPDATE" /\ stats = r.stats
        /\ mru = c.mru \/ (r.type = "VALUESTATS" /\ mru = r.stats)
    BY <2>1
  <2>7. CASE c.then # "none"
    <3>1. PICK need : need = Required(c.then) OBVIOUS
    <3>2. "EXCEPTION" \notin need BY <3>1, RequiredTyped
    <3>3. PICK out : out = [type |-> c.then, arg |-> c.out.arg, id |-> c.out.id] OBVIOUS
    <3>4. out = [c.out EXCEPT !.type = c.then] BY <1>1, <3>3 DEF IsClient
    <3>5. c' = [call |-> c.call, stage |-> "send", then |-> "none", need |-> need,
                out |-> out, pending |-> pending, cached |-> cached, stats |-> stats,
                mru |-> mru, uncommitted |-> uncommitted, state |-> c.state,
                link |-> c.link, closed |-> c.closed, matched |-> matched, base |-> c.base]
      BY <2>3, <2>4, <2>7, <3>1, <3>4
    <3>6. /\ c'.stage = "send" /\ c'.pending = pending /\ c'.closed = c.closed
          /\ c'.matched = matched /\ c'.uncommitted = uncommitted /\ c'.cached = cached
          /\ c'.stats = stats /\ c'.mru = mru /\ c'.out = out /\ c'.then = "none"
      BY <3>5
    <3>7. /\ out = [type |-> out.type, arg |-> out.arg, id |-> out.id]
          /\ out.type = c.then
          /\ out.type \in {"TERMLIST", "GETMSET", "WRITEACCESS"}
      BY <1>1, <2>7, <3>3 DEF IsClient
    <3>8. IsClient' BY <1>1, <1>6, <1>11, <3>2, <3>5, <3>7 DEF IsClient, MsgTypes
    <3> QED BY <1>2, <1>4, <1>6, <1>10, <1>15, <2>5, <2>6, <3>6, <3>7, <3>8, PopInv
  <2>8. ASSUME NEW call, NEW stage, NEW state, NEW base, c.then = "none",
               stage \in {"shutdown", "none"}, call = "none" => stage = "none",
               c' = [call |-> call, stage |-> stage, then |-> c.then, need |-> c.need,
                     out |-> c.out, pending |-> pending, cached |-> cached, stats |-> stats,
                     mru |-> mru, uncommitted |-> uncommitted, state |-> state,
                     link |-> c.link, closed |-> c.closed, matched |-> matched, base |-> base]
        PROVE  Inv'
    <3>1. /\ c'.stage = stage /\ c'.pending = pending /\ c'.closed = c.closed
          /\ c'.matched = matched /\ c'.uncommitted = uncommitted /\ c'.cached = cached
          /\ c'.stats = stats /\ c'.mru = mru /\ c'.call = call /\ c'.then = c.then
          /\ c'.need = c.need /\ c'.out = c.out /\ c'.link = c.link
      BY <2>8
    <3>2. c.link = "up" BY <1>1, <1>6 DEF IsClient
    <3>3. IsClient'
      <4>1. c' = [call |-> c'.call, stage |-> c'.stage, then |-> c'.then, need |-> c'.need,
                  out |-> c'.out, pending |-> c'.pending, cached |-> c'.cached,
                  stats |-> c'.stats, mru |-> c'.mru, uncommitted |-> c'.uncommitted,
                  state |-> c'.state, link |-> c'.link, closed |-> c'.closed,
                  matched |-> c'.matched, base |-> c'.base]
        BY <2>8
      <4> QED BY <1>1, <1>11, <2>8, <3>1, <3>2, <4>1 DEF IsClient
    <3>4. /\ c'.matched /\ c'.stage \notin {"closing", "wait", "send"}
          /\ c'.closed = c.closed /\ c'.pending = (c.pending /\ more)
      BY <1>4, <1>10, <2>8, <3>1
    <3>5. /\ ~c'.uncommitted /\ c.uncommitted =>
                 /\ c.stage = "wait" /\ c.out.type \in {"COMMIT", "CANCEL"}
                 /\ r.type # "EXCEPTION"
          /\ \/ c'.stats = c.stats /\ (c'.cached => c.cached)
             \/ c.stage = "wait" /\ r.type = "UPDATE" /\ c'.stats = r.stats
          /\ \/ c'.mru = c.mru
             \/ c.stage = "wait" /\ r.type = "VALUESTATS" /\ c'.mru = r.stats
      BY <1>6, <2>5, <2>6, <3>1
    <3> QED BY <1>2, <1>6, <3>3, <3>4, <3>5, PopInv
  <2>9. CASE c.then = "none" /\ c.call = "close"
    <3>1. c' = [new EXCEPT !.stage = "shutdown"] BY <2>4, <2>9
    <3>2. c' = [call |-> c.call, stage |-> "shutdown", then |-> c.then, need |-> c.need,
                out |-> c.out, pending |-> pending, cached |-> cached, stats |-> stats,
                mru |-> mru, uncommitted |-> uncommitted, state |-> c.state,
                link |-> c.link, closed |-> c.closed, matched |-> matched, base |-> c.base]
      BY <2>3, <3>1
    <3> QED BY <2>8, <2>9, <3>2
  <2>10. CASE c.then = "none" /\ c.call # "close"
    <3>1. PICK state, base : /\ state = IF c.call = "begin" THEN "flushed" ELSE c.state
                             /\ base = IF c.call = "begin" THEN s.comm ELSE c.base
      OBVIOUS
    <3>2. c' = [new EXCEPT !.call = "none", !.stage = "none", !.state = state, !.base = base]
      BY <2>4, <2>10, <3>1
    <3>3. c' = [call |-> "none", stage |-> "none", then |-> c.then, need |-> c.need,
                out |-> c.out, pending |-> pending, cached |-> cached, stats |-> stats,
                mru |-> mru, uncommitted |-> uncommitted, state |-> state,
                link |-> c.link, closed |-> c.closed, matched |-> matched, base |-> base]
      BY <2>3, <3>2
    <3> QED BY <2>8, <2>10, <3>3
  <2> QED BY <2>7, <2>9, <2>10
<1> QED BY <1>11, <1>13, <1>14, <1>15

-----------------------------------------------------------------------------
(* send_message() sends, or finds that the connection has gone.            *)
LEMMA SendMessageInv == ASSUME Inv, SendMessage PROVE Inv'
<1>1. /\ IsClient /\ IsServer /\ ChannelsOK /\ SavedOK /\ StatsOK /\ QueryOK /\ ClosedOK /\ c.matched
      /\ AnySeq(toServer) /\ AnySeq(toClient)
  BY DEF Inv, RemoteInv
<1>2. /\ c.stage = "send" /\ ~c.pending /\ s' = s /\ toClient' = toClient
      /\ toServer' = IF Alive THEN Append(toServer, c.out) ELSE toServer
  BY DEF SendMessage
<1>3. c.link = "up" BY <1>1, <1>2 DEF IsClient
<1>4. Errors(toClient) /\ (Alive => toClient = <<>>) BY <1>1, <1>2, <1>3 DEF ChannelsOK
<1>5. CASE ~Alive /\ c' = Thrown(c)
  <2>1. PICK link : link = IF c.call \in {"open", "close"} THEN "closed" ELSE c.link OBVIOUS
  <2>2. c = [c EXCEPT !.pending = c.pending] BY <1>1 DEF IsClient
  <2>3. c' = [c EXCEPT !.pending = c.pending, !.call = "none", !.then = "none",
                       !.stage = "none", !.link = link]
    BY <1>1, <1>5, <2>1, <2>2, ThrownIs
  <2>4. link \in {c.link, "closed"} /\ c.pending \in BOOLEAN BY <1>1, <2>1 DEF IsClient
  <2>5. PICK pending, then : pending = c.pending /\ then = "none" OBVIOUS
  <2>6. /\ pending \in BOOLEAN /\ then \in {c.then, "none"} /\ link \in {c.link, "closed"}
        /\ pending = c.pending \/ (toClient = <<>> /\ ~Alive)
        /\ ~pending /\ link = "up" => Errors(toClient) /\ (Alive => toClient = <<>>)
        /\ c.stage = "closing" => link = "closed"
        /\ c' = Left(pending, then, link)
    BY <1>2, <1>4, <2>3, <2>4, <2>5 DEF Left
  <2>7. s' = s /\ toServer' = toServer /\ toClient' = toClient BY <1>2, <1>5
  <2> QED BY <1>3, <2>6, <2>7, LeftInv
<1>6. CASE c' = [c EXCEPT !.stage = "wait", !.pending = TRUE]
  <2>1. c' = [call |-> c.call, stage |-> "wait", then |-> c.then, need |-> c.need,
              out |-> c.out, pending |-> TRUE, cached |-> c.cached, stats |-> c.stats,
              mru |-> c.mru, uncommitted |-> c.uncommitted, state |-> c.state,
              link |-> c.link, closed |-> c.closed, matched |-> c.matched, base |-> c.base]
    BY <1>1, <1>6 DEF IsClient
  <2>2. /\ c'.stage = "wait" /\ c'.pending = TRUE /\ c'.closed = c.closed /\ c'.link = c.link
        /\ c'.matched /\ c'.uncommitted = c.uncommitted /\ c'.cached = c.cached
        /\ c'.stats = c.stats /\ c'.mru = c.mru /\ c'.out = c.out /\ c'.then = c.then
    BY <1>1, <2>1
  <2>3. IsClient' BY <1>1, <1>2, <2>1 DEF IsClient
  <2>4. Alive' = Alive /\ IsServer' BY <1>1, <1>2 DEF Alive, IsServer
  <2>5. \A i \in 1..Len(toServer) : toServer[i].type # "SHUTDOWN" BY <1>1, <1>2, <1>3 DEF ChannelsOK
  <2>6. Alive => toServer = <<>>
    <3>1. toServer # <<>> => 1 \in 1..Len(toServer) BY <1>1, SeqLen
    <3> QED BY <1>1, <1>2, <2>5, <3>1 DEF ChannelsOK
  <2>7. /\ AnySeq(toServer')
        /\ Alive => Len(toServer') = 1 /\ toServer'[1] = c.out
    BY <1>1, <1>2, <2>6, SeqAppend, SeqEmpty
  <2>8. Alive => \A i \in 1..Len(toServer') : i = 1 /\ toServer'[i] = c.out
    <3>1. 1..1 = {1} OBVIOUS
    <3>2. PICK n, q : n = Len(q) /\ q = toServer' OBVIOUS
    <3>3. Alive => n = 1 /\ q[1] = c.out BY <2>7, <3>2
    <3>4. Alive => \A i \in 1..n : i = 1 /\ q[i] = c.out BY <3>1, <3>3
    <3> QED BY <3>2, <3>4
  <2>9. \A i \in 1..Len(toServer') : \/ toServer'[i] = c.out
                                     \/ ~Alive /\ i \in 1..Len(toServer) /\ toServer'[i] = toServer[i]
    BY <1>2, <2>8
  <2>10. c.out.type \in MsgTypes /\ c.out.type # "SHUTDOWN" BY <1>1 DEF IsClient, MsgTypes, Writes
  <2>11. ChannelsOK'
    <3>1. \A i \in 1..Len(toServer') : toServer'[i].type \in MsgTypes \cup {"SHUTDOWN"}
      BY <1>1, <2>9, <2>10 DEF ChannelsOK
    <3>2. \A i \in 2..Len(toServer') : toServer'[i].type = "SHUTDOWN"
      <4>1. CASE Alive
        <5>1. Len(toServer') = 1 BY <2>7, <4>1
        <5>2. 2..1 = {} OBVIOUS
        <5> QED BY <5>1, <5>2
      <4>2. CASE ~Alive BY <1>1, <1>2, <4>2 DEF ChannelsOK
      <4> QED BY <4>1, <4>2
    <3>3. ~\E i \in 1..Len(toServer') : toServer'[i].type = "SHUTDOWN" BY <2>5, <2>9, <2>10
    <3>4. \A i, j \in 1..Len(toClient) :
            i < j /\ ~is_intermediate_reply(toClient[i].type) =>
               ~Alive /\ toClient[j].type = "EXCEPTION"
      BY <1>1 DEF ChannelsOK
    <3> QED BY <1>2, <1>4, <2>2, <2>4, <3>1, <3>2, <3>3, <3>4 DEF ChannelsOK
  <2>12. WaitOK' BY <1>2, <1>4, <2>2, <2>4, <2>8 DEF WaitOK, Errors
  <2>13. SavedOK'
    <3>1. ~c.uncommitted => s.cur = s.comm /\ \A i \in 1..Len(toServer') : toServer'[i].type \notin Writes
      BY <1>1, <1>2, <2>9 DEF SavedOK
    <3> QED BY <1>2, <1>4, <2>2, <3>1 DEF SavedOK, Errors
  <2>14. StatsOK'
    <3>1. ASSUME NEW x, Current(x), c.out.type \notin Changes PROVE Current(x)'
      BY <1>2, <2>4, <2>8, <3>1 DEF Current
    <3>2. c.cached => Current(c.stats)'
      <4>1. PICK x : x = c.stats OBVIOUS
      <4>2. c.cached => Current(x)' BY <1>1, <1>2, <3>1, <4>1 DEF StatsOK
      <4> QED BY <2>2, <4>1, <4>2 DEF Current
    <3>3. c.mru # NoStats => Current(c.mru)'
      <4>1. PICK x : x = c.mru OBVIOUS
      <4>2. c.mru # NoStats => Current(x)' BY <1>1, <1>2, <3>1, <4>1 DEF StatsOK
      <4> QED BY <2>2, <4>1, <4>2 DEF Current
    <3> QED BY <1>2, <1>4, <2>2, <3>2, <3>3 DEF StatsOK, Errors
  <2>15. QueryOK'
    <3>1. Alive => \A i \in 1..Len(toServer') : toServer'[i].type = "GETMSET" => s.phase = "query"
      BY <1>1, <1>2, <2>8 DEF QueryOK
    <3> QED BY <1>1, <1>2, <1>4, <2>2, <2>4, <3>1 DEF QueryOK, Errors
  <2>16. ClosedOK' BY <1>1, <1>3, <2>2 DEF ClosedOK
  <2> QED
    BY <1>1, <1>2, <2>2, <2>3, <2>4, <2>7, <2>11, <2>12, <2>13, <2>14, <2>15, <2>16
    DEF Inv, RemoteInv
<1> QED BY <1>5, <1>6 DEF SendMessage

(* do_close() sends MSG_SHUTDOWN.                                          *)
LEMMA SendShutdownInv == ASSUME Inv, SendShutdown PROVE Inv'
<1>1. /\ IsClient /\ IsServer /\ ChannelsOK /\ SavedOK /\ StatsOK /\ QueryOK /\ ClosedOK /\ c.matched
      /\ AnySeq(toServer) /\ AnySeq(toClient)
  BY DEF Inv, RemoteInv
<1>2. PICK msg : msg = [type |-> "SHUTDOWN", arg |-> 0, id |-> 0] OBVIOUS
<1>3. /\ c.stage = "shutdown" /\ s' = s /\ toClient' = toClient
      /\ c' = [c EXCEPT !.stage = "closing"]
      /\ toServer' = IF Alive THEN Append(toServer, msg) ELSE toServer
  BY <1>2 DEF SendShutdown
<1>4. c' = [call |-> c.call, stage |-> "closing", then |-> c.then, need |-> c.need,
            out |-> c.out, pending |-> c.pending, cached |-> c.cached, stats |-> c.stats,
            mru |-> c.mru, uncommitted |-> c.uncommitted, state |-> c.state,
            link |-> c.link, closed |-> c.closed, matched |-> c.matched, base |-> c.base]
  BY <1>1, <1>3 DEF IsClient
<1>5. /\ c'.stage = "closing" /\ c'.pending = c.pending /\ c'.closed = c.closed
      /\ c'.link = c.link /\ c'.matched /\ c'.uncommitted = c.uncommitted
      /\ c'.cached = c.cached /\ c'.stats = c.stats /\ c'.mru = c.mru
  BY <1>1, <1>4
<1>6. IsClient' BY <1>1, <1>3, <1>4 DEF IsClient
<1>7. Alive' = Alive /\ IsServer' BY <1>1, <1>3 DEF Alive, IsServer
<1>8. msg.type = "SHUTDOWN" BY <1>2
<1>9. /\ AnySeq(toServer')
      /\ \A i \in 1..Len(toServer') : \/ i \in 1..Len(toServer) /\ toServer'[i] = toServer[i]
                                      \/ toServer'[i].type = "SHUTDOWN"
      /\ toServer' # <<>> /\ toServer'[1].type # "SHUTDOWN" =>
            toServer # <<>> /\ toServer[1].type # "SHUTDOWN"
  <2>1. CASE ~Alive BY <1>1, <1>3, <2>1
  <2>2. CASE Alive
    <3>1. /\ AnySeq(toServer') /\ Len(toServer) \in Nat /\ Len(toServer') = Len(toServer) + 1
          /\ \A i \in 1..Len(toServer) : toServer'[i] = toServer[i]
          /\ toServer'[Len(toServer) + 1].type = "SHUTDOWN"
      BY <1>1, <1>3, <1>8, <2>2, SeqAppend
    <3>2. \A i \in 1..Len(toServer') : i \in 1..Len(toServer) \/ i = Len(toServer) + 1 BY <3>1
    <3>3. toServer # <<>> => 1 \in 1..Len(toServer) BY <1>1, SeqLen
    <3>4. toServer = <<>> => toServer'[1].type = "SHUTDOWN" BY <3>1, SeqEmpty
    <3> QED BY <3>1, <3>2, <3>3, <3>4
  <2> QED BY <2>1, <2>2
<1>10. ChannelsOK'
  <2>1. \A i \in 1..Len(toServer') : toServer'[i].type \in MsgTypes \cup {"SHUTDOWN"}
    BY <1>1, <1>9 DEF ChannelsOK
  <2>2. \A i \in 2..Len(toServer') : toServer'[i].type = "SHUTDOWN"
    <3>1. TAKE i \in 2..Len(toServer')
    <3>2. Len(toServer') \in Nat /\ Len(toServer) \in Nat BY <1>1, <1>9, SeqLen
    <3>3. i \in 1..Len(toServer') /\ (i \in 1..Len(toServer) => i \in 2..Len(toServer)) BY <3>2
    <3> QED BY <1>1, <1>9, <3>3 DEF ChannelsOK
  <2>3. toServer' # <<>> /\ toServer'[1].type # "SHUTDOWN" =>
          Errors(toClient) /\ (Alive => c.pending /\ toClient = <<>>)
    BY <1>1, <1>9 DEF ChannelsOK
  <2>4. /\ \A i, j \in 1..Len(toClient) :
             i < j /\ ~is_intermediate_reply(toClient[i].type) =>
                ~Alive /\ toClient[j].type = "EXCEPTION"
        /\ ~c.pending /\ c.link = "up" => Errors(toClient) /\ (Alive => toClient = <<>>)
    BY <1>1, <1>3 DEF ChannelsOK
  <2> QED BY <1>3, <1>5, <1>7, <2>1, <2>2, <2>3, <2>4 DEF ChannelsOK
<1>11. WaitOK' BY <1>5 DEF WaitOK
<1>12. SavedOK' BY <1>1, <1>3, <1>5, <1>9 DEF SavedOK, Writes
<1>13. StatsOK' 
  <2>1. \A i \in 1..Len(toServer') : \/ i \in 1..Len(toServer) /\ toServer'[i] = toServer[i]
                                     \/ toServer'[i].type \notin Changes
    BY <1>9 DEF Changes
  <2> QED BY <1>1, <1>3, <1>5, <1>7, <2>1 DEF StatsOK, Current
<1>14. QueryOK' BY <1>1, <1>3, <1>5, <1>7, <1>9 DEF QueryOK
<1>15. ClosedOK' BY <1>1, <1>5, <1>7 DEF ClosedOK
<1> QED
  BY <1>1, <1>3, <1>5, <1>6, <1>7, <1>9, <1>10, <1>11, <1>12, <1>13, <1>14, <1>15
  DEF Inv, RemoteInv

-----------------------------------------------------------------------------
(* A call need not change its object before it sends.                      *)
LEMMA StartsSame == ASSUME IsClient PROVE Starts(c)
  BY DEF IsClient, Starts

(* A call that sends a message which changes no document.                  *)
LEMMA PlainCallInv ==
    ASSUME Inv, NEW call, call # "none", NEW type, NEW then,
           type \in MsgTypes \ (Writes \cup {"CANCEL", "GETMSET"}),
           then \in {"none", "TERMLIST", "GETMSET", "WRITEACCESS"},
           then = "GETMSET" => type = "QUERY",
           Begin(c, call, type, 0, then)
    PROVE  Inv'
<1>1. Starts(c) BY StartsSame DEF Inv, RemoteInv
<1>2. type \notin Writes /\ type \notin Changes BY DEF Writes, Changes
<1>3. type \in MsgTypes \ {"GETMSET"} OBVIOUS
<1> QED BY <1>1, <1>2, <1>3, BeginInv

(* The object with its transaction state set.                              *)
InState(state) == [c EXCEPT !.state = state]

(* commit(), as the calls that have to commit first use it.                *)
LEMMA CommitForInv ==
    ASSUME Inv, NEW obj, NEW state, obj = InState(state), NEW call, call # "none",
           NEW done, NEW dcall, NEW dstage, NEW dstate, NEW dbase,
           dcall = "none" => dstage = "none", dstage \in {"none", "shutdown"},
           done = Done(dcall, dstage, dstate, dbase),
           CommitFor(obj, call, done)
    PROVE  Inv'
<1>1. CASE c.uncommitted
  <2>1. Begin(obj, call, "COMMIT", 0, "none") BY <1>1 DEF CommitFor
  <2>2. Starts(obj)
    <3>1. IsClient BY DEF Inv, RemoteInv
    <3> QED BY <3>1 DEF IsClient, Starts, InState
  <2>3. "COMMIT" \in MsgTypes \ {"GETMSET"} /\ "COMMIT" \notin Writes /\ "COMMIT" \notin Changes
    BY DEF MsgTypes, Writes, Changes
  <2> QED BY <2>1, <2>2, <2>3, BeginInv
<1>2. CASE ~c.uncommitted
  <2>1. Return(done) BY <1>2 DEF CommitFor
  <2> QED BY <2>1, ReturnInv
<1> QED BY <1>1, <1>2

(* cancel(), as the calls that have to cancel first use it.                *)
LEMMA CancelForInv ==
    ASSUME Inv, NEW obj, NEW state, obj = InState(state), NEW call, call # "none",
           NEW done, NEW dcall, NEW dstage, NEW dstate, NEW dbase,
           dcall = "none" => dstage = "none", dstage \in {"none", "shutdown"},
           done = Done(dcall, dstage, dstate, dbase),
           CancelFor(obj, call, done)
    PROVE  Inv'
<1>1. CASE c.uncommitted
  <2>1. PICK start : start = [obj EXCEPT !.cached = FALSE, !.mru = NoStats] OBVIOUS
  <2>2. Begin(start, call, "CANCEL", 0, "none") BY <1>1, <2>1 DEF CancelFor
  <2>3. Starts(start) /\ ~start.cached /\ start.mru = NoStats
    <3>1. IsClient BY DEF Inv, RemoteInv
    <3> QED BY <2>1, <3>1 DEF IsClient, Starts, InState
  <2>4. "CANCEL" \in MsgTypes \ {"GETMSET"} /\ "CANCEL" \notin Writes
    BY DEF MsgTypes, Writes
  <2> QED BY <2>2, <2>3, <2>4, BeginInv
<1>2. CASE ~c.uncommitted
  <2>1. Return(done) BY <1>2 DEF CancelFor
  <2> QED BY <2>1, ReturnInv
<1> QED BY <1>1, <1>2

(* A call that changes the database.                                       *)
LEMMA WriteCallInv ==
    ASSUME Inv, NEW type, type \in Writes, NEW arg, NEW obj,
           \/ obj = Changing
           \/ type = "SETMETADATA" /\ obj = [c EXCEPT !.uncommitted = TRUE],
           Begin(obj, "write", type, arg, "none")
    PROVE  Inv'
<1>1. IsClient BY DEF Inv, RemoteInv
<1>2. Starts(obj) /\ obj.uncommitted /\ (type \in Changes => ~obj.cached /\ obj.mru = NoStats)
  <2>1. CASE obj = Changing BY <1>1, <2>1 DEF Changing, IsClient, Starts
  <2>2. CASE type = "SETMETADATA" /\ obj = [c EXCEPT !.uncommitted = TRUE]
    BY <1>1, <2>2 DEF IsClient, Starts, Changes
  <2> QED BY <2>1, <2>2
<1>3. type \in MsgTypes \ {"GETMSET"} BY DEF MsgTypes, Writes
<1> QED BY <1>2, <1>3, BeginInv

(* Every call preserves the invariant.                                     *)
LEMMA CallsInv == ASSUME Inv, Calls PROVE Inv'
<1>1. IsClient BY DEF Inv, RemoteInv
<1>2. CASE \E len \in Lengths : add_document(len)
  BY <1>2, WriteCallInv DEF add_document, Writes
<1>3. CASE \E did \in 1..MaxDocid : delete_document(did)
  BY <1>3, WriteCallInv DEF delete_document, Writes
<1>4. CASE set_metadata(1)
  BY <1>4, WriteCallInv DEF set_metadata, Writes
<1>5. CASE update_stats BY <1>5, PlainCallInv DEF update_stats, MsgTypes, Writes
<1>6. CASE read_value_stats BY <1>6, PlainCallInv DEF read_value_stats, MsgTypes, Writes
<1>7. CASE ReadCall("READ") BY <1>7, PlainCallInv DEF ReadCall, MsgTypes, Writes
<1>8. CASE open_document BY <1>8, PlainCallInv DEF open_document, ReadCall, MsgTypes, Writes
<1>9. CASE open_post_list BY <1>9, PlainCallInv DEF open_post_list, ReadCall, MsgTypes, Writes
<1>10. CASE open_term_list
  <2>1. ReadCall("TERMLIST") \/ Begin(c, "read", "UPDATE", 0, "TERMLIST")
    BY <1>10 DEF open_term_list
  <2> QED BY <2>1, PlainCallInv DEF ReadCall, MsgTypes, Writes
<1>11. CASE reopen
  <2>1. PICK obj : obj = [c EXCEPT !.mru = NoStats] OBVIOUS
  <2>2. Starts(obj) BY <1>1, <2>1 DEF IsClient, Starts
  <2>3. Begin(obj, "read", "REOPEN", 0, "none") BY <1>11, <2>1 DEF reopen
  <2>4. "REOPEN" \in MsgTypes \ {"GETMSET"} /\ "REOPEN" \notin Writes /\ "REOPEN" \notin Changes
    BY DEF MsgTypes, Writes, Changes
  <2> QED BY <2>2, <2>3, <2>4, BeginInv
<1>12. CASE query BY <1>12, PlainCallInv DEF query, MsgTypes, Writes
<1>13. CASE commit
  <2>1. CommitFor(c, "commit", c) BY <1>13 DEF commit
  <2>2. CASE c.uncommitted
    <3>1. Begin(c, "commit", "COMMIT", 0, "none") BY <2>1, <2>2 DEF CommitFor
    <3> QED BY <3>1, PlainCallInv DEF MsgTypes, Writes
  <2>3. CASE ~c.uncommitted
    <3>1. Return(c) /\ Ready BY <2>1, <2>3 DEF CommitFor, Return
    <3>2. c.stage = "none" BY <3>1, ReadyFacts
    <3>3. PICK call, stage, state, base :
            call = c.call /\ stage = c.stage /\ state = c.state /\ base = c.base
      OBVIOUS
    <3>4. c = Done(call, stage, state, base) BY <1>1, <3>3 DEF IsClient, Done
    <3> QED BY <3>1, <3>2, <3>3, <3>4, ReturnInv
  <2> QED BY <2>2, <2>3
<1>14. ASSUME NEW kind, begin_transaction(kind) PROVE Inv'
  <2>1. PICK base : base = s.comm OBVIOUS
  <2>2. c = [c EXCEPT !.state = c.state] BY <1>1 DEF IsClient
  <2>3. CASE kind = "flushed"
    <3>1. PICK done : done = [c EXCEPT !.state = kind, !.base = base] OBVIOUS
    <3>2. CommitFor(c, "begin", done) BY <1>14, <2>1, <2>3, <3>1 DEF begin_transaction
    <3>3. Ready BY <3>2 DEF CommitFor, Begin, Return
    <3>4. c.call = "none" /\ c.stage = "none" BY <3>3, ReadyFacts
    <3>5. c = InState(c.state) BY <2>2 DEF InState
    <3>6. done = Done("none", "none", kind, base) BY <1>1, <3>1, <3>4 DEF IsClient, Done
    <3> QED BY <3>2, <3>5, <3>6, CommitForInv
  <2>4. CASE kind # "flushed"
    <3>1. PICK done : done = [c EXCEPT !.state = kind] OBVIOUS
    <3>2. Return(done) /\ Ready BY <1>14, <2>4, <3>1 DEF begin_transaction, Return
    <3>3. c.call = "none" /\ c.stage = "none" BY <3>2, ReadyFacts
    <3>4. done = Done("none", "none", kind, c.base) BY <1>1, <3>1, <3>3 DEF IsClient, Done
    <3> QED BY <3>2, <3>4, ReturnInv
  <2> QED BY <2>3, <2>4
<1>15. ASSUME NEW do_commit, end_transaction(do_commit) PROVE Inv'
  <2>1. PICK obj : obj = [c EXCEPT !.state = "none"] OBVIOUS
  <2>2. CancelFor(obj, "end", obj) \/ CommitFor(obj, "end", obj) \/ Return(obj)
    BY <1>15, <2>1 DEF end_transaction
  <2>3. Ready BY <2>2 DEF CancelFor, CommitFor, Begin, Return
  <2>4. c.call = "none" /\ c.stage = "none" BY <2>3, ReadyFacts
  <2>5. obj = InState("none") BY <2>1 DEF InState
  <2>6. obj = Done("none", "none", "none", c.base) BY <1>1, <2>1, <2>4 DEF IsClient, Done
  <2>7. CASE CancelFor(obj, "end", obj) BY <2>5, <2>6, <2>7, CancelForInv
  <2>8. CASE CommitFor(obj, "end", obj) BY <2>5, <2>6, <2>8, CommitForInv
  <2>9. CASE Return(obj) BY <2>6, <2>9, ReturnInv
  <2> QED BY <2>2, <2>7, <2>8, <2>9
<1>16. CASE do_close
  <2>1. PICK obj : obj = [c EXCEPT !.state = "none"] OBVIOUS
  <2>2. PICK shut : shut = [obj EXCEPT !.call = "close", !.stage = "shutdown"] OBVIOUS
  <2>3. CancelFor(obj, "close", shut) \/ CommitFor(obj, "close", shut)
    BY <1>16, <2>1, <2>2 DEF do_close
  <2>4. shut = [c EXCEPT !.call = "close", !.stage = "shutdown", !.state = "none",
                         !.base = c.base]
    BY <1>1, <2>1, <2>2 DEF IsClient
  <2>5. obj = InState("none") /\ shut = Done("close", "shutdown", "none", c.base)
    BY <2>1, <2>4 DEF InState, Done
  <2>6. CASE CancelFor(obj, "close", shut) BY <2>5, <2>6, CancelForInv
  <2>7. CASE CommitFor(obj, "close", shut) BY <2>5, <2>7, CommitForInv
  <2> QED BY <2>3, <2>6, <2>7
<1> QED
  BY <1>2, <1>3, <1>4, <1>5, <1>6, <1>7, <1>8, <1>9, <1>10, <1>11, <1>12, <1>13, <1>14, <1>15,
     <1>16
  DEF Calls

(* The invariant holds once the server's greeting is on its way.           *)
LEMMA InitInv == Init => Inv
<1> SUFFICES ASSUME Init PROVE Inv OBVIOUS
<1>1. PICK st : st = Stats(NoDocs) OBVIOUS
<1>2. PICK r : r = StatsReply("UPDATE", 0, NoDocs) OBVIOUS
<1>3. r.type = "UPDATE" /\ r.id = 0 /\ r.stats = st BY <1>1, <1>2, ReplyTyped
<1>4. PICK out : out = [type |-> "UPDATE", arg |-> 0, id |-> 0] OBVIOUS
<1>5. /\ s = [cur |-> NoDocs, comm |-> NoDocs, phase |-> "idle", wdb |-> FALSE,
              lost |-> FALSE]
      /\ c = [call |-> "open", stage |-> "wait", then |-> "WRITEACCESS", need |-> {"UPDATE"},
              out |-> out, pending |-> FALSE,
              cached |-> FALSE, stats |-> st, mru |-> NoStats,
              uncommitted |-> FALSE, state |-> "none", link |-> "up", closed |-> FALSE,
              matched |-> TRUE, base |-> NoDocs]
      /\ toServer = <<>> /\ toClient = <<r>>
  BY <1>1, <1>2, <1>4 DEF Init
<1>6. AnySeq(toServer) /\ Len(toServer) = 0 BY <1>5, SeqEmpty
<1>7. AnySeq(toClient) /\ Len(toClient) = 1 /\ toClient[1] = r BY <1>5, SeqOne
<1>8. \A i \in 1..Len(toClient) : i = 1 /\ toClient[i] = r BY <1>7
<1>9. \A i \in 1..Len(toServer) : FALSE BY <1>6
<1>10. IsClient BY <1>4, <1>5 DEF IsClient, MsgTypes
<1>11. IsServer /\ s.cur = s.comm /\ Stats(s.cur) = st BY <1>1, <1>5 DEF IsServer
<1>12. ChannelsOK
  <2>1. \A i \in 2..Len(toServer) : FALSE BY <1>6
  <2>2. \A i, j \in 1..Len(toClient) : ~(i < j) BY <1>7
  <2> QED BY <1>5, <1>9, <2>1, <2>2 DEF ChannelsOK
<1>13. WaitOK BY <1>3, <1>4, <1>5, <1>8, <1>9 DEF WaitOK, is_intermediate_reply
<1>14. SavedOK BY <1>5, <1>9, <1>11 DEF SavedOK
<1>15. StatsOK BY <1>3, <1>5, <1>8, <1>11 DEF StatsOK
<1>16. QueryOK BY <1>4, <1>5, <1>9 DEF QueryOK
<1>17. ClosedOK BY <1>5 DEF ClosedOK
<1>18. c.matched BY <1>5
<1> QED
  BY <1>6, <1>7, <1>10, <1>11, <1>12, <1>13, <1>14, <1>15, <1>16, <1>17, <1>18 DEF Inv, RemoteInv

(* Every step preserves the invariant.                                     *)
LEMMA NextInv == Inv /\ [Next]_vars => Inv'
<1> SUFFICES ASSUME Inv, [Next]_vars PROVE Inv' OBVIOUS
<1>1. CASE Calls BY <1>1, CallsInv
<1>2. CASE ClientSteps
  BY <1>2, DrainReplyInv, SendMessageInv, GetMessageInv, ConnectionClosedInv, SendShutdownInv,
     CloseLinkInv DEF ClientSteps
<1>3. CASE ServerSteps
  <2>1. ServerRun \/ ServerEOF BY <1>3 DEF ServerSteps
  <2> QED BY <2>1, ServerRunInv, ServerEOFInv
<1>4. CASE ServerTimeout BY <1>4, ServerTimeoutInv
<1>5. CASE KillServer BY <1>5, KillServerInv
<1>6. CASE GiveUp BY <1>6, GiveUpInv
<1>7. CASE KillClient BY <1>7, KillClientInv
<1>8. CASE UNCHANGED vars
  <2>1. c' = c /\ s' = s /\ toServer' = toServer /\ toClient' = toClient BY <1>8 DEF vars
  <2>2. /\ IsClient /\ IsServer /\ ChannelsOK /\ WaitOK /\ SavedOK /\ StatsOK /\ QueryOK
        /\ ClosedOK /\ c.matched /\ AnySeq(toServer) /\ AnySeq(toClient)
    BY DEF Inv, RemoteInv
  <2>3. Alive' = Alive BY <2>1 DEF Alive
  <2>4. IsClient' /\ IsServer' BY <2>1, <2>2 DEF IsClient, IsServer
  <2>5. ChannelsOK' BY <2>1, <2>2, <2>3 DEF ChannelsOK
  <2>6. WaitOK' /\ SavedOK' BY <2>1, <2>2, <2>3 DEF WaitOK, SavedOK
  <2>7. StatsOK' BY <2>1, <2>2, <2>3 DEF StatsOK, Current
  <2>8. QueryOK' /\ ClosedOK' BY <2>1, <2>2, <2>3 DEF QueryOK, ClosedOK
  <2> QED BY <2>1, <2>2, <2>4, <2>5, <2>6, <2>7, <2>8 DEF Inv, RemoteInv
<1> QED BY <1>1, <1>2, <1>3, <1>4, <1>5, <1>6, <1>7, <1>8 DEF Next

(* The invariant holds in every state of a client and a server, whatever   *)
(* the documents, the metadata and the bounds: requests and replies stay   *)
(* in step through exceptions, timeouts, lost connections and deaths on    *)
(* either side.                                                            *)
THEOREM RemoteInvariantHolds == Spec => []RemoteInv
<1>1. Spec => []Inv BY InitInv, NextInv, PTL DEF Spec
<1>2. Inv => RemoteInv BY DEF Inv
<1> QED BY <1>1, <1>2, PTL

(* The client never takes for the answer to its message a reply that the   *)
(* server sent to another one: get_message() finds what send_message()     *)
(* left for it, whatever was abandoned before.                             *)
THEOREM RepliesMatchHolds == Spec => []RepliesMatch
<1>1. RemoteInv => RepliesMatch BY DEF RemoteInv, RepliesMatch
<1> QED BY <1>1, RemoteInvariantHolds, PTL

(* While uncommitted_changes is not set the server holds no change that    *)
(* has not been committed and none is on its way, so that the commit() and *)
(* the cancel() that skip their message skip nothing; and close() returns  *)
(* once the server has gone, unless a reply was still pending.             *)
THEOREM NothingUnsavedHolds == Spec => []NothingUnsaved
<1>1. Inv => NothingUnsaved
  <2> SUFFICES ASSUME Inv PROVE NothingUnsaved OBVIOUS
  <2>1. SavedOK /\ ClosedOK /\ AnySeq(toServer) BY DEF Inv, RemoteInv
  <2>2. DOMAIN toServer = 1..Len(toServer) BY <2>1 DEF AnySeq
  <2> QED BY <2>1, <2>2 DEF NothingUnsaved, SavedOK, ClosedOK
<1>2. Spec => []Inv BY InitInv, NextInv, PTL DEF Spec
<1> QED BY <1>1, <1>2, PTL

(* The statistics that the client has cached are those of the database on  *)
(* the server, unless a commit failed there or the server has gone.        *)
THEOREM CachedStatsHold == Spec => []CachedStatsCurrent
<1>1. RemoteInv => CachedStatsCurrent
  BY DEF RemoteInv, StatsOK, Current, CachedStatsCurrent
<1> QED BY <1>1, RemoteInvariantHolds, PTL
=============================================================================
