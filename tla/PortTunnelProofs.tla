-------------------------- MODULE PortTunnelProofs --------------------------
(***************************************************************************)
(* Proofs about PortTunnel, for any number of users, chunks, and capacity  *)
(* of the websocket and of the channels.                                   *)
(*                                                                         *)
(* The invariant follows each chunk of a connection, in both directions,   *)
(* from the socket it was read from to the one it is written to (module    *)
(* Pipe), and a connection through its set-up: np has it before the server *)
(* has, so its chunks find a channel at np.  At the server they may not,   *)
(* and the session ends: from then on nothing is promised of what np sends.*)
(***************************************************************************)
EXTENDS PortTunnel, Pipe

\* Functions, beyond what TypeOK says.
Channels ==
  /\ toUser \in [Users -> Seq(Nat)] /\ userGot \in [Users -> Seq(Nat)]
  /\ toLocal \in [Users -> Seq(Nat)] /\ localGot \in [Users -> Seq(Nat)]
  /\ outgoing \in [Users -> ServerMessages] /\ npOutgoing \in [Users -> ClientMessages]

\* A released Client has closed its websocket.
WsHeld == wsUp => ClientAlive

\* The gauge of an open port is never uncounted twice.
Ports == /\ tcpPorts = IF listener \in {"none", "closed"} THEN 0 ELSE 1
         /\ handler = "open" => listener = "none"

-----------------------------------------------------------------------------
(* Setting up a connection                                                 *)

\* The accepting task is at a connection that neither program knows yet.
Listening ==
  /\ listener \in {"sending", "awaiting"} =>
       current \in Users /\ stask[current] = "none" /\ conn[current] = "held"
  /\ listener = "sending" => ntask[current] = "none" /\ NoConnect(s2c, current)

\* A connection is set up once.
Once(u) ==
  /\ Single(s2c, u)
  /\ ntask[u] # "none" => NoConnect(s2c, u)
  /\ conn[u] \in {"idle", "backlog"} =>
       stask[u] = "none" /\ ntask[u] = "none" /\ NoConnect(s2c, u)

\* np has it first: its answer, the server's task and chunks come later.
NpFirst(u) == ntask[u] = "none" =>
  /\ stask[u] = "none" /\ response[u] # "ok"
  /\ npLoop = "reply" /\ npMessage.user = u => npMessage.n = 0
  /\ OnlyRefused(c2s, u)
  /\ u \notin npWriters
  /\ npRead[u] = 0 /\ localGot[u] = <<>> /\ toLocal[u] = <<>>

\* Before the server's task of u there is nothing of u at the server.
Fresh(u) == stask[u] = "none" =>
  /\ u \notin writers
  /\ serverRead[u] = 0 /\ userGot[u] = <<>> /\ toUser[u] = <<>>
  /\ NoChunk(s2c, u)

\* A message waits for room in a channel that is there.
Blocked ==
  /\ handler = "blocked" =>
       delivering.user \in writers /\ IsChunk(delivering, delivering.user)
  /\ npLoop = "blocked" =>
       npMessage.user \in npWriters /\ IsChunk(npMessage, npMessage.user)

\* A task at np that still writes has its channel.
HasWriter(u) == ntask[u] \in {"run", "sending"} => u \in npWriters

\* What np is about to answer.
Replies == npLoop = "reply" => npMessage.kind = "connected"

Setup == /\ Listening /\ Blocked /\ Replies
         /\ \A u \in Users : Once(u) /\ NpFirst(u) /\ Fresh(u) /\ HasWriter(u)

-----------------------------------------------------------------------------
(* From the user to the local service                                      *)

AtNp(u) == IF npLoop = "blocked" /\ npMessage.user = u THEN 1 ELSE 0

DownBase(u) == Base(localGot[u], toLocal[u], AtNp(u))

DownSent(u) == IF stask[u] = "sending" THEN Ord(userSent[u], outgoing[u].n) - 1
                                       ELSE serverRead[u]

\* Every chunk on the way is one the user sent.
DownChunks(u) ==
  /\ serverRead[u] <= userSent[u]
  /\ stask[u] = "sending" =>
       \/ outgoing[u] = Msg("receive", u, serverRead[u]) /\ serverRead[u] # 0
       \/ /\ outgoing[u] = Msg("close", u, 0)
          /\ userClosed[u] /\ serverRead[u] = userSent[u]
  /\ \A i \in 1 .. Len(s2c) : IsChunk(s2c[i], u) =>
       Sent(s2c[i].n, userSent[u], userClosed[u])
  /\ AtNp(u) = 1 => Sent(npMessage.n, userSent[u], userClosed[u])
  /\ \A i \in 1 .. Len(toLocal[u]) : Sent(toLocal[u][i], userSent[u], userClosed[u])
  /\ Len(localGot[u]) <= userSent[u]
  /\ IsRun(localGot[u])
  /\ localGone[u] => localClosed[u]

\* While the local service reads, they come one after the other.
DownChain(u) == ~localGone[u] /\ ntask[u] \in {"none", "run", "sending"} =>
  /\ Queued(toLocal[u], localGot[u], userSent[u])
  /\ AtNp(u) = 1 => Ord(userSent[u], npMessage.n) = DownBase(u)
  /\ Chained(s2c, u, DownBase(u), userSent[u])
  /\ wsUp /\ stask[u] \in {"none", "run", "sending"} =>
       Filled(s2c, u, DownBase(u), userSent[u], DownSent(u))

\* np ends the connection by itself only when all has arrived.
DownDone(u) == (wsUp /\ ntask[u] \in {"removing", "done"} /\ ~localClosed[u]) =>
  userClosed[u] /\ Len(localGot[u]) = userSent[u]

Down(u) == DownChunks(u) /\ DownChain(u) /\ DownDone(u)

-----------------------------------------------------------------------------
(* From the local service to the user                                      *)

AtServer(u) == IF handler = "blocked" /\ delivering.user = u THEN 1 ELSE 0

UpBase(u) == Base(userGot[u], toUser[u], AtServer(u))

UpSent(u) == IF ntask[u] = "sending" THEN Ord(localSent[u], npOutgoing[u].n) - 1
                                     ELSE npRead[u]

UpChunks(u) ==
  /\ npRead[u] <= localSent[u]
  /\ ntask[u] = "sending" =>
       \/ npOutgoing[u] = Msg("receive", u, npRead[u]) /\ npRead[u] # 0
       \/ /\ npOutgoing[u] = Msg("close", u, 0)
          /\ localClosed[u] /\ npRead[u] = localSent[u]
  /\ \A i \in 1 .. Len(c2s) : IsChunk(c2s[i], u) =>
       Sent(c2s[i].n, localSent[u], localClosed[u])
  /\ AtServer(u) = 1 => Sent(delivering.n, localSent[u], localClosed[u])
  /\ \A i \in 1 .. Len(toUser[u]) : Sent(toUser[u][i], localSent[u], localClosed[u])
  /\ Len(userGot[u]) <= localSent[u]
  /\ IsRun(userGot[u])
  /\ userGone[u] => userClosed[u]

\* While the user reads; on the websocket, until handle_socket ends.
UpChain(u) == ~userGone[u] /\ stask[u] \in {"none", "run", "sending"} =>
  /\ Queued(toUser[u], userGot[u], localSent[u])
  /\ AtServer(u) = 1 => Ord(localSent[u], delivering.n) = UpBase(u)
  /\ handler \notin {"closing", "gone"} =>
       /\ Chained(c2s, u, UpBase(u), localSent[u])
       /\ wsUp /\ ntask[u] \in {"none", "run", "sending"} =>
            Filled(c2s, u, UpBase(u), localSent[u], UpSent(u))

UpDone(u) == (wsUp /\ stask[u] \in {"removing", "done"} /\ ~userClosed[u]) =>
  localClosed[u] /\ Len(userGot[u]) = localSent[u]

Up(u) == UpChunks(u) /\ UpChain(u) /\ UpDone(u)

Inv == /\ TypeOK /\ Channels /\ WsHeld /\ Ports /\ Setup
       /\ \A u \in Users : Down(u) /\ Up(u)

-----------------------------------------------------------------------------
(* What a step may do that is not about v                                  *)

SetupSame(v) ==
  /\ NoConnect(s2c, v) => NoConnect(s2c', v)
  /\ Single(s2c, v) => Single(s2c', v)
  /\ ntask'[v] = "none" <=> ntask[v] = "none"
  /\ stask'[v] = "none" <=> stask[v] = "none"
  /\ conn'[v] \in {"idle", "backlog"} => conn[v] \in {"idle", "backlog"}
  /\ ntask[v] = "none" =>
       /\ OnlyRefused(c2s, v) => OnlyRefused(c2s', v)
       /\ response'[v] = "ok" => response[v] = "ok"
       /\ npLoop' = "reply" /\ npMessage'.user = v /\ npMessage'.n # 0 =>
            npLoop = "reply" /\ npMessage.user = v /\ npMessage.n # 0
       /\ v \in npWriters' => v \in npWriters
       /\ npRead'[v] = npRead[v] /\ localGot'[v] = localGot[v]
       /\ toLocal'[v] = toLocal[v] \/ toLocal'[v] = <<>>
  /\ stask[v] = "none" =>
       /\ NoChunk(s2c, v) => NoChunk(s2c', v)
       /\ v \in writers' => v \in writers
       /\ serverRead'[v] = serverRead[v] /\ userGot'[v] = userGot[v]
       /\ toUser'[v] = toUser[v] \/ toUser'[v] = <<>>
  /\ ntask'[v] \in {"run", "sending"} =>
       ntask[v] \in {"run", "sending"} /\ (v \in npWriters => v \in npWriters')

\* A step that is not about v leaves how far v is set up alone.
LEMMA SetupOne ==
  ASSUME Inv, NEW v \in Users, SetupSame(v)
  PROVE  (Once(v) /\ NpFirst(v) /\ Fresh(v) /\ HasWriter(v))'
<1>1. Once(v) /\ NpFirst(v) /\ Fresh(v) /\ HasWriter(v)
  BY DEF Inv, Setup
<1>2. Once(v)'
  BY <1>1 DEF SetupSame, Once
<1>3. NpFirst(v)'
  BY <1>1 DEF SetupSame, NpFirst
<1>4. Fresh(v)'
  BY <1>1 DEF SetupSame, Fresh
<1>5. HasWriter(v)'
  BY <1>1 DEF SetupSame, HasWriter
<1> QED
  BY <1>2, <1>3, <1>4, <1>5

\* The set-up of all connections, from that of each.
LEMMA SetupFrame ==
  ASSUME Inv, Replies', Listening', Blocked', \A v \in Users : SetupSame(v)
  PROVE  Setup'
BY SetupOne DEF Setup

\* For what the user of v sends.
DownSame(v) ==
  /\ userSent'[v] = userSent[v] /\ localGot'[v] = localGot[v]
  /\ userClosed[v] => userClosed'[v]
  /\ localClosed[v] => localClosed'[v]
  /\ localGone[v] => localGone'[v]
  /\ localGone'[v] => localGone[v] \/ localClosed'[v]
  /\ serverRead'[v] <= userSent[v]
  /\ AtNp(v)' = AtNp(v) /\ (AtNp(v) = 1 => npMessage'.n = npMessage.n)
  /\ \/ toLocal'[v] = toLocal[v]
     \/ toLocal'[v] = <<>> /\ ntask'[v] = "done"
  /\ ntask'[v] \in {"none", "run", "sending"} =>
       /\ ntask[v] \in {"none", "run", "sending"}
       /\ PassesChain(s2c, s2c', v)
       /\ wsUp' => Keeps(s2c, s2c', v)
  /\ wsUp' /\ ntask'[v] \in {"removing", "done"} /\ ~localClosed'[v] =>
       ntask[v] \in {"removing", "done"}
  /\ stask'[v] = "sending" => /\ stask[v] = "sending" /\ outgoing'[v] = outgoing[v]
                              /\ serverRead'[v] = serverRead[v]
  /\ stask'[v] \in {"none", "run"} => /\ stask[v] \in {"none", "run"}
                                      /\ serverRead'[v] = serverRead[v]
  /\ wsUp' => wsUp
  /\ PassesChunks(s2c, s2c', v)

\* A step that is not about what the user of v sends keeps Down(v).
LEMMA DownFrame ==
  ASSUME Inv, NEW v \in Users, DownSame(v)
  PROVE  Down(v)'
<1>1. DownChunks(v) /\ DownChain(v) /\ DownDone(v)
  BY DEF Inv, Down
<1>2. DownChunks(v)'
  <2>1. \A i \in 1 .. Len(s2c') : IsChunk(s2c'[i], v) =>
          Sent(s2c'[i].n, userSent'[v], userClosed'[v])
    BY <1>1 DEF DownChunks, DownSame, PassesChunks, Sent
  <2>2. \A i \in 1 .. Len(toLocal'[v]) : Sent(toLocal'[v][i], userSent'[v], userClosed'[v])
    <3>1. CASE toLocal'[v] = toLocal[v]
      BY <1>1, <3>1 DEF DownChunks, DownSame, Sent
    <3>2. CASE toLocal'[v] = <<>>
      BY <3>2
    <3> QED
      BY <3>1, <3>2 DEF DownSame
  <2>3. AtNp(v)' = 1 => Sent(npMessage'.n, userSent'[v], userClosed'[v])
    BY <1>1 DEF DownChunks, DownSame, Sent
  <2> QED
    BY <1>1, <2>1, <2>2, <2>3 DEF DownChunks, DownSame, IsRun
<1>3. DownChain(v)'
  <2> SUFFICES ASSUME ~localGone'[v], ntask'[v] \in {"none", "run", "sending"}
               PROVE  /\ Queued(toLocal'[v], localGot'[v], userSent'[v])
                      /\ AtNp(v)' = 1 => Ord(userSent'[v], npMessage'.n) = DownBase(v)'
                      /\ Chained(s2c', v, DownBase(v)', userSent'[v])
                      /\ wsUp' /\ stask'[v] \in {"none", "run", "sending"} =>
                           Filled(s2c', v, DownBase(v)', userSent'[v], DownSent(v)')
    BY DEF DownChain
  <2>1. toLocal'[v] = toLocal[v] /\ DownBase(v)' = DownBase(v)
    BY DEF DownSame, DownBase
  <2>2. /\ Queued(toLocal[v], localGot[v], userSent[v])
        /\ AtNp(v) = 1 => Ord(userSent[v], npMessage.n) = DownBase(v)
        /\ Chained(s2c, v, DownBase(v), userSent[v])
        /\ wsUp /\ stask[v] \in {"none", "run", "sending"} =>
             Filled(s2c, v, DownBase(v), userSent[v], DownSent(v))
    BY <1>1 DEF DownChain, DownSame
  <2>3. Chained(s2c', v, DownBase(v)', userSent'[v])
    BY <2>1, <2>2 DEF DownSame, PassesChain
  <2>4. ASSUME wsUp', stask'[v] \in {"none", "run", "sending"}
        PROVE  Filled(s2c', v, DownBase(v)', userSent'[v], DownSent(v)')
    <3>1. DownSent(v)' = DownSent(v) /\ wsUp /\ stask[v] \in {"none", "run", "sending"}
      BY <2>4 DEF DownSame, DownSent
    <3> QED
      BY <2>1, <2>2, <2>4, <3>1 DEF DownSame, Keeps
  <2> QED
    BY <2>1, <2>2, <2>3, <2>4 DEF DownSame
<1>4. DownDone(v)'
  BY <1>1 DEF DownDone, DownSame
<1> QED
  BY <1>2, <1>3, <1>4 DEF Down

\* For what the local service of v sends.
UpSame(v) ==
  /\ localSent'[v] = localSent[v] /\ userGot'[v] = userGot[v]
  /\ localClosed[v] => localClosed'[v]
  /\ userClosed[v] => userClosed'[v]
  /\ userGone[v] => userGone'[v]
  /\ userGone'[v] => userGone[v] \/ userClosed'[v]
  /\ npRead'[v] = npRead[v]
  /\ AtServer(v)' = AtServer(v) /\ (AtServer(v) = 1 => delivering'.n = delivering.n)
  /\ \/ toUser'[v] = toUser[v]
     \/ toUser'[v] = <<>> /\ stask'[v] = "done"
  /\ stask'[v] \in {"none", "run", "sending"} => stask[v] \in {"none", "run", "sending"}
  /\ wsUp' /\ stask'[v] \in {"removing", "done"} /\ ~userClosed'[v] =>
       stask[v] \in {"removing", "done"}
  /\ ntask'[v] = "sending" => ntask[v] = "sending" /\ npOutgoing'[v] = npOutgoing[v]
  /\ ntask'[v] \in {"none", "run"} => ntask[v] \in {"none", "run"}
  /\ handler' \notin {"closing", "gone"} => /\ handler \notin {"closing", "gone"}
                                            /\ PassesChain(c2s, c2s', v)
                                            /\ wsUp' => Keeps(c2s, c2s', v)
  /\ wsUp' => wsUp
  /\ PassesChunks(c2s, c2s', v)

\* A step that is not about what the local service of v sends keeps Up(v).
LEMMA UpFrame ==
  ASSUME Inv, NEW v \in Users, UpSame(v)
  PROVE  Up(v)'
<1>1. UpChunks(v) /\ UpChain(v) /\ UpDone(v)
  BY DEF Inv, Up
<1>2. UpChunks(v)'
  <2>1. \A i \in 1 .. Len(c2s') : IsChunk(c2s'[i], v) =>
          Sent(c2s'[i].n, localSent'[v], localClosed'[v])
    BY <1>1 DEF UpChunks, UpSame, PassesChunks, Sent
  <2>2. \A i \in 1 .. Len(toUser'[v]) : Sent(toUser'[v][i], localSent'[v], localClosed'[v])
    <3>1. CASE toUser'[v] = toUser[v]
      BY <1>1, <3>1 DEF UpChunks, UpSame, Sent
    <3>2. CASE toUser'[v] = <<>>
      BY <3>2
    <3> QED
      BY <3>1, <3>2 DEF UpSame
  <2>3. AtServer(v)' = 1 => Sent(delivering'.n, localSent'[v], localClosed'[v])
    BY <1>1 DEF UpChunks, UpSame, Sent
  <2> QED
    BY <1>1, <2>1, <2>2, <2>3 DEF UpChunks, UpSame, IsRun
<1>3. UpChain(v)'
  <2> SUFFICES ASSUME ~userGone'[v], stask'[v] \in {"none", "run", "sending"}
               PROVE  /\ Queued(toUser'[v], userGot'[v], localSent'[v])
                      /\ AtServer(v)' = 1 => Ord(localSent'[v], delivering'.n) = UpBase(v)'
                      /\ handler' \notin {"closing", "gone"} =>
                           /\ Chained(c2s', v, UpBase(v)', localSent'[v])
                           /\ wsUp' /\ ntask'[v] \in {"none", "run", "sending"} =>
                                Filled(c2s', v, UpBase(v)', localSent'[v], UpSent(v)')
    BY DEF UpChain
  <2>1. toUser'[v] = toUser[v] /\ UpBase(v)' = UpBase(v)
    BY DEF UpSame, UpBase
  <2>2. /\ Queued(toUser[v], userGot[v], localSent[v])
        /\ AtServer(v) = 1 => Ord(localSent[v], delivering.n) = UpBase(v)
        /\ handler \notin {"closing", "gone"} =>
             /\ Chained(c2s, v, UpBase(v), localSent[v])
             /\ wsUp /\ ntask[v] \in {"none", "run", "sending"} =>
                  Filled(c2s, v, UpBase(v), localSent[v], UpSent(v))
    BY <1>1 DEF UpChain, UpSame
  <2>3. ASSUME handler' \notin {"closing", "gone"}
        PROVE  Chained(c2s', v, UpBase(v)', localSent'[v])
    BY <2>1, <2>2, <2>3 DEF UpSame, PassesChain
  <2>4. ASSUME handler' \notin {"closing", "gone"}, wsUp',
               ntask'[v] \in {"none", "run", "sending"}
        PROVE  Filled(c2s', v, UpBase(v)', localSent'[v], UpSent(v)')
    <3>1. UpSent(v)' = UpSent(v) /\ wsUp /\ ntask[v] \in {"none", "run", "sending"}
      BY <2>4 DEF UpSame, UpSent
    <3> QED
      BY <2>1, <2>2, <2>4, <3>1 DEF UpSame, Keeps
  <2> QED
    BY <2>1, <2>2, <2>3, <2>4 DEF UpSame
<1>4. UpDone(v)'
  BY <1>1 DEF UpDone, UpSame
<1> QED
  BY <1>2, <1>3, <1>4 DEF Up

-----------------------------------------------------------------------------
(* Messages                                                                *)

\* The messages of both directions: their fields, and which ones are sent.
LEMMA MsgFacts ==
  /\ \A k, u, n : Msg(k, u, n).kind = k /\ Msg(k, u, n).user = u /\ Msg(k, u, n).n = n
  /\ \A m \in ServerMessages :
       /\ m.n \in Nat /\ m.user \in Users \cup {NoUser}
       /\ m.kind = "opened" => m.user = NoUser
       /\ m.kind \in {"opened", "connect", "close", "receive"}
       /\ m.kind = "close" => m.n = 0
  /\ \A m \in ClientMessages :
       /\ m.n \in Nat /\ m.user \in Users
       /\ m.kind \in {"connected", "close", "receive"}
       /\ m.kind = "connected" => m.n \in 0 .. 1
       /\ m.kind = "close" => m.n = 0
  /\ \A u \in Users :
       /\ Msg("connect", u, 0) \in ServerMessages
       /\ Msg("close", u, 0) \in ServerMessages \cap ClientMessages
       /\ Msg("connected", u, 0) \in ClientMessages
       /\ Msg("connected", u, 1) \in ClientMessages
       /\ \A n \in 1 .. MaxUserData : Msg("receive", u, n) \in ServerMessages
       /\ \A n \in 1 .. MaxLocalData : Msg("receive", u, n) \in ClientMessages
  /\ Msg("opened", NoUser, 0) \in ServerMessages
  /\ Msg("opened", NoUser, 1) \in ServerMessages
<1> USE WireAssumption
<1>1. /\ Data \subseteq Nat \ {0}
      /\ \A n \in 1 .. MaxUserData : n \in Data
      /\ \A n \in 1 .. MaxLocalData : n \in Data
  BY DEF Data, Max
<1>2. \A k, u, n : Msg(k, u, n).kind = k /\ Msg(k, u, n).user = u /\ Msg(k, u, n).n = n
  BY DEF Msg
<1>3. ASSUME NEW m \in ServerMessages
      PROVE  /\ m.n \in Nat /\ m.user \in Users \cup {NoUser}
             /\ m.kind = "opened" => m.user = NoUser
             /\ m.kind \in {"opened", "connect", "close", "receive"}
             /\ m.kind = "close" => m.n = 0
  <2>1. CASE m \in [kind : {"opened"}, user : {NoUser}, n : 0 .. 1]
    BY <2>1
  <2>2. CASE m \in [kind : {"connect", "close"}, user : Users, n : {0}]
    BY <2>2
  <2>3. CASE m \in [kind : {"receive"}, user : Users, n : Data]
    BY <1>1, <2>3
  <2> QED
    BY <2>1, <2>2, <2>3 DEF ServerMessages
<1>4. ASSUME NEW m \in ClientMessages
      PROVE  /\ m.n \in Nat /\ m.user \in Users
             /\ m.kind \in {"connected", "close", "receive"}
             /\ m.kind = "connected" => m.n \in 0 .. 1
             /\ m.kind = "close" => m.n = 0
  <2>1. CASE m \in [kind : {"connected"}, user : Users, n : 0 .. 1]
    BY <2>1
  <2>2. CASE m \in [kind : {"close"}, user : Users, n : {0}]
    BY <2>2
  <2>3. CASE m \in [kind : {"receive"}, user : Users, n : Data]
    BY <1>1, <2>3
  <2> QED
    BY <2>1, <2>2, <2>3 DEF ClientMessages
<1>5. ASSUME NEW u \in Users
      PROVE  /\ Msg("connect", u, 0) \in ServerMessages
             /\ Msg("close", u, 0) \in ServerMessages \cap ClientMessages
             /\ Msg("connected", u, 0) \in ClientMessages
             /\ Msg("connected", u, 1) \in ClientMessages
             /\ \A n \in 1 .. MaxUserData : Msg("receive", u, n) \in ServerMessages
             /\ \A n \in 1 .. MaxLocalData : Msg("receive", u, n) \in ClientMessages
  BY <1>1 DEF ServerMessages, ClientMessages, Msg
<1>6. /\ Msg("opened", NoUser, 0) \in ServerMessages
      /\ Msg("opened", NoUser, 1) \in ServerMessages
  BY DEF ServerMessages, Msg
<1> QED
  BY <1>2, <1>3, <1>4, <1>5, <1>6

\* A message is a chunk of at most one connection.
LEMMA ChunkFacts ==
  ASSUME NEW m
  PROVE  /\ \A u, v : IsChunk(m, u) /\ IsChunk(m, v) => u = v
         /\ m.kind \in {"opened", "connect", "connected"} => \A u : ~IsChunk(m, u)
BY DEF IsChunk

\* What a step of the server leaves alone, and of np.
LEMMA ServerFrameFacts ==
  ASSUME Inv, ServerFrame
  PROVE  /\ wsUp' \in BOOLEAN /\ (wsUp' => wsUp) /\ (wsUp' => ClientAlive')
         /\ UNCHANGED <<npLoop, npMessage, npOpen, npWriters, toLocal, ntask, npOutgoing,
                        localClosed, localGone, localSent, npRead, localGot>>
         /\ NpTypeOK' /\ WsHeld'
         /\ \A v \in Users : AtNp(v)' = AtNp(v)
<1>1. wsUp' \in BOOLEAN /\ (wsUp' => wsUp) /\ (wsUp' => ClientAlive')
  BY Zenon DEF ServerFrame
<1>2. UNCHANGED <<npLoop, npMessage, npOpen, npWriters, toLocal, ntask, npOutgoing,
                  localClosed, localGone, localSent, npRead, localGot>>
  BY DEF ServerFrame, npVars
<1>3. NpTypeOK'
  BY <1>2 DEF Inv, TypeOK, NpTypeOK
<1> QED
  BY <1>1, <1>2, <1>3 DEF WsHeld, AtNp

\* A step of np: the server, and what is said of it alone, stay.
LEMMA NpFrameFacts ==
  ASSUME Inv, NpFrame
  PROVE  /\ wsUp' = wsUp
         /\ UNCHANGED <<handler, delivering, listener, current, tcpPorts, requests,
                        response, writers, toUser, stask, outgoing, conn, userClosed, userGone,
                        userSent, serverRead, userGot>>
         /\ ServerTypeOK' /\ WsHeld' /\ Ports'
         /\ \A v \in Users : AtServer(v)' = AtServer(v)
<1>1. /\ wsUp' = wsUp
      /\ UNCHANGED <<handler, delivering, listener, current, tcpPorts, requests,
                     response, writers, toUser, stask, outgoing, conn, userClosed, userGone,
                     userSent, serverRead, userGot>>
  BY DEF NpFrame, serverVars
<1>2. ServerTypeOK'
  BY <1>1 DEF Inv, TypeOK, ServerTypeOK
<1>3. WsHeld'
  BY <1>1 DEF Inv, WsHeld, ClientAlive, HeldWithout
<1> QED
  BY <1>1, <1>2, <1>3 DEF Inv, Ports, AtServer

\* A step that brings and takes no chunk of anyone, on neither direction.
NoChunksMove == \A v \in Users :
  /\ PassesChunks(s2c, s2c', v) /\ PassesChain(s2c, s2c', v) /\ Keeps(s2c, s2c', v)
  /\ PassesChunks(c2s, c2s', v) /\ PassesChain(c2s, c2s', v) /\ Keeps(c2s, c2s', v)

\* With both directions of the websocket unchanged no chunk moves.
LEMMA NoneMoves ==
  ASSUME UNCHANGED <<s2c, c2s>>
  PROVE  NoChunksMove
BY PassSame DEF NoChunksMove

\* A step of the server that moves no chunk and changes no task.
LEMMA QuietServer ==
  ASSUME Inv, ServerFrame, NoChunksMove,
         UNCHANGED <<delivering, toUser, stask, outgoing, serverRead, userGot, userSent>>,
         \A v \in Users : userClosed[v] => userClosed'[v],
         \A v \in Users : /\ userGone[v] => userGone'[v]
                          /\ userGone'[v] => userGone[v] \/ userClosed'[v],
         handler' = "blocked" <=> handler = "blocked",
         handler' \notin {"closing", "gone"} => handler \notin {"closing", "gone"}
  PROVE  \A v \in Users : (Down(v) /\ Up(v))'
<1>1. /\ wsUp' \in BOOLEAN /\ (wsUp' => wsUp)
      /\ UNCHANGED <<npLoop, npMessage, npOpen, npWriters, toLocal, ntask, npOutgoing,
                     localClosed, localGone, localSent, npRead, localGot>>
      /\ \A v \in Users : AtNp(v)' = AtNp(v)
  BY ServerFrameFacts
<1>2. ASSUME NEW v \in Users
      PROVE  DownSame(v) /\ UpSame(v)
  <2>1. serverRead[v] <= userSent[v]
    BY DEF Inv, Down, DownChunks
  <2>2. DownSame(v)
    BY <1>1, <2>1 DEF DownSame, NoChunksMove
  <2>3. AtServer(v)' = AtServer(v)
    BY DEF AtServer
  <2> QED
    BY <1>1, <2>2, <2>3 DEF UpSame, NoChunksMove
<1> QED
  BY <1>2, DownFrame, UpFrame

\* A step of the server that sets nothing up and takes no message.
LEMMA QuietSetup ==
  ASSUME Inv, ServerFrame, Listening',
         UNCHANGED <<c2s, delivering, writers, toUser, response, stask, serverRead, userGot>>,
         handler' = "blocked" => handler = "blocked",
         \A v \in Users : conn'[v] \in {"idle", "backlog"} => conn[v] \in {"idle", "backlog"},
         \A v \in Users : Passes(s2c, s2c', v) /\ PassesChunks(s2c, s2c', v)
  PROVE  Setup'
<1>1. UNCHANGED <<npLoop, npMessage, npWriters, toLocal, ntask, npRead, localGot>>
  BY ServerFrameFacts
<1>2. \A v \in Users : SetupSame(v)
  BY <1>1 DEF SetupSame, Passes, PassesConnect, PassesChunks, NoChunk
<1>3. Blocked' /\ Replies'
  BY <1>1 DEF Inv, Setup, Blocked, Replies
<1> QED
  BY <1>2, <1>3, SetupFrame

\* Sending, as both programs do it: the message arrives in order, or is lost
\* with the websocket.
LEMMA SendToNpFacts ==
  ASSUME Inv, NEW m \in ServerMessages, SendToNp(m) \/ (SendFails /\ UNCHANGED s2c)
  PROVE  /\ s2c' \in Seq(ServerMessages) /\ Len(s2c') <= WsCap
         /\ \A v \in Users :
              /\ m.user # v => Passes(s2c, s2c', v)
              /\ m.kind # "connect" => PassesConnect(s2c, s2c', v)
              /\ ~IsChunk(m, v) => /\ PassesChunks(s2c, s2c', v)
                                   /\ PassesChain(s2c, s2c', v) /\ Keeps(s2c, s2c', v)
<1>1. CASE SendToNp(m)
  <2>1. s2c' = Append(s2c, m) /\ s2c \in Seq(ServerMessages) /\ Len(s2c) < WsCap
    BY <1>1 DEF SendToNp, Inv, TypeOK, WireTypeOK
  <2>2. s2c' \in Seq(ServerMessages) /\ Len(s2c') <= WsCap
    BY <2>1, AppendFacts, WireAssumption
  <2> QED
    BY <2>1, <2>2, PassSend
<1>2. CASE SendFails /\ UNCHANGED s2c
  BY <1>2, PassSame DEF Passes, Inv, TypeOK, WireTypeOK
<1> QED
  BY <1>1, <1>2

\* np puts a message on the websocket.
LEMMA SendToServerFacts ==
  ASSUME Inv, NEW m \in ClientMessages, SendToServer(m) \/ (SendFails /\ UNCHANGED c2s)
  PROVE  /\ c2s' \in Seq(ClientMessages) /\ Len(c2s') <= WsCap
         /\ \A v \in Users :
              /\ m.user # v => Passes(c2s, c2s', v)
              /\ ~IsChunk(m, v) => /\ PassesChunks(c2s, c2s', v)
                                   /\ PassesChain(c2s, c2s', v) /\ Keeps(c2s, c2s', v)
<1>1. CASE SendToServer(m)
  <2>1. c2s' = Append(c2s, m) /\ c2s \in Seq(ClientMessages) /\ Len(c2s) < WsCap
    BY <1>1 DEF SendToServer, Inv, TypeOK, WireTypeOK
  <2>2. c2s' \in Seq(ClientMessages) /\ Len(c2s') <= WsCap
    BY <2>1, AppendFacts, WireAssumption
  <2> QED
    BY <2>1, <2>2, PassSend
<1>2. CASE SendFails /\ UNCHANGED c2s
  BY <1>2, PassSame DEF Inv, TypeOK, WireTypeOK
<1> QED
  BY <1>1, <1>2

\* Receiving.
LEMMA TakeFromServer ==
  ASSUME Inv, NEW k, NEW u, FromServer(k, u)
  PROVE  /\ s2c' \in Seq(ServerMessages) /\ Len(s2c') <= WsCap
         /\ Head(s2c) \in ServerMessages /\ Head(s2c).kind = k /\ Head(s2c).user = u
         /\ Head(s2c) = s2c[1] /\ 1 \in 1 .. Len(s2c)
         /\ \A v \in Users :
              /\ Passes(s2c, s2c', v) /\ PassesChunks(s2c, s2c', v)
              /\ ~IsChunk(Head(s2c), v) => PassesChain(s2c, s2c', v) /\ Keeps(s2c, s2c', v)
<1>1. s2c \in Seq(ServerMessages) /\ s2c # <<>> /\ s2c' = Tail(s2c) /\ Len(s2c) <= WsCap
  BY DEF FromServer, Inv, TypeOK, WireTypeOK
<1>2. /\ Tail(s2c) \in Seq(ServerMessages) /\ Len(s2c) \in Nat \ {0}
      /\ Len(Tail(s2c)) = Len(s2c) - 1 /\ Head(s2c) = s2c[1] /\ s2c[1] \in ServerMessages
  BY <1>1, TailFacts
<1>3. Len(s2c') <= WsCap /\ 1 \in 1 .. Len(s2c)
  BY <1>1, <1>2, WireAssumption
<1> QED
  BY <1>1, <1>2, <1>3, PassTake DEF FromServer

\* handle_socket takes a message of u off the websocket.
LEMMA TakeFromNp ==
  ASSUME Inv, NEW k, NEW u, FromNp(k, u)
  PROVE  /\ c2s' \in Seq(ClientMessages) /\ Len(c2s') <= WsCap
         /\ Head(c2s) \in ClientMessages /\ Head(c2s).kind = k /\ Head(c2s).user = u
         /\ Head(c2s) = c2s[1] /\ 1 \in 1 .. Len(c2s)
         /\ \A v \in Users :
              /\ Passes(c2s, c2s', v) /\ PassesChunks(c2s, c2s', v)
              /\ ~IsChunk(Head(c2s), v) => PassesChain(c2s, c2s', v) /\ Keeps(c2s, c2s', v)
<1>1. c2s \in Seq(ClientMessages) /\ c2s # <<>> /\ c2s' = Tail(c2s) /\ Len(c2s) <= WsCap
  BY DEF FromNp, Inv, TypeOK, WireTypeOK
<1>2. /\ Tail(c2s) \in Seq(ClientMessages) /\ Len(c2s) \in Nat \ {0}
      /\ Len(Tail(c2s)) = Len(c2s) - 1 /\ Head(c2s) = c2s[1] /\ c2s[1] \in ClientMessages
  BY <1>1, TailFacts
<1>3. Len(c2s') <= WsCap /\ 1 \in 1 .. Len(c2s)
  BY <1>1, <1>2, WireAssumption
<1> QED
  BY <1>1, <1>2, <1>3, PassTake DEF FromNp

-----------------------------------------------------------------------------
(* Steps that move no chunk                                                *)

\* port::open binds the port, or fails to: no connection exists yet.
LEMMA OpenPortStep == ASSUME Inv, OpenPort, ServerFrame
                      PROVE  Inv'
<1>1. /\ wsUp' \in BOOLEAN /\ NpTypeOK' /\ WsHeld'
      /\ UNCHANGED <<ntask, toLocal, localGot, npOutgoing>>
  BY ServerFrameFacts
<1>2. Setup' /\ \A v \in Users : (Down(v) /\ Up(v))'
  <2>1. UNCHANGED <<s2c, c2s, delivering, writers, toUser, response, stask, outgoing,
                    serverRead, userGot, userSent, userClosed, userGone, conn>>
    BY DEF OpenPort, channelVars, taskVars, userVars
  <2>2. Listening'
    BY DEF Listening, OpenPort, Inv, Setup, Ports
  <2> QED
    BY <2>1, <2>2, NoneMoves, PassSame, QuietServer, QuietSetup DEF OpenPort
<1>3. Ports'
  BY DEF Inv, Ports, OpenPort
<1>4. TypeOK' /\ Channels'
  BY <1>1, SMTT(30) DEF Inv, TypeOK, WireTypeOK, ServerTypeOK, Channels, OpenPort, channelVars,
              taskVars, userVars
<1> QED
  BY <1>1, <1>2, <1>3, <1>4 DEF Inv

\* handle_socket leaves its loop: of c2s nothing is promised any more.
LEMMA RecvFailsStep == ASSUME Inv, RecvFails, ServerFrame
                       PROVE  Inv'
<1>1. /\ wsUp' \in BOOLEAN /\ NpTypeOK' /\ WsHeld'
      /\ UNCHANGED <<ntask, toLocal, localGot, npOutgoing>>
  BY ServerFrameFacts
<1>2. UNCHANGED <<s2c, c2s, delivering, listener, current, tcpPorts, requests, writers,
                  toUser, response, stask, outgoing, serverRead, userGot, userSent,
                  userClosed, userGone, conn>>
  BY DEF RecvFails, listenerVars, channelVars, taskVars, userVars
<1>3. Setup' /\ \A v \in Users : (Down(v) /\ Up(v))'
  <2>1. Listening'
    BY <1>1, <1>2 DEF Listening, Inv, Setup
  <2> QED
    BY <1>2, <2>1, NoneMoves, PassSame, QuietServer, QuietSetup DEF RecvFails
<1>4. Ports'
  BY <1>2 DEF Inv, Ports, RecvFails
<1>5. TypeOK' /\ Channels'
  BY <1>1, <1>2 DEF Inv, TypeOK, WireTypeOK, ServerTypeOK, Channels, RecvFails
<1> QED
  BY <1>1, <1>3, <1>4, <1>5 DEF Inv

\* handle_socket drops its Client; the websocket closes if it held the last.
LEMMA HandlerEndsStep == ASSUME Inv, HandlerEnds, ServerFrame
                         PROVE  Inv'
<1>1. /\ wsUp' \in BOOLEAN /\ NpTypeOK' /\ WsHeld'
      /\ UNCHANGED <<ntask, toLocal, localGot, npOutgoing>>
  BY ServerFrameFacts
<1>2. UNCHANGED <<s2c, c2s, delivering, listener, current, tcpPorts, requests, writers,
                  toUser, response, stask, outgoing, serverRead, userGot, userSent,
                  userClosed, userGone, conn>>
  BY DEF HandlerEnds, listenerVars, channelVars, taskVars, userVars
<1>3. Setup' /\ \A v \in Users : (Down(v) /\ Up(v))'
  <2>1. Listening'
    BY <1>1, <1>2 DEF Listening, Inv, Setup
  <2> QED
    BY <1>2, <2>1, NoneMoves, PassSame, QuietServer, QuietSetup DEF HandlerEnds
<1>4. Ports'
  BY <1>2 DEF Inv, Ports, HandlerEnds
<1>5. TypeOK' /\ Channels'
  BY <1>1, <1>2 DEF Inv, TypeOK, WireTypeOK, ServerTypeOK, Channels, HandlerEnds
<1> QED
  BY <1>1, <1>3, <1>4, <1>5 DEF Inv

\* The closer uncounts the port, and refuses who waited in the backlog.
LEMMA CloserFiresStep == ASSUME Inv, CloserFires, ServerFrame
                         PROVE  Inv'
<1>1. /\ wsUp' \in BOOLEAN /\ NpTypeOK' /\ WsHeld'
      /\ UNCHANGED <<ntask, toLocal, localGot, npOutgoing>>
  BY ServerFrameFacts
<1>2. UNCHANGED <<s2c, c2s, handler, delivering, current, requests, writers,
                  toUser, response, stask, outgoing, serverRead, userGot, userSent,
                  userClosed, userGone>>
  BY DEF CloserFires, handlerVars, channelVars, userVars
<1>3. conn' \in [Users -> {"idle", "backlog", "held", "closed"}]
      /\ \A v \in Users : conn'[v] \in {"idle", "backlog"} => conn[v] \in {"idle", "backlog"}
  BY DEF Inv, TypeOK, ServerTypeOK, CloserFires, Refused
<1>4. Setup' /\ \A v \in Users : (Down(v) /\ Up(v))'
  <2>1. Listening'
    BY DEF Listening, CloserFires
  <2> QED
    BY <1>2, <1>3, <2>1, NoneMoves, PassSame, QuietServer, QuietSetup
<1>5. Ports' /\ tcpPorts' \in Nat
  BY <1>2 DEF Inv, Ports, CloserFires
<1>6. TypeOK' /\ Channels'
  BY <1>1, <1>2, <1>3, <1>5 DEF Inv, TypeOK, WireTypeOK, ServerTypeOK, Channels, CloserFires
<1> QED
  BY <1>1, <1>4, <1>5, <1>6 DEF Inv

\* A user waits in the backlog; nobody knows the connection yet.
LEMMA UserConnectStep == ASSUME Inv, NEW u \in Users, UserConnect(u), ServerFrame
                         PROVE  Inv'
<1>1. /\ wsUp' \in BOOLEAN /\ NpTypeOK' /\ WsHeld'
      /\ UNCHANGED <<ntask, toLocal, localGot, npOutgoing>>
  BY ServerFrameFacts
<1>2. UNCHANGED <<s2c, c2s, handler, delivering, listener, current, tcpPorts, requests,
                  writers, toUser, response, stask, outgoing, serverRead, userGot, userSent,
                  userClosed, userGone>>
  BY DEF UserConnect, handlerVars, listenerVars, channelVars, userVars
<1>3. /\ conn' \in [Users -> {"idle", "backlog", "held", "closed"}]
      /\ \A v \in Users : conn'[v] \in {"idle", "backlog"} => conn[v] \in {"idle", "backlog"}
      /\ \A v \in Users : conn[v] = "held" => conn'[v] = "held"
  BY DEF Inv, TypeOK, ServerTypeOK, UserConnect
<1>4. Setup' /\ \A v \in Users : (Down(v) /\ Up(v))'
  <2>1. Listening'
    BY <1>1, <1>2, <1>3 DEF Listening, Inv, Setup
  <2> QED
    BY <1>2, <1>3, <2>1, NoneMoves, PassSame, QuietServer, QuietSetup
<1>5. Ports'
  BY <1>2 DEF Inv, Ports
<1>6. TypeOK' /\ Channels'
  BY <1>1, <1>2, <1>3 DEF Inv, TypeOK, WireTypeOK, ServerTypeOK, Channels
<1> QED
  BY <1>1, <1>4, <1>5, <1>6 DEF Inv

\* A user closes, or sends no more: from here on NoTruncation owes it nothing.
LEMMA UserCloseStep ==
  ASSUME Inv, NEW u \in Users, UserShutdown(u) \/ UserClose(u), ServerFrame
  PROVE  Inv'
<1>1. /\ wsUp' \in BOOLEAN /\ NpTypeOK' /\ WsHeld'
      /\ UNCHANGED <<ntask, toLocal, localGot, npOutgoing>>
  BY ServerFrameFacts
<1>2. UNCHANGED <<s2c, c2s, handler, delivering, listener, current, tcpPorts, requests,
                  writers, toUser, response, stask, outgoing, serverRead, userGot, userSent,
                  conn>>
  BY DEF UserShutdown, UserClose, handlerVars, listenerVars, channelVars, taskVars
<1>3. /\ userClosed' \in [Users -> BOOLEAN] /\ userGone' \in [Users -> BOOLEAN]
      /\ \A v \in Users : userClosed[v] => userClosed'[v]
      /\ \A v \in Users : /\ userGone[v] => userGone'[v]
                          /\ userGone'[v] => userGone[v] \/ userClosed'[v]
  BY DEF Inv, TypeOK, ServerTypeOK, UserShutdown, UserClose
<1>4. Setup' /\ \A v \in Users : (Down(v) /\ Up(v))'
  <2>1. Listening'
    BY <1>1, <1>2 DEF Listening, Inv, Setup
  <2> QED
    BY <1>2, <1>3, <2>1, NoneMoves, PassSame, QuietServer, QuietSetup
<1>5. Ports'
  BY <1>2 DEF Inv, Ports
<1>6. TypeOK' /\ Channels'
  BY <1>1, <1>2, <1>3 DEF Inv, TypeOK, WireTypeOK, ServerTypeOK, Channels
<1> QED
  BY <1>1, <1>4, <1>5, <1>6 DEF Inv

\* The accepting task takes a connection neither program knows, or breaks.
LEMMA AcceptStep == ASSUME Inv, NEW u \in Users, Accept(u), ServerFrame
                    PROVE  Inv'
<1>1. /\ wsUp' \in BOOLEAN /\ NpTypeOK' /\ WsHeld'
      /\ UNCHANGED <<ntask, toLocal, localGot, npOutgoing>>
  BY ServerFrameFacts
<1>2. UNCHANGED <<s2c, c2s, handler, delivering, tcpPorts, writers, toUser, response,
                  stask, outgoing, serverRead, userGot, userSent, userClosed, userGone>>
  BY DEF Accept, handlerVars, userVars
<1>3. /\ conn' \in [Users -> {"idle", "backlog", "held", "closed"}]
      /\ \A v \in Users : conn'[v] \in {"idle", "backlog"} => conn[v] \in {"idle", "backlog"}
  <2>1. conn' = [conn EXCEPT ![u] = "held"] \/ conn' = Refused(u)
    BY DEF Accept
  <2> QED
    BY <2>1 DEF Inv, TypeOK, ServerTypeOK, Refused
<1>4. Setup' /\ \A v \in Users : (Down(v) /\ Up(v))'
  <2>1. Listening'
    <3>1. stask[u] = "none" /\ ntask[u] = "none" /\ NoConnect(s2c, u)
      BY DEF Inv, Setup, Once, Accept
    <3>2. CASE listener' = "ended"
      BY <3>2 DEF Listening
    <3>3. CASE listener' = "sending" /\ current' = u /\ conn' = [conn EXCEPT ![u] = "held"]
      BY <1>1, <1>2, <3>1, <3>3 DEF Listening, Inv, TypeOK, ServerTypeOK
    <3> QED
      BY <3>2, <3>3 DEF Accept
  <2> QED
    BY <1>2, <1>3, <2>1, NoneMoves, PassSame, QuietServer, QuietSetup
<1>5. Ports'
  BY <1>2 DEF Inv, Ports, Accept
<1>6. TypeOK' /\ Channels'
  BY <1>1, <1>2, <1>3 DEF Inv, TypeOK, WireTypeOK, ServerTypeOK, Channels, Accept
<1> QED
  BY <1>1, <1>4, <1>5, <1>6 DEF Inv

\* PortOpened goes to np; it is about no connection.
LEMMA OpenReplyStep == ASSUME Inv, OpenReply, ServerFrame
                       PROVE  Inv'
<1>1. /\ wsUp' \in BOOLEAN /\ NpTypeOK' /\ WsHeld'
      /\ UNCHANGED <<ntask, toLocal, localGot, npOutgoing>>
  BY ServerFrameFacts
<1>2. UNCHANGED <<c2s, delivering, listener, current, tcpPorts, requests, writers, toUser,
                  response, stask, outgoing, serverRead, userGot, userSent, userClosed,
                  userGone, conn>>
  BY DEF OpenReply, listenerVars, channelVars, taskVars, userVars
<1>3. PICK m \in ServerMessages :
        /\ m.kind = "opened" /\ m.user = NoUser
        /\ SendToNp(m) \/ (SendFails /\ UNCHANGED s2c)
  <2>1. CASE handler = "reply_ok"
    BY <2>1, MsgFacts DEF OpenReply
  <2>2. CASE handler = "reply_error"
    BY <2>2, MsgFacts DEF OpenReply
  <2> QED
    BY <2>1, <2>2 DEF OpenReply
<1>4. /\ s2c' \in Seq(ServerMessages) /\ Len(s2c') <= WsCap
      /\ \A v \in Users : Passes(s2c, s2c', v) /\ PassesChunks(s2c, s2c', v)
      /\ NoChunksMove
  <2>1. \A v \in Users : m.user # v /\ ~IsChunk(m, v)
    BY <1>3, ChunkFacts, WireAssumption
  <2> QED
    BY <1>2, <1>3, <2>1, SendToNpFacts, PassSame DEF NoChunksMove
<1>5. Setup' /\ \A v \in Users : (Down(v) /\ Up(v))'
  <2>1. Listening'
    BY <1>1, <1>2, <1>4 DEF Listening, Passes, PassesConnect, Inv, Setup
  <2> QED
    BY <1>2, <1>4, <2>1, QuietServer, QuietSetup DEF OpenReply
<1>6. Ports'
  BY <1>2 DEF Inv, Ports, OpenReply
<1>7. TypeOK' /\ Channels'
  BY <1>1, <1>2, <1>4 DEF Inv, TypeOK, WireTypeOK, ServerTypeOK, Channels, OpenReply
<1> QED
  BY <1>1, <1>5, <1>6, <1>7 DEF Inv

\* The one PortConnect of the connection that is set up.
LEMMA SendConnectStep == ASSUME Inv, SendConnect, ServerFrame
                         PROVE  Inv'
<1> DEFINE m == Msg("connect", current, 0)
<1>1. /\ wsUp' \in BOOLEAN /\ NpTypeOK' /\ WsHeld'
      /\ UNCHANGED <<npLoop, npMessage, npWriters, toLocal, ntask, npOutgoing, npRead, localGot>>
  BY ServerFrameFacts
<1>2. UNCHANGED <<c2s, handler, delivering, current, tcpPorts, requests, writers, toUser,
                  response, stask, outgoing, serverRead, userGot, userSent, userClosed, userGone>>
  BY DEF SendConnect, handlerVars, channelVars, userVars
<1>3. /\ current \in Users /\ conn[current] = "held"
      /\ stask[current] = "none" /\ ntask[current] = "none" /\ NoConnect(s2c, current)
      /\ m \in ServerMessages /\ m.user = current /\ \A v \in Users : ~IsChunk(m, v)
  BY MsgFacts, ChunkFacts DEF Inv, Setup, Listening, SendConnect
<1>4. /\ s2c' \in Seq(ServerMessages) /\ Len(s2c') <= WsCap
      /\ \A v \in Users : v # current => Passes(s2c, s2c', v)
      /\ \A v \in Users : PassesChunks(s2c, s2c', v)
      /\ NoChunksMove
  <2>1. SendToNp(m) \/ (SendFails /\ UNCHANGED s2c)
    BY DEF SendConnect
  <2> HIDE DEF m
  <2> QED
    BY <1>2, <1>3, <2>1, SendToNpFacts, PassSame DEF NoChunksMove
<1>5. /\ conn' \in [Users -> {"idle", "backlog", "held", "closed"}]
      /\ \A v \in Users : conn'[v] \in {"idle", "backlog"} => conn[v] \in {"idle", "backlog"}
      /\ listener' = "awaiting" => UNCHANGED conn
      /\ conn'[current] \in {"held", "closed"}
      /\ listener' \in {"awaiting", "ended"}
  BY <1>3, SMTT(30) DEF Inv, TypeOK, ServerTypeOK, SendConnect, Refused
<1>6. \A v \in Users : (Down(v) /\ Up(v))'
  BY <1>2, <1>4, QuietServer
<1>7. Setup'
  <2>1. Listening'
    BY <1>2, <1>3, <1>5 DEF Listening
  <2>2. Replies' /\ Blocked'
    BY <1>1, <1>2 DEF Inv, Setup, Replies, Blocked
  <2>3. ASSUME NEW v \in Users, v # current
        PROVE  SetupSame(v)
    BY <1>1, <1>2, <1>4, <1>5, <2>3
       DEF SetupSame, Passes, PassesConnect, PassesChunks, NoChunk
  <2>4. Single(s2c', current)
    <3>1. CASE SendToNp(m)
      <4> DEFINE q == s2c
                 r == s2c'
      <4>1. /\ Len(q) \in Nat
            /\ \A i \in 1 .. Len(q) : r[i] = q[i]
            /\ \A i \in 1 .. Len(r) : i \in 1 .. Len(q) \/ i = Len(q) + 1
        BY <1>3, <3>1, AppendFacts DEF SendToNp, Inv, TypeOK, WireTypeOK
      <4> QED
        BY <1>3, <4>1 DEF NoConnect, Single
    <3>2. CASE UNCHANGED s2c
      BY <1>3, <3>2 DEF NoConnect, Single
    <3> QED
      BY <3>1, <3>2 DEF SendConnect
  <2>5. (Once(current) /\ NpFirst(current) /\ Fresh(current) /\ HasWriter(current))'
    <3>1. Once(current) /\ NpFirst(current) /\ Fresh(current) /\ HasWriter(current)
      BY <1>3 DEF Inv, Setup
    <3>2. Once(current)'
      BY <1>1, <1>2, <1>3, <1>5, <2>4 DEF Once
    <3>3. (NpFirst(current) /\ HasWriter(current))'
      BY <1>1, <1>2, <1>3, <3>1 DEF NpFirst, HasWriter
    <3>4. Fresh(current)'
      BY <1>2, <1>3, <1>4, <3>1 DEF Fresh, NoChunk, PassesChunks
    <3> QED
      BY <3>2, <3>3, <3>4
  <2>6. \A v \in Users : (Once(v) /\ NpFirst(v) /\ Fresh(v) /\ HasWriter(v))'
    BY <1>2, <2>3, <2>5, SetupOne
  <2> QED
    BY <2>1, <2>2, <2>6 DEF Setup
<1>8. Ports'
  BY <1>2, <1>5 DEF Inv, Ports, SendConnect
<1>9. TypeOK' /\ Channels'
  BY <1>1, <1>2, <1>4, <1>5 DEF Inv, TypeOK, WireTypeOK, ServerTypeOK, Channels
<1> QED
  BY <1>1, <1>6, <1>7, <1>8, <1>9 DEF Inv

\* np's answer: ok only if np has the connection.
LEMMA HandleConnectedStep == ASSUME Inv, NEW u \in Users, HandleConnected(u), ServerFrame
                             PROVE  Inv'
<1>1. /\ wsUp' \in BOOLEAN /\ NpTypeOK' /\ WsHeld'
      /\ UNCHANGED <<npLoop, npMessage, npWriters, toLocal, ntask, npOutgoing, npRead, localGot>>
  BY ServerFrameFacts
<1>2. UNCHANGED <<s2c, delivering, listener, current, tcpPorts, writers, toUser,
                  stask, outgoing, serverRead, userGot, userSent, userClosed, userGone, conn>>
  BY DEF HandleConnected, listenerVars, taskVars, userVars
<1>3. /\ c2s' \in Seq(ClientMessages) /\ Len(c2s') <= WsCap
      /\ Head(c2s).kind = "connected" /\ Head(c2s).user = u
      /\ Head(c2s) = c2s[1] /\ 1 \in 1 .. Len(c2s)
      /\ \A v \in Users : Passes(c2s, c2s', v)
      /\ NoChunksMove
  <2>1. FromNp("connected", u)
    BY DEF HandleConnected
  <2> QED
    BY <1>2, <2>1, TakeFromNp, ChunkFacts, PassSame DEF NoChunksMove
<1>4. /\ handler = "recv" /\ handler' \in {"recv", "closing"}
      /\ requests' \in SUBSET Users
      /\ response' \in [Users -> {"none", "ok", "error"}]
  BY DEF HandleConnected, Inv, TypeOK, ServerTypeOK
<1>5. \A v \in Users : (Down(v) /\ Up(v))'
  BY <1>2, <1>3, <1>4, QuietServer
<1>6. Setup'
  <2>1. Listening' /\ Replies' /\ Blocked'
    BY <1>1, <1>2, <1>4 DEF Listening, Replies, Blocked, Inv, Setup
  <2>2. ASSUME NEW v \in Users, ntask[v] = "none", response'[v] = "ok"
        PROVE  response[v] = "ok"
    <3>1. OnlyRefused(c2s, v)
      BY <2>2 DEF Inv, Setup, NpFirst
    <3>2. CASE v = u
      BY <1>3, <2>2, <3>1, <3>2 DEF OnlyRefused, HandleConnected, Inv, TypeOK, ServerTypeOK
    <3>3. CASE v # u
      BY <2>2, <3>3 DEF HandleConnected, Inv, TypeOK, ServerTypeOK
    <3> QED
      BY <3>2, <3>3
  <2>3. \A v \in Users : SetupSame(v)
    BY <1>1, <1>2, <1>3, <2>2 DEF SetupSame, Passes
  <2> QED
    BY <2>1, <2>3, SetupFrame
<1>7. Ports'
  BY <1>2, <1>4 DEF Inv, Ports
<1>8. TypeOK' /\ Channels'
  BY <1>1, <1>2, <1>3, <1>4 DEF Inv, TypeOK, WireTypeOK, ServerTypeOK, Channels
<1> QED
  BY <1>1, <1>5, <1>6, <1>7, <1>8 DEF Inv

-----------------------------------------------------------------------------
(* Chunks reach the channel of their connection                            *)

\* The numbers of one connection.
LEMMA Counts ==
  ASSUME Inv, NEW u \in Users
  PROVE  /\ userSent[u] \in Nat /\ serverRead[u] \in Nat
         /\ localSent[u] \in Nat /\ npRead[u] \in Nat
         /\ toUser[u] \in Seq(Nat) /\ userGot[u] \in Seq(Nat)
         /\ toLocal[u] \in Seq(Nat) /\ localGot[u] \in Seq(Nat)
         /\ Len(toUser[u]) \in Nat /\ Len(userGot[u]) \in Nat
         /\ Len(toLocal[u]) \in Nat /\ Len(localGot[u]) \in Nat
         /\ AtNp(u) \in {0, 1} /\ AtServer(u) \in {0, 1}
         /\ DownBase(u) \in Nat /\ UpBase(u) \in Nat
<1>1. /\ userSent[u] \in Nat /\ serverRead[u] \in Nat
      /\ localSent[u] \in Nat /\ npRead[u] \in Nat
  BY WireAssumption DEF Inv, TypeOK, ServerTypeOK, NpTypeOK
<1>2. /\ toUser[u] \in Seq(Nat) /\ userGot[u] \in Seq(Nat)
      /\ toLocal[u] \in Seq(Nat) /\ localGot[u] \in Seq(Nat)
  BY DEF Inv, Channels
<1>3. AtNp(u) \in {0, 1} /\ AtServer(u) \in {0, 1}
  BY DEF AtNp, AtServer
<1>4. /\ Len(toUser[u]) \in Nat /\ Len(userGot[u]) \in Nat
      /\ Len(toLocal[u]) \in Nat /\ Len(localGot[u]) \in Nat
  BY <1>2
<1> QED
  BY <1>1, <1>2, <1>3, <1>4, BaseFacts DEF DownBase, UpBase

\* The channels, as the lemmas on channels need them.
LEMMA ChannelTypes ==
  ASSUME Inv
  PROVE  /\ Bounded(toUser, Users, MaxLocalData, ServerCap)
         /\ Bounded(toLocal, Users, MaxUserData, NpCap)
         /\ MaxLocalData \in Nat /\ MaxUserData \in Nat /\ ServerCap \in Nat /\ NpCap \in Nat
BY WireAssumption, ServerAssumption, NpAssumption
   DEF Inv, TypeOK, ServerTypeOK, NpTypeOK, Channels, Bounded

\* Its messages on the websocket are numbered.
LEMMA NumberedBoth ==
  ASSUME Inv, NEW u \in Users
  PROVE  Numbered(s2c, u) /\ Numbered(c2s, u)
BY DEF Inv, Down, Up, DownChunks, UpChunks, Sent, Numbered

\* handle_socket takes a chunk of u: into its channel, or in hand.
LEMMA UpTake ==
  ASSUME Inv, NEW u \in Users, c2s # <<>>, IsChunk(Head(c2s), u), c2s' = Tail(c2s),
         handler = "recv", wsUp' => wsUp,
         UNCHANGED <<userGot, userClosed, userGone, stask, localSent, localClosed,
                     localGone, ntask, npOutgoing, npRead>>,
         \/ toUser'[u] = Append(toUser[u], Head(c2s).n) /\ AtServer(u)' = 0
         \/ /\ toUser'[u] = toUser[u]
            /\ AtServer(u)' = 1 /\ delivering' = Head(c2s)
  PROVE  Up(u)'
<1> DEFINE n == Head(c2s).n
<1>1. /\ UpChunks(u) /\ UpChain(u) /\ UpDone(u) /\ AtServer(u) = 0
  BY DEF Inv, Up, AtServer
<1>2. /\ localSent[u] \in Nat /\ toUser[u] \in Seq(Nat) /\ userGot[u] \in Seq(Nat)
      /\ Len(toUser[u]) \in Nat /\ Len(userGot[u]) \in Nat /\ UpBase(u) \in Nat
  BY Counts
<1>3. /\ c2s \in Seq(ClientMessages) /\ Head(c2s) = c2s[1] /\ 1 \in 1 .. Len(c2s)
      /\ PassesChunks(c2s, c2s', u)
  <2>1. c2s \in Seq(ClientMessages)
    BY DEF Inv, TypeOK, WireTypeOK
  <2>2. Head(c2s) = c2s[1] /\ Len(c2s) \in Nat \ {0}
    BY <2>1, TailFacts
  <2> QED
    BY <2>1, <2>2, PassTake
<1>4. Sent(n, localSent[u], localClosed[u]) /\ n \in Nat
  BY <1>1, <1>3 DEF UpChunks, Sent
<1>5. UpBase(u)' = UpBase(u) + 1
  <2>1. /\ Base(userGot[u], Append(toUser[u], n), 0) = Base(userGot[u], toUser[u], 1)
        /\ Base(userGot[u], toUser[u], 1) = Base(userGot[u], toUser[u], 0) + 1
    BY <1>2, <1>4, BasePut
  <2> QED
    BY <1>1, <2>1 DEF UpBase
<1>6. UpChunks(u)'
  <2>1. \A i \in 1 .. Len(toUser'[u]) : Sent(toUser'[u][i], localSent[u], localClosed[u])
    <3>1. CASE toUser'[u] = Append(toUser[u], n)
      <4>1. /\ \A i \in 1 .. Len(toUser[u]) : toUser'[u][i] = toUser[u][i]
            /\ toUser'[u][Len(toUser[u]) + 1] = n
            /\ \A i \in 1 .. Len(toUser'[u]) : i \in 1 .. Len(toUser[u]) \/ i = Len(toUser[u]) + 1
        BY <1>2, <1>4, <3>1, AppendFacts
      <4> QED
        BY <1>1, <1>4, <4>1 DEF UpChunks
    <3>2. CASE toUser'[u] = toUser[u]
      BY <1>1, <3>2 DEF UpChunks
    <3> QED
      BY <3>1, <3>2
  <2>2. AtServer(u)' = 1 => Sent(delivering'.n, localSent[u], localClosed[u])
    BY <1>4
  <2>3. \A i \in 1 .. Len(c2s') : IsChunk(c2s'[i], u) =>
          Sent(c2s'[i].n, localSent[u], localClosed[u])
    BY <1>1, <1>3 DEF UpChunks, PassesChunks
  <2> QED
    BY <1>1, <2>1, <2>2, <2>3 DEF UpChunks
<1>7. UpChain(u)'
  <2> SUFFICES ASSUME ~userGone[u], stask[u] \in {"none", "run", "sending"}
               PROVE  /\ Queued(toUser'[u], userGot[u], localSent[u])
                      /\ AtServer(u)' = 1 => Ord(localSent[u], delivering'.n) = UpBase(u)'
                      /\ Chained(c2s', u, UpBase(u)', localSent[u])
                      /\ wsUp' /\ ntask[u] \in {"none", "run", "sending"} =>
                           Filled(c2s', u, UpBase(u)', localSent[u], UpSent(u)')
    BY DEF UpChain
  <2>1. /\ Queued(toUser[u], userGot[u], localSent[u])
        /\ Chained(c2s, u, UpBase(u), localSent[u])
        /\ wsUp /\ ntask[u] \in {"none", "run", "sending"} =>
             Filled(c2s, u, UpBase(u), localSent[u], UpSent(u))
    BY <1>1 DEF UpChain
  <2>2. /\ Ord(localSent[u], n) = UpBase(u) + 1
        /\ Chained(c2s', u, UpBase(u) + 1, localSent[u])
        /\ \A sent \in Nat : Filled(c2s, u, UpBase(u), localSent[u], sent) =>
                               Filled(c2s', u, UpBase(u) + 1, localSent[u], sent)
    BY <1>2, <1>3, <2>1, NumberedBoth, TakeOwn
  <2>3. UpSent(u)' = UpSent(u)
    BY DEF UpSent
  <2>4. ntask[u] = "sending" => UpSent(u) \in Nat
    BY <1>1, <1>2, MsgFacts, Counts DEF UpSent, UpChunks, Ord
  <2>5. UpSent(u) \in Nat
    BY <2>4, Counts DEF UpSent
  <2>6. Queued(toUser'[u], userGot[u], localSent[u])
    <3>1. CASE toUser'[u] = Append(toUser[u], n)
      <4>1. Ord(localSent[u], n) = Base(userGot[u], toUser[u], 1)
        BY <1>1, <1>2, <1>4, <1>5, <2>2, <3>1, BasePut DEF UpBase
      <4> QED
        BY <1>2, <1>4, <2>1, <3>1, <4>1, QueuePut
    <3>2. CASE toUser'[u] = toUser[u]
      BY <2>1, <3>2
    <3> QED
      BY <3>1, <3>2
  <2> QED
    BY <1>5, <2>1, <2>2, <2>3, <2>5, <2>6
<1>8. UpDone(u)'
  BY <1>1 DEF UpDone
<1> QED
  BY <1>6, <1>7, <1>8 DEF Up

\* The chunk in hand goes into the channel of u.
LEMMA UpPut ==
  ASSUME Inv, NEW u \in Users, AtServer(u) = 1, AtServer(u)' = 0, handler' = "recv",
         toUser'[u] = Append(toUser[u], delivering.n), wsUp' => wsUp,
         UNCHANGED <<c2s, userGot, userClosed, userGone, stask, localSent, localClosed,
                     localGone, ntask, npOutgoing, npRead>>
  PROVE  Up(u)'
<1> DEFINE n == delivering.n
<1>1. UpChunks(u) /\ UpChain(u) /\ UpDone(u)
  BY DEF Inv, Up
<1>2. /\ localSent[u] \in Nat /\ toUser[u] \in Seq(Nat) /\ userGot[u] \in Seq(Nat)
      /\ Len(toUser[u]) \in Nat /\ Len(userGot[u]) \in Nat /\ UpBase(u) \in Nat
  BY Counts
<1>3. Sent(n, localSent[u], localClosed[u]) /\ n \in Nat
  BY <1>1 DEF UpChunks, Sent
<1>4. /\ Len(toUser'[u]) = Len(toUser[u]) + 1
      /\ \A i \in 1 .. Len(toUser[u]) : toUser'[u][i] = toUser[u][i]
      /\ toUser'[u][Len(toUser[u]) + 1] = n
      /\ \A i \in 1 .. Len(toUser'[u]) : i \in 1 .. Len(toUser[u]) \/ i = Len(toUser[u]) + 1
  BY <1>2, <1>3, AppendFacts
<1>5. UpBase(u)' = UpBase(u) /\ UpSent(u)' = UpSent(u)
  <2>1. Base(userGot[u], Append(toUser[u], n), 0) = Base(userGot[u], toUser[u], 1)
    BY <1>2, <1>3, BasePut
  <2> QED
    BY <2>1 DEF UpBase, UpSent
<1>6. UpChunks(u)'
  BY <1>1, <1>3, <1>4 DEF UpChunks
<1>7. UpChain(u)'
  <2> SUFFICES ASSUME ~userGone[u], stask[u] \in {"none", "run", "sending"}
               PROVE  /\ Queued(toUser'[u], userGot[u], localSent[u])
                      /\ Chained(c2s, u, UpBase(u), localSent[u])
                      /\ wsUp' /\ ntask[u] \in {"none", "run", "sending"} =>
                           Filled(c2s, u, UpBase(u), localSent[u], UpSent(u))
    BY <1>5 DEF UpChain
  <2>1. /\ Queued(toUser[u], userGot[u], localSent[u])
        /\ Ord(localSent[u], n) = UpBase(u)
        /\ handler = "blocked"
    BY <1>1 DEF UpChain, AtServer
  <2>2. Ord(localSent[u], n) = Base(userGot[u], toUser[u], 1)
    BY <2>1 DEF UpBase
  <2> QED
    BY <1>1, <1>2, <1>3, <2>1, <2>2, QueuePut DEF UpChain
<1>8. UpDone(u)'
  BY <1>1 DEF UpDone
<1> QED
  BY <1>6, <1>7, <1>8 DEF Up

\* A step of the server that leaves what users send alone.
LEMMA QuietDown ==
  ASSUME Inv, ServerFrame, NEW v \in Users, UNCHANGED <<s2c, userSent, userClosed, userGone>>,
         serverRead'[v] = serverRead[v],
         stask'[v] = "sending" => stask[v] = "sending" /\ outgoing'[v] = outgoing[v],
         stask'[v] \in {"none", "run"} => stask[v] \in {"none", "run"}
  PROVE  Down(v)'
<1>1. /\ wsUp' \in BOOLEAN /\ (wsUp' => wsUp)
      /\ UNCHANGED <<npMessage, toLocal, ntask, localClosed, localGone, localGot>>
      /\ AtNp(v)' = AtNp(v)
  BY ServerFrameFacts
<1>2. serverRead[v] <= userSent[v]
  BY DEF Inv, Down, DownChunks
<1>3. DownSame(v)
  BY <1>1, <1>2, PassSame DEF DownSame
<1> QED
  BY <1>3, DownFrame

\* A chunk of np goes to the channel of u, waits, or ends the session.
LEMMA HandleMessageStep == ASSUME Inv, NEW u \in Users, HandleMessage(u), ServerFrame
                           PROVE  Inv'
<1>1. /\ wsUp' \in BOOLEAN /\ (wsUp' => wsUp) /\ NpTypeOK' /\ WsHeld'
      /\ UNCHANGED <<npLoop, npMessage, npWriters, toLocal, ntask, npOutgoing, localClosed,
                     localGone, localSent, npRead, localGot>>
  BY ServerFrameFacts
<1>2. UNCHANGED <<s2c, listener, current, tcpPorts, requests, response, writers,
                  stask, outgoing, serverRead, userGot, userSent, userClosed, userGone, conn>>
  BY DEF HandleMessage, listenerVars, taskVars, userVars
<1>3. /\ c2s # <<>> /\ c2s' = Tail(c2s)
      /\ c2s' \in Seq(ClientMessages) /\ Len(c2s') <= WsCap
      /\ Head(c2s) \in ClientMessages /\ Head(c2s).user = u
      /\ IsChunk(Head(c2s), u) /\ Head(c2s).n \in Nat
      /\ \A v \in Users : Passes(c2s, c2s', v) /\ PassesChunks(c2s, c2s', v)
      /\ \A v \in Users : v # u => PassesChain(c2s, c2s', v) /\ Keeps(c2s, c2s', v)
  <2>1. PICK k \in {"receive", "close"} : FromNp(k, u)
    BY DEF HandleMessage
  <2>2. c2s # <<>> /\ c2s' = Tail(c2s) /\ IsChunk(Head(c2s), u)
    BY <2>1 DEF FromNp, IsChunk
  <2> QED
    BY <2>1, <2>2, TakeFromNp, ChunkFacts, MsgFacts
<1>4. /\ handler = "recv" /\ handler' \in {"recv", "blocked", "closing"}
      /\ \A v \in Users : v # u => toUser'[v] = toUser[v]
      /\ u \notin writers => toUser'[u] = toUser[u]
      /\ handler' = "blocked" => u \in writers /\ delivering' = Head(c2s)
  BY DEF HandleMessage, Inv, Channels
<1>5. \A v \in Users : Down(v)'
  BY <1>2, QuietDown
<1>6. ASSUME NEW v \in Users, v # u \/ handler' = "closing"
      PROVE  Up(v)'
  <2>1. AtServer(v)' = AtServer(v) /\ AtServer(v) = 0
    BY <1>3, <1>4, <1>6 DEF AtServer
  <2>2. toUser'[v] = toUser[v]
    BY <1>4, <1>6 DEF HandleMessage
  <2>3. UpSame(v)
    BY <1>1, <1>2, <1>3, <1>4, <1>6, <2>1, <2>2 DEF UpSame
  <2> QED
    BY <2>3, UpFrame
<1>7. Up(u)'
  <2>1. CASE handler' = "recv"
    <3>1. toUser'[u] = Append(toUser[u], Head(c2s).n) /\ AtServer(u)' = 0
      BY <2>1 DEF HandleMessage, AtServer, Inv, Channels
    <3> QED
      BY <1>1, <1>2, <1>3, <1>4, <3>1, UpTake
  <2>2. CASE handler' = "blocked"
    <3>1. toUser'[u] = toUser[u] /\ AtServer(u)' = 1
      BY <1>3, <1>4, <2>2 DEF HandleMessage, AtServer
    <3> QED
      BY <1>1, <1>2, <1>3, <1>4, <2>2, <3>1, UpTake
  <2> QED
    BY <1>4, <1>6, <2>1, <2>2
<1>8. Setup'
  <2>1. Listening' /\ Replies' /\ Blocked'
    BY <1>1, <1>2, <1>3, <1>4 DEF Listening, Replies, Blocked, Inv, Setup
  <2>2. \A v \in Users : stask[v] = "none" => toUser'[v] = toUser[v]
    BY <1>4 DEF Inv, Setup, Fresh
  <2>3. \A v \in Users : SetupSame(v)
    BY <1>1, <1>2, <1>3, <2>2 DEF SetupSame, Passes
  <2> QED
    BY <2>1, <2>3, SetupFrame
<1>9. Ports'
  BY <1>2, <1>4 DEF Inv, Ports
<1>10. TypeOK' /\ Channels'
  <2>1. Bounded(toUser', Users, MaxLocalData, ServerCap)
    <3>1. Head(c2s).n \in 0 .. MaxLocalData
      <4>1. Sent(Head(c2s).n, localSent[u], localClosed[u])
        BY <1>3, TakeFromNp, TailFacts DEF Inv, Up, UpChunks, TypeOK, WireTypeOK
      <4>2. localSent[u] \in 0 .. MaxLocalData
        BY DEF Inv, TypeOK, NpTypeOK
      <4> QED
        BY <4>1, <4>2, WireAssumption DEF Sent
    <3>2. CASE UNCHANGED toUser
      BY <3>2, ChannelTypes
    <3>3. CASE /\ Len(toUser[u]) < ServerCap
               /\ toUser' = [toUser EXCEPT ![u] = Append(@, Head(c2s).n)]
      BY <3>1, <3>3, ChannelTypes, PutFacts
    <3> QED
      BY <3>2, <3>3 DEF HandleMessage
  <2> QED
    BY <1>1, <1>2, <1>3, <1>4, <2>1
       DEF Inv, TypeOK, WireTypeOK, ServerTypeOK, Channels, Bounded
<1> QED
  BY <1>1, <1>5, <1>6, <1>7, <1>8, <1>9, <1>10 DEF Inv

\* A chunk that waited goes to its channel.
LEMMA DeliverStep == ASSUME Inv, Deliver, ServerFrame
                     PROVE  Inv'
<1>1. /\ wsUp' \in BOOLEAN /\ (wsUp' => wsUp) /\ NpTypeOK' /\ WsHeld'
      /\ UNCHANGED <<npLoop, npMessage, npWriters, toLocal, ntask, npOutgoing, localClosed,
                     localGone, localSent, npRead, localGot>>
  BY ServerFrameFacts
<1>2. UNCHANGED <<s2c, c2s, delivering, listener, current, tcpPorts, requests, response,
                  writers, stask, outgoing, serverRead, userGot, userSent, userClosed,
                  userGone, conn>>
  BY DEF Deliver, listenerVars, taskVars, userVars
<1>3. PICK u \in Users :
        /\ u = delivering.user /\ u \in writers /\ stask[u] # "none" /\ AtServer(u) = 1
        /\ handler = "blocked" /\ handler' = "recv"
        /\ \A v \in Users : AtServer(v)' = 0 /\ (v # u => AtServer(v) = 0)
  BY DEF Deliver, Inv, TypeOK, ServerTypeOK, Setup, Blocked, Fresh, AtServer
<1>4. /\ Len(toUser[u]) < ServerCap
      /\ toUser' = [toUser EXCEPT ![u] = Append(@, delivering.n)]
      /\ toUser'[u] = Append(toUser[u], delivering.n)
      /\ \A v \in Users : v # u => toUser'[v] = toUser[v]
  BY <1>3 DEF Deliver, Inv, Channels
<1>5. Sent(delivering.n, localSent[u], localClosed[u])
  BY <1>3 DEF Inv, Up, UpChunks
<1>6. \A v \in Users : Down(v)'
  BY <1>2, QuietDown
<1>7. ASSUME NEW v \in Users, v # u
      PROVE  Up(v)'
  <2>1. UpSame(v)
    BY <1>1, <1>2, <1>3, <1>4, <1>7, PassSame DEF UpSame
  <2> QED
    BY <2>1, UpFrame
<1>8. Up(u)'
  BY <1>1, <1>2, <1>3, <1>4, UpPut
<1>9. Setup'
  <2>1. Listening' /\ Replies' /\ Blocked'
    BY <1>1, <1>2, <1>3 DEF Listening, Replies, Blocked, Inv, Setup
  <2>2. \A v \in Users : SetupSame(v)
    BY <1>1, <1>2, <1>3, <1>4 DEF SetupSame
  <2> QED
    BY <2>1, <2>2, SetupFrame
<1>10. Ports'
  BY <1>2, <1>3 DEF Inv, Ports
<1>11. TypeOK' /\ Channels'
  <2>1. delivering.n \in 0 .. MaxLocalData
    <3>1. localSent[u] \in 0 .. MaxLocalData
      BY <1>3 DEF Inv, TypeOK, NpTypeOK
    <3> QED
      BY <1>5, <3>1, WireAssumption DEF Sent
  <2>2. Bounded(toUser', Users, MaxLocalData, ServerCap)
    BY <1>4, <2>1, ChannelTypes, PutFacts
  <2> QED
    BY <1>1, <1>2, <1>3, <2>2
       DEF Inv, TypeOK, WireTypeOK, ServerTypeOK, Channels, Bounded
<1> QED
  BY <1>1, <1>6, <1>7, <1>8, <1>9, <1>10, <1>11 DEF Inv

\* The task of the connection starts, when np has it already.
LEMMA ConnectedStep == ASSUME Inv, Connected, ServerFrame
                       PROVE  Inv'
<1>1. /\ wsUp' \in BOOLEAN /\ (wsUp' => wsUp) /\ NpTypeOK' /\ WsHeld'
      /\ UNCHANGED <<npLoop, npMessage, npWriters, toLocal, ntask, npOutgoing, localClosed,
                     localGone, localSent, npRead, localGot>>
  BY ServerFrameFacts
<1>2. UNCHANGED <<s2c, c2s, handler, delivering, current, tcpPorts, requests, response,
                  toUser, outgoing, serverRead, userGot, userSent, userClosed, userGone>>
  BY DEF Connected, handlerVars, userVars
<1>3. /\ current \in Users /\ stask[current] = "none" /\ conn[current] = "held"
      /\ listener = "awaiting" /\ listener' = "accept"
  BY DEF Connected, Inv, Setup, Listening
<1>4. /\ stask' \in [Users -> {"none", "run", "sending", "removing", "done"}]
      /\ conn' \in [Users -> {"idle", "backlog", "held", "closed"}]
      /\ writers' \in SUBSET Users
      /\ \A v \in Users : stask'[v] = stask[v] \/ (v = current /\ stask'[v] = "run")
      /\ \A v \in Users : v # current => (v \in writers' <=> v \in writers)
      /\ \A v \in Users : conn'[v] \in {"idle", "backlog"} => conn[v] \in {"idle", "backlog"}
      /\ conn'[current] \in {"held", "closed"}
      /\ stask'[current] = "none" => writers' = writers
      /\ writers \subseteq writers'
  BY <1>3 DEF Connected, Inv, TypeOK, ServerTypeOK
<1>5. \A v \in Users : Down(v)'
  BY <1>2, <1>3, <1>4, QuietDown
<1>6. ASSUME NEW v \in Users
      PROVE  Up(v)'
  <2>1. AtServer(v)' = AtServer(v)
    BY <1>2 DEF AtServer
  <2>2. UpSame(v)
    BY <1>1, <1>2, <1>3, <1>4, <2>1, PassSame DEF UpSame
  <2> QED
    BY <2>2, UpFrame
<1>7. Setup'
  <2>1. Listening' /\ Replies' /\ Blocked'
    BY <1>1, <1>2, <1>3, <1>4 DEF Listening, Replies, Blocked, Inv, Setup
  <2>2. ASSUME NEW v \in Users, v # current \/ stask'[current] = "none"
        PROVE  SetupSame(v)
    BY <1>1, <1>2, <1>3, <1>4, <2>2 DEF SetupSame
  <2>3. ASSUME stask'[current] # "none"
        PROVE  (Once(current) /\ NpFirst(current) /\ Fresh(current) /\ HasWriter(current))'
    <3>1. Once(current) /\ NpFirst(current) /\ Fresh(current) /\ HasWriter(current)
      BY <1>3 DEF Inv, Setup
    <3>2. ntask[current] # "none"
      BY <1>3, <2>3, <3>1 DEF NpFirst, Connected
    <3> QED
      BY <1>1, <1>2, <1>4, <2>3, <3>1, <3>2 DEF Once, NpFirst, Fresh, HasWriter
  <2>4. \A v \in Users : (Once(v) /\ NpFirst(v) /\ Fresh(v) /\ HasWriter(v))'
    BY <1>2, <2>2, <2>3, SetupOne
  <2> QED
    BY <2>1, <2>4 DEF Setup
<1>8. Ports'
  BY <1>2, <1>3 DEF Inv, Ports
<1>9. TypeOK' /\ Channels'
  BY <1>1, <1>2, <1>3, <1>4 DEF Inv, TypeOK, WireTypeOK, ServerTypeOK, Channels
<1> QED
  BY <1>1, <1>5, <1>6, <1>7, <1>8, <1>9 DEF Inv

-----------------------------------------------------------------------------
(* The task of a connection at the server                                  *)

\* It sets nothing up.
LEMMA TaskSetup ==
  ASSUME Inv, ServerFrame, NEW u \in Users, stask[u] # "none", stask'[u] # "none",
         \A v \in Users : v # u =>
           /\ stask'[v] = stask[v] /\ conn'[v] = conn[v] /\ serverRead'[v] = serverRead[v]
           /\ userGot'[v] = userGot[v] /\ toUser'[v] = toUser[v]
           /\ PassesChunks(s2c, s2c', v),
         conn'[u] = conn[u] \/ conn'[u] = "closed",
         UNCHANGED <<handler, delivering, listener, current, response, c2s>>,
         writers' \subseteq writers, handler = "blocked" => writers' = writers,
         \A v \in Users : PassesConnect(s2c, s2c', v)
  PROVE  Setup'
<1>1. UNCHANGED <<npLoop, npMessage, npWriters, toLocal, ntask, npRead, localGot>>
  BY ServerFrameFacts
<1>2. ASSUME NEW v \in Users
      PROVE  SetupSame(v)
  <2>1. CASE v = u
    BY <1>1, <2>1 DEF SetupSame, PassesConnect
  <2>2. CASE v # u
    BY <1>1, <2>2 DEF SetupSame, PassesConnect, PassesChunks, NoChunk
  <2> QED
    BY <2>1, <2>2
<1>3. Blocked' /\ Replies' /\ Listening'
  BY <1>1 DEF Inv, Setup, Blocked, Replies, Listening, PassesConnect
<1> QED
  BY <1>2, <1>3, SetupFrame

\* A connection's task after its loop: it removes its writer, or is done.
LEMMA BreakFacts ==
  ASSUME Inv, NEW u \in Users, Break(u)
  PROVE  /\ stask' \in [Users -> {"none", "run", "sending", "removing", "done"}]
         /\ conn' \in [Users -> {"idle", "backlog", "held", "closed"}]
         /\ stask'[u] \in {"removing", "done"}
         /\ conn'[u] = conn[u] \/ conn'[u] = "closed"
         /\ \A v \in Users : v # u => stask'[v] = stask[v] /\ conn'[v] = conn[v]
BY DEF Break, Inv, TypeOK, ServerTypeOK

\* A released Client: the websocket is closed.
LEMMA ReleasedFacts ==
  ASSUME Inv, ServerFrame, ~ClientAlive
  PROVE  ~wsUp /\ ~wsUp'
BY ServerFrameFacts DEF Inv, WsHeld

\* The task reads the next chunk, or the end of the stream, of the user.
LEMMA TaskReadStep == ASSUME Inv, NEW u \in Users, TaskRead(u), ServerFrame
                      PROVE  Inv'
<1>1. /\ wsUp' \in BOOLEAN /\ (wsUp' => wsUp) /\ NpTypeOK' /\ WsHeld'
      /\ UNCHANGED <<npLoop, npMessage, npWriters, toLocal, ntask, npOutgoing, localClosed,
                     localGone, localSent, npRead, localGot>>
      /\ \A v \in Users : AtNp(v)' = AtNp(v)
  BY ServerFrameFacts
<1>2. UNCHANGED <<s2c, c2s, handler, delivering, listener, current, tcpPorts, requests,
                  response, writers, toUser, userGot, userSent, userClosed, userGone>>
  BY DEF TaskRead, handlerVars, listenerVars, channelVars, userVars
<1>3. /\ stask[u] = "run"
      /\ serverRead[u] < userSent[u] \/ userClosed[u]
      /\ serverRead' = [serverRead EXCEPT ![u] = IF @ < userSent[u] THEN @ + 1 ELSE @]
  BY DEF TaskRead
<1>4. /\ serverRead[u] \in Nat /\ userSent[u] \in 0 .. MaxUserData /\ serverRead[u] <= userSent[u]
      /\ userSent[u] \in Nat
  BY Counts DEF Inv, Down, DownChunks, TypeOK, ServerTypeOK
<1>5. /\ serverRead' \in [Users -> 0 .. MaxUserData]
      /\ \A v \in Users : v # u => serverRead'[v] = serverRead[v]
      /\ serverRead[u] < userSent[u] => serverRead'[u] = serverRead[u] + 1
      /\ ~(serverRead[u] < userSent[u]) => serverRead'[u] = userSent[u] /\ serverRead[u] = userSent[u]
      /\ serverRead'[u] <= userSent[u]
  BY <1>3, <1>4, WireAssumption DEF Inv, TypeOK, ServerTypeOK
<1>6. /\ \/ /\ stask'[u] = "sending" /\ UNCHANGED conn
            /\ outgoing' = [outgoing EXCEPT ![u] = IF serverRead[u] < userSent[u]
                                                   THEN Msg("receive", u, serverRead[u] + 1)
                                                   ELSE Msg("close", u, 0)]
         \/ stask'[u] \in {"removing", "done"} /\ ~wsUp' /\ UNCHANGED outgoing
      /\ stask' \in [Users -> {"none", "run", "sending", "removing", "done"}]
      /\ conn' \in [Users -> {"idle", "backlog", "held", "closed"}]
      /\ conn'[u] = conn[u] \/ conn'[u] = "closed"
      /\ \A v \in Users : v # u => stask'[v] = stask[v] /\ conn'[v] = conn[v]
  <2>1. CASE ClientAlive
    BY <2>1 DEF TaskRead, Inv, TypeOK, ServerTypeOK
  <2>2. CASE ~ClientAlive
    BY <2>2, BreakFacts, ReleasedFacts DEF TaskRead
  <2> QED
    BY <2>1, <2>2
<1>7. outgoing' \in [Users -> ServerMessages] /\ \A v \in Users : v # u => outgoing'[v] = outgoing[v]
  <2>1. serverRead[u] < userSent[u] => Msg("receive", u, serverRead[u] + 1) \in ServerMessages
    BY <1>4, MsgFacts, WireAssumption
  <2>2. Msg("close", u, 0) \in ServerMessages
    BY MsgFacts
  <2> QED
    BY <1>6, <2>1, <2>2, ZenonT(30) DEF Inv, Channels
<1>8. Setup'
  BY <1>2, <1>3, <1>5, <1>6, PassSame, TaskSetup DEF Passes
<1>9. ASSUME NEW v \in Users
      PROVE  Up(v)'
  <2>1. AtServer(v)' = AtServer(v)
    BY <1>2 DEF AtServer
  <2>2. UpSame(v)
    <3>1. CASE v = u
      BY <1>1, <1>2, <1>3, <1>6, <2>1, <3>1, PassSame DEF UpSame
    <3>2. CASE v # u
      BY <1>1, <1>2, <1>6, <2>1, <3>2, PassSame DEF UpSame
    <3> QED
      BY <3>1, <3>2
  <2> QED
    BY <2>2, UpFrame
<1>10. ASSUME NEW v \in Users, v # u
       PROVE  Down(v)'
  BY <1>2, <1>5, <1>6, <1>7, <1>10, QuietDown
<1>11. Down(u)'
  <2>1. CASE stask'[u] \in {"removing", "done"}
    <3>1. DownSame(u)
      BY <1>1, <1>2, <1>4, <1>5, <2>1, PassSame DEF DownSame
    <3> QED
      BY <3>1, DownFrame
  <2>2. CASE stask'[u] = "sending"
    <3>1. DownChunks(u) /\ DownChain(u) /\ DownDone(u)
      BY DEF Inv, Down
    <3>2. \/ /\ serverRead[u] < userSent[u]
             /\ outgoing'[u] = Msg("receive", u, serverRead'[u]) /\ serverRead'[u] # 0
          \/ /\ serverRead[u] = userSent[u] /\ serverRead'[u] = userSent[u] /\ userClosed[u]
             /\ outgoing'[u] = Msg("close", u, 0)
      BY <1>3, <1>4, <1>5, <1>6, <2>2 DEF Inv, Channels
    <3>3. DownSent(u)' = DownSent(u)
      BY <1>2, <1>3, <1>4, <1>5, <2>2, <3>2, MsgFacts DEF DownSent, Ord
    <3>4. DownChunks(u)'
      BY <1>1, <1>2, <1>5, <2>2, <3>1, <3>2 DEF DownChunks
    <3>5. DownBase(u)' = DownBase(u)
      BY <1>1 DEF DownBase
    <3>6. DownChain(u)'
      BY <1>1, <1>2, <1>3, <2>2, <3>1, <3>3, <3>5 DEF DownChain
    <3>7. DownDone(u)'
      BY <1>1, <1>2, <3>1 DEF DownDone
    <3> QED
      BY <3>4, <3>6, <3>7 DEF Down
  <2> QED
    BY <1>6, <2>1, <2>2
<1>12. Ports'
  BY <1>2 DEF Inv, Ports
<1>13. TypeOK' /\ Channels'
  BY <1>1, <1>2, <1>5, <1>6, <1>7 DEF Inv, TypeOK, WireTypeOK, ServerTypeOK, Channels
<1> QED
  BY <1>1, <1>8, <1>9, <1>10, <1>11, <1>12, <1>13 DEF Inv

\* A step of the task that moves no chunk: what follows for both directions.
LEMMA QuietTask ==
  ASSUME Inv, ServerFrame, NEW u \in Users, stask[u] \in {"run", "removing"},
         stask'[u] \in {"removing", "done"},
         wsUp' /\ ~userClosed[u] => stask[u] = "removing",
         \A v \in Users : v # u => stask'[v] = stask[v] /\ toUser'[v] = toUser[v],
         toUser'[u] = toUser[u] \/ (toUser'[u] = <<>> /\ stask'[u] = "done"),
         UNCHANGED <<s2c, c2s, handler, delivering, outgoing, serverRead, userGot, userSent,
                     userClosed, userGone>>
  PROVE  \A v \in Users : (Down(v) /\ Up(v))'
<1>1. /\ wsUp' \in BOOLEAN /\ (wsUp' => wsUp)
      /\ UNCHANGED <<npLoop, npMessage, npWriters, toLocal, ntask, npOutgoing, localClosed,
                     localGone, localSent, npRead, localGot>>
  BY ServerFrameFacts
<1>2. ASSUME NEW v \in Users
      PROVE  Down(v)'
  BY QuietDown
<1>3. ASSUME NEW v \in Users
      PROVE  Up(v)'
  <2>1. AtServer(v)' = AtServer(v)
    BY DEF AtServer
  <2>2. UpSame(v)
    <3>1. CASE v = u
      BY <1>1, <2>1, <3>1, PassSame DEF UpSame
    <3>2. CASE v # u
      BY <1>1, <2>1, <3>2, PassSame DEF UpSame
    <3> QED
      BY <3>1, <3>2
  <2> QED
    BY <2>2, UpFrame
<1> QED
  BY <1>2, <1>3

\* A read that fails: the user has closed, so nobody waits for its chunks.
LEMMA TaskReadFailsStep == ASSUME Inv, NEW u \in Users, TaskReadFails(u), ServerFrame
                           PROVE  Inv'
<1>1. wsUp' \in BOOLEAN /\ NpTypeOK' /\ WsHeld' /\ UNCHANGED <<toLocal, localGot, npOutgoing>>
  BY ServerFrameFacts
<1>2. UNCHANGED <<s2c, c2s, handler, delivering, listener, current, tcpPorts, requests,
                  response, writers, toUser, outgoing, serverRead, userGot, userSent,
                  userClosed, userGone>>
  BY DEF TaskReadFails, handlerVars, listenerVars, channelVars, userVars
<1>3. stask[u] = "run" /\ userClosed[u] /\ Break(u)
  BY DEF TaskReadFails, Inv, Up, UpChunks
<1>4. Setup' /\ \A v \in Users : (Down(v) /\ Up(v))'
  BY <1>2, <1>3, BreakFacts, PassSame, TaskSetup, QuietTask DEF Passes
<1>5. Ports'
  BY <1>2 DEF Inv, Ports
<1>6. TypeOK' /\ Channels'
  BY <1>1, <1>2, <1>3, BreakFacts DEF Inv, TypeOK, WireTypeOK, ServerTypeOK, Channels
<1> QED
  BY <1>1, <1>4, <1>5, <1>6 DEF Inv

\* The task has removed its writer; its channel is dropped.
LEMMA TaskRemoveStep == ASSUME Inv, NEW u \in Users, TaskRemove(u), ServerFrame
                        PROVE  Inv'
<1>1. wsUp' \in BOOLEAN /\ NpTypeOK' /\ WsHeld' /\ UNCHANGED <<toLocal, localGot, npOutgoing>>
  BY ServerFrameFacts
<1>2. UNCHANGED <<s2c, c2s, handler, delivering, listener, current, tcpPorts, requests,
                  response, outgoing, serverRead, userGot, userSent, userClosed, userGone>>
  BY DEF TaskRemove, handlerVars, listenerVars, userVars
<1>3. /\ stask[u] = "removing" /\ handler # "blocked" /\ writers' \subseteq writers
      /\ stask'[u] = "done" /\ conn'[u] = "closed" /\ toUser'[u] = <<>>
      /\ \A v \in Users : v # u =>
           stask'[v] = stask[v] /\ toUser'[v] = toUser[v] /\ conn'[v] = conn[v]
      /\ stask' \in [Users -> {"none", "run", "sending", "removing", "done"}]
      /\ conn' \in [Users -> {"idle", "backlog", "held", "closed"}]
      /\ toUser' \in [Users -> Seq(Nat)]
  BY DEF TaskRemove, WritersLocked, Inv, TypeOK, ServerTypeOK, Channels
<1>4. Setup' /\ \A v \in Users : (Down(v) /\ Up(v))'
  BY <1>2, <1>3, PassSame, TaskSetup, QuietTask DEF Passes
<1>5. Ports'
  BY <1>2 DEF Inv, Ports
<1>6. Bounded(toUser', Users, MaxLocalData, ServerCap)
  BY ChannelTypes, ClearFacts DEF TaskRemove
<1>7. TypeOK' /\ Channels'
  BY <1>1, <1>2, <1>3, <1>6 DEF Inv, TypeOK, WireTypeOK, ServerTypeOK, Channels, Bounded
<1> QED
  BY <1>1, <1>4, <1>5, <1>7 DEF Inv

\* The Client is gone, and with it the websocket.
LEMMA TaskTimeoutStep == ASSUME Inv, NEW u \in Users, TaskTimeout(u), ServerFrame
                         PROVE  Inv'
<1>1. wsUp' \in BOOLEAN /\ NpTypeOK' /\ WsHeld' /\ UNCHANGED <<toLocal, localGot, npOutgoing>>
  BY ServerFrameFacts
<1>2. UNCHANGED <<s2c, c2s, handler, delivering, listener, current, tcpPorts, requests,
                  response, writers, toUser, outgoing, serverRead, userGot, userSent,
                  userClosed, userGone>>
  BY DEF TaskTimeout, handlerVars, listenerVars, channelVars, userVars
<1>3. /\ stask[u] = "run" /\ ~wsUp'
      /\ stask'[u] = "done" /\ conn'[u] = "closed"
      /\ \A v \in Users : v # u => stask'[v] = stask[v] /\ conn'[v] = conn[v]
      /\ stask' \in [Users -> {"none", "run", "sending", "removing", "done"}]
      /\ conn' \in [Users -> {"idle", "backlog", "held", "closed"}]
  BY ReleasedFacts DEF TaskTimeout, Inv, TypeOK, ServerTypeOK
<1>4. Setup' /\ \A v \in Users : (Down(v) /\ Up(v))'
  BY <1>2, <1>3, PassSame, TaskSetup, QuietTask DEF Passes
<1>5. Ports'
  BY <1>2 DEF Inv, Ports
<1>6. TypeOK' /\ Channels'
  BY <1>1, <1>2, <1>3 DEF Inv, TypeOK, WireTypeOK, ServerTypeOK, Channels
<1> QED
  BY <1>1, <1>4, <1>5, <1>6 DEF Inv

\* The task takes a chunk from its channel and writes it, or breaks.
LEMMA UpGet ==
  ASSUME Inv, NEW u \in Users, stask[u] = "run", toUser[u] # <<>>, toUser'[u] = Tail(toUser[u]),
         wsUp' => wsUp, AtServer(u)' = AtServer(u),
         \/ /\ Head(toUser[u]) # 0 /\ stask'[u] = "run"
            /\ userGot'[u] = IF userGone[u] THEN userGot[u]
                             ELSE Append(userGot[u], Head(toUser[u]))
         \/ /\ Head(toUser[u]) = 0 \/ userGone[u]
            /\ stask'[u] \in {"removing", "done"} /\ userGot'[u] = userGot[u],
         UNCHANGED <<c2s, handler, delivering, userClosed, userGone, localSent, localClosed,
                     localGone, ntask, npOutgoing, npRead>>
  PROVE  Up(u)'
<1> DEFINE n == Head(toUser[u])
<1>1. UpChunks(u) /\ UpChain(u) /\ UpDone(u)
  BY DEF Inv, Up
<1>2. /\ localSent[u] \in Nat /\ toUser[u] \in Seq(Nat) /\ userGot[u] \in Seq(Nat)
      /\ Len(userGot[u]) \in Nat /\ AtServer(u) \in {0, 1}
  BY Counts
<1>3. /\ n = toUser[u][1] /\ 1 \in 1 .. Len(toUser[u]) /\ n \in Nat
      /\ \A i \in 1 .. Len(toUser'[u]) :
           i + 1 \in 1 .. Len(toUser[u]) /\ toUser'[u][i] = toUser[u][i + 1]
  <2>1. n = toUser[u][1] /\ Len(toUser[u]) \in Nat \ {0} /\ n \in Nat
    BY <1>2, TailFacts
  <2> QED
    BY <1>2, <2>1, TailFacts
<1>4. Sent(n, localSent[u], localClosed[u])
  BY <1>1, <1>3 DEF UpChunks
<1>5. \A i \in 1 .. Len(toUser'[u]) : Sent(toUser'[u][i], localSent[u], localClosed[u])
  BY <1>1, <1>3 DEF UpChunks
<1>6. ~userGone[u] => /\ Ord(localSent[u], n) = Len(userGot[u]) + 1
                        /\ Queued(Tail(toUser[u]), Append(userGot[u], n), localSent[u])
  BY <1>1, <1>2, <1>3, QueueTake DEF UpChain
<1>7. CASE userGot'[u] = userGot[u] /\ (userGone[u] \/ stask'[u] \in {"removing", "done"})
  <2>1. UpChunks(u)'
    BY <1>1, <1>5, <1>7 DEF UpChunks
  <2>2. UpChain(u)'
    BY <1>7 DEF UpChain
  <2>3. ~userClosed[u] => localClosed[u] /\ Len(userGot[u]) = localSent[u]
    <3> SUFFICES ASSUME ~userClosed[u]
                 PROVE  localClosed[u] /\ Len(userGot[u]) = localSent[u]
      OBVIOUS
    <3>1. ~userGone[u] /\ n = 0
      BY <1>1, <1>7 DEF UpChunks
    <3>2. localSent[u] + 1 = Len(userGot[u]) + 1
      BY <1>6, <3>1 DEF Ord
    <3>3. PICK l \in Nat : l = Len(userGot[u])
      BY <1>2
    <3>4. l = localSent[u]
      BY <1>2, <3>2, <3>3
    <3> QED
      BY <1>4, <3>1, <3>3, <3>4 DEF Sent
  <2>4. UpDone(u)'
    BY <1>7, <2>3 DEF UpDone
  <2> QED
    BY <2>1, <2>2, <2>4 DEF Up
<1>8. CASE ~userGone[u] /\ stask'[u] = "run" /\ n # 0 /\ userGot'[u] = Append(userGot[u], n)
  <2>1. PICK l \in Nat : l = Len(userGot[u])
    BY <1>2
  <2>2. n = l + 1 /\ l + 1 <= localSent[u]
    BY <1>2, <1>4, <1>6, <1>8, <2>1 DEF Ord, Sent
  <2>3. /\ Len(userGot'[u]) = l + 1
        /\ \A i \in 1 .. l : userGot'[u][i] = userGot[u][i]
        /\ userGot'[u][l + 1] = n
        /\ \A i \in 1 .. Len(userGot'[u]) : i \in 1 .. l \/ i = l + 1
    BY <1>2, <1>3, <1>8, <2>1, AppendFacts
  <2>4. UpChunks(u)'
    <3>1. IsRun(userGot'[u])
      BY <1>1, <2>1, <2>2, <2>3 DEF UpChunks, IsRun
    <3>2. Len(userGot'[u]) <= localSent[u]
      BY <2>2, <2>3
    <3> QED
      BY <1>1, <1>5, <3>1, <3>2 DEF UpChunks
  <2>5. UpBase(u)' = UpBase(u) /\ UpSent(u)' = UpSent(u)
    <3>1. \A k \in {0, 1} : Base(Append(userGot[u], n), Tail(toUser[u]), k)
                              = Base(userGot[u], toUser[u], k)
      BY <1>2, <1>3, BaseTake
    <3> QED
      BY <1>2, <1>8, <3>1 DEF UpBase, UpSent
  <2>6. UpChain(u)'
    BY <1>1, <1>6, <1>8, <2>5 DEF UpChain
  <2>7. UpDone(u)'
    BY <1>8 DEF UpDone
  <2> QED
    BY <2>4, <2>6, <2>7 DEF Up
<1> QED
  BY <1>7, <1>8

\* The task writes a chunk to the user, or ends on the close: all before it
\* has arrived.
LEMMA TaskRecvStep == ASSUME Inv, NEW u \in Users, TaskRecv(u), ServerFrame
                      PROVE  Inv'
<1>1. /\ wsUp' \in BOOLEAN /\ (wsUp' => wsUp) /\ NpTypeOK' /\ WsHeld'
      /\ UNCHANGED <<npLoop, npMessage, npWriters, toLocal, ntask, npOutgoing, localClosed,
                     localGone, localSent, npRead, localGot>>
  BY ServerFrameFacts
<1>2. /\ UNCHANGED <<s2c, c2s, handler, delivering, listener, current, tcpPorts, requests,
                     response, writers, outgoing, serverRead, userSent, userClosed, userGone>>
      /\ \A v \in Users : AtServer(v)' = AtServer(v)
  BY DEF TaskRecv, handlerVars, listenerVars, userVars, AtServer
<1>3. /\ stask[u] = "run" /\ toUser[u] # <<>> /\ toUser'[u] = Tail(toUser[u])
      /\ \A v \in Users : v # u => toUser'[v] = toUser[v]
  BY DEF TaskRecv, Inv, Channels
<1>4. /\ \/ /\ Head(toUser[u]) # 0 /\ stask'[u] = "run"
            /\ userGot'[u] = IF userGone[u] THEN userGot[u]
                             ELSE Append(userGot[u], Head(toUser[u]))
         \/ /\ Head(toUser[u]) = 0 \/ userGone[u]
            /\ stask'[u] \in {"removing", "done"} /\ userGot'[u] = userGot[u]
      /\ stask' \in [Users -> {"none", "run", "sending", "removing", "done"}]
      /\ conn' \in [Users -> {"idle", "backlog", "held", "closed"}]
      /\ conn'[u] = conn[u] \/ conn'[u] = "closed"
      /\ \A v \in Users : v # u => /\ stask'[v] = stask[v] /\ conn'[v] = conn[v]
                                   /\ userGot'[v] = userGot[v]
  <2>1. CASE /\ Head(toUser[u]) # 0
             /\ userGot' = [userGot EXCEPT ![u] =
                              IF userGone[u] THEN @ ELSE Append(@, Head(toUser[u]))]
             /\ UNCHANGED <<stask, conn>>
    BY <1>3, <2>1 DEF Inv, TypeOK, ServerTypeOK, Channels
  <2>2. CASE /\ Head(toUser[u]) = 0 \/ userGone[u]
             /\ Break(u) /\ UNCHANGED userGot
    BY <2>2, BreakFacts
  <2> QED
    BY <2>1, <2>2 DEF TaskRecv
<1>5. Setup'
  BY <1>2, <1>3, <1>4, PassSame, TaskSetup DEF Passes
<1>6. \A v \in Users : Down(v)'
  BY <1>2, <1>3, <1>4, QuietDown
<1>7. ASSUME NEW v \in Users, v # u
      PROVE  Up(v)'
  <2>1. UpSame(v)
    BY <1>1, <1>2, <1>3, <1>4, <1>7, PassSame DEF UpSame
  <2> QED
    BY <2>1, UpFrame
<1>8. Up(u)'
  BY <1>1, <1>2, <1>3, <1>4, UpGet
<1>9. Ports'
  BY <1>2 DEF Inv, Ports
<1>10. TypeOK' /\ Channels'
  <2>1. Bounded(toUser', Users, MaxLocalData, ServerCap)
    BY <1>3, ChannelTypes, TakeFacts DEF TaskRecv
  <2>2. /\ userGot' \in [Users -> Seq(Nat)]
        /\ \A v \in Users : userGot'[v] \in Seq(1 .. MaxLocalData)
    <3>1. CASE UNCHANGED userGot
      BY <3>1 DEF Inv, TypeOK, ServerTypeOK, Channels
    <3>2. CASE /\ Head(toUser[u]) # 0
               /\ userGot' = [userGot EXCEPT ![u] = Append(@, Head(toUser[u]))]
      <4>1. Head(toUser[u]) \in 1 .. MaxLocalData /\ Head(toUser[u]) \in Nat
        <5>1. toUser[u] \in Seq(0 .. MaxLocalData)
          BY DEF Inv, TypeOK, ServerTypeOK
        <5>2. Head(toUser[u]) \in 0 .. MaxLocalData
          <6>1. toUser[u] # <<>>
            BY <1>3
          <6> QED
            BY <5>1, <6>1, HeadIn, Zenon
        <5>3. Head(toUser[u]) # 0
          BY <3>2
        <5> QED
          BY <5>2, <5>3, WireAssumption
      <4>2. userGot[u] \in Seq(1 .. MaxLocalData) /\ userGot[u] \in Seq(Nat)
        BY DEF Inv, TypeOK, ServerTypeOK, Channels
      <4>3. /\ Append(userGot[u], Head(toUser[u])) \in Seq(1 .. MaxLocalData)
            /\ Append(userGot[u], Head(toUser[u])) \in Seq(Nat)
        BY <4>1, <4>2, AppendFacts
      <4> QED
        BY <3>2, <4>3 DEF Inv, TypeOK, ServerTypeOK, Channels
    <3> QED
      <4>1. CASE userGone[u]
        <5>1. UNCHANGED userGot
          BY <4>1 DEF TaskRecv, Inv, Channels
        <5> QED
          BY <3>1, <5>1
      <4>2. CASE ~userGone[u]
        BY <3>1, <3>2, <4>2 DEF TaskRecv
      <4> QED
        BY <4>1, <4>2
  <2> QED
    BY <1>1, <1>2, <1>4, <2>1, <2>2
       DEF Inv, TypeOK, WireTypeOK, ServerTypeOK, Channels, Bounded
<1> QED
  BY <1>1, <1>5, <1>6, <1>7, <1>8, <1>9, <1>10 DEF Inv

\* The task sends what it has read.
LEMMA DownSend ==
  ASSUME Inv, NEW u \in Users, stask[u] = "sending", wsUp' => wsUp, AtNp(u)' = AtNp(u),
         SendToNp(outgoing[u]) \/ (SendFails /\ UNCHANGED s2c),
         \/ outgoing[u].kind = "receive" /\ stask'[u] = "run"
         \/ stask'[u] \in {"removing", "done"},
         UNCHANGED <<toLocal, localGot, ntask, localClosed, localGone, npMessage, outgoing,
                     serverRead, userSent, userClosed, userGone>>
  PROVE  Down(u)'
<1> DEFINE m == outgoing[u]
<1>1. DownChunks(u) /\ DownChain(u) /\ DownDone(u)
  BY DEF Inv, Down
<1>2. userSent[u] \in Nat /\ serverRead[u] \in Nat /\ DownBase(u) \in Nat
  BY Counts
<1>3. /\ m \in ServerMessages /\ IsChunk(m, u) /\ m.n \in Nat
      /\ Sent(m.n, userSent[u], userClosed[u])
      /\ m.kind = "receive" => m.n = serverRead[u] /\ m.n # 0
  BY <1>1, <1>2, MsgFacts DEF DownChunks, IsChunk, Sent, Inv, Channels
<1>4. DownSent(u) \in Nat /\ Ord(userSent[u], m.n) = DownSent(u) + 1
  BY <1>2, <1>3 DEF DownSent, Ord
<1>5. s2c \in Seq(ServerMessages)
  BY DEF Inv, TypeOK, WireTypeOK
<1>6. DownChunks(u)'
  <2>1. \A i \in 1 .. Len(s2c') : IsChunk(s2c'[i], u) => Sent(s2c'[i].n, userSent[u], userClosed[u])
    <3>1. CASE SendToNp(m)
      <4> DEFINE q == s2c
                 r == s2c'
      <4>1. /\ \A i \in 1 .. Len(q) : r[i] = q[i]
            /\ r[Len(q) + 1] = m
            /\ \A i \in 1 .. Len(r) : i \in 1 .. Len(q) \/ i = Len(q) + 1
        BY <1>3, <1>5, <3>1, AppendFacts DEF SendToNp
      <4> QED
        BY <1>1, <1>3, <4>1 DEF DownChunks
    <3>2. CASE UNCHANGED s2c
      BY <1>1, <3>2 DEF DownChunks
    <3> QED
      BY <3>1, <3>2
  <2> QED
    BY <1>1, <2>1 DEF DownChunks
<1>7. DownBase(u)' = DownBase(u)
  BY DEF DownBase
<1>8. DownChain(u)'
  <2> SUFFICES ASSUME ~localGone[u], ntask[u] \in {"none", "run", "sending"}
               PROVE  /\ Chained(s2c', u, DownBase(u), userSent[u])
                      /\ wsUp' /\ stask'[u] \in {"none", "run", "sending"} =>
                           Filled(s2c', u, DownBase(u), userSent[u], DownSent(u)')
    BY <1>1, <1>7 DEF DownChain
  <2>1. /\ Chained(s2c, u, DownBase(u), userSent[u])
        /\ wsUp => Filled(s2c, u, DownBase(u), userSent[u], DownSent(u))
    BY <1>1 DEF DownChain
  <2>2. CASE SendToNp(m)
    <3>1. /\ Chained(s2c', u, DownBase(u), userSent[u])
          /\ Filled(s2c', u, DownBase(u), userSent[u], DownSent(u) + 1)
      BY <1>2, <1>3, <1>4, <1>5, <2>1, <2>2, NumberedBoth, SendOwn DEF SendToNp
    <3>2. stask'[u] \in {"none", "run", "sending"} => DownSent(u)' = DownSent(u) + 1
      BY <1>2, <1>3, <1>4 DEF DownSent, Ord
    <3> QED
      BY <3>1, <3>2
  <2>3. CASE SendFails /\ UNCHANGED s2c
    BY <2>1, <2>3 DEF SendFails
  <2> QED
    BY <2>2, <2>3
<1>9. DownDone(u)'
  BY <1>1 DEF DownDone
<1> QED
  BY <1>6, <1>8, <1>9 DEF Down

\* The chunk that was read goes to np, after all the chunks before it.
LEMMA TaskSendStep == ASSUME Inv, NEW u \in Users, TaskSend(u), ServerFrame
                      PROVE  Inv'
<1>1. /\ wsUp' \in BOOLEAN /\ (wsUp' => wsUp) /\ NpTypeOK' /\ WsHeld'
      /\ UNCHANGED <<npLoop, npMessage, npWriters, toLocal, ntask, npOutgoing, localClosed,
                     localGone, localSent, npRead, localGot>>
      /\ \A v \in Users : AtNp(v)' = AtNp(v)
  BY ServerFrameFacts
<1>2. /\ UNCHANGED <<c2s, handler, delivering, listener, current, tcpPorts, requests,
                     response, writers, toUser, outgoing, serverRead, userGot, userSent,
                     userClosed, userGone>>
      /\ \A v \in Users : AtServer(v)' = AtServer(v)
  BY DEF TaskSend, handlerVars, listenerVars, channelVars, userVars, AtServer
<1>3. /\ stask[u] = "sending" /\ outgoing[u] \in ServerMessages
      /\ outgoing[u].user = u /\ outgoing[u].kind \in {"receive", "close"}
      /\ outgoing[u].kind = "close" => userClosed[u]
      /\ \A v \in Users : v # u => ~IsChunk(outgoing[u], v)
      /\ SendToNp(outgoing[u]) \/ (SendFails /\ UNCHANGED s2c)
  BY MsgFacts DEF TaskSend, Inv, Channels, Down, DownChunks, IsChunk
<1>4. /\ \/ outgoing[u].kind = "receive" /\ stask'[u] = "run"
         \/ stask'[u] \in {"removing", "done"} /\ userClosed[u]
      /\ stask' \in [Users -> {"none", "run", "sending", "removing", "done"}]
      /\ conn' \in [Users -> {"idle", "backlog", "held", "closed"}]
      /\ conn'[u] = conn[u] \/ conn'[u] = "closed"
      /\ \A v \in Users : v # u => stask'[v] = stask[v] /\ conn'[v] = conn[v]
  <2>1. CASE outgoing[u].kind = "receive"
    BY <2>1 DEF TaskSend, Inv, TypeOK, ServerTypeOK
  <2>2. CASE outgoing[u].kind = "close"
    BY <1>3, <2>2, BreakFacts DEF TaskSend
  <2> QED
    BY <1>3, <2>1, <2>2
<1>5. /\ s2c' \in Seq(ServerMessages) /\ Len(s2c') <= WsCap
      /\ \A v \in Users : PassesConnect(s2c, s2c', v)
      /\ \A v \in Users : v # u => /\ PassesChunks(s2c, s2c', v)
                                   /\ PassesChain(s2c, s2c', v) /\ Keeps(s2c, s2c', v)
  <2>1. PICK m \in ServerMessages : m = outgoing[u]
    BY <1>3
  <2> QED
    BY <1>3, <2>1, SendToNpFacts
<1>6. Setup'
  BY <1>2, <1>3, <1>4, <1>5, TaskSetup
<1>7. ASSUME NEW v \in Users
      PROVE  Up(v)'
  <2>1. UpSame(v)
    <3>1. CASE v = u
      BY <1>1, <1>2, <1>3, <1>4, <3>1, PassSame DEF UpSame
    <3>2. CASE v # u
      BY <1>1, <1>2, <1>4, <3>2, PassSame DEF UpSame
    <3> QED
      BY <3>1, <3>2
  <2> QED
    BY <2>1, UpFrame
<1>8. ASSUME NEW v \in Users, v # u
      PROVE  Down(v)'
  <2>1. serverRead[v] <= userSent[v]
    BY DEF Inv, Down, DownChunks
  <2>2. DownSame(v)
    BY <1>1, <1>2, <1>4, <1>5, <1>8, <2>1 DEF DownSame
  <2> QED
    BY <2>2, DownFrame
<1>9. Down(u)'
  BY <1>1, <1>2, <1>3, <1>4, DownSend
<1>10. Ports'
  BY <1>2 DEF Inv, Ports
<1>11. TypeOK' /\ Channels'
  BY <1>1, <1>2, <1>4, <1>5 DEF Inv, TypeOK, WireTypeOK, ServerTypeOK, Channels
<1> QED
  BY <1>1, <1>6, <1>7, <1>8, <1>9, <1>10, <1>11 DEF Inv

\* The user sends one more chunk: nothing on the way is its close.
LEMMA UserSendStep == ASSUME Inv, NEW u \in Users, UserSend(u), ServerFrame
                      PROVE  Inv'
<1>1. /\ wsUp' \in BOOLEAN /\ (wsUp' => wsUp) /\ NpTypeOK' /\ WsHeld'
      /\ UNCHANGED <<npLoop, npMessage, npWriters, toLocal, ntask, npOutgoing, localClosed,
                     localGone, localSent, npRead, localGot>>
      /\ \A v \in Users : AtNp(v)' = AtNp(v)
  BY ServerFrameFacts
<1>2. /\ UNCHANGED <<s2c, c2s, handler, delivering, listener, current, tcpPorts, requests,
                     response, writers, toUser, stask, outgoing, conn, serverRead, userGot,
                     userClosed, userGone>>
      /\ \A v \in Users : AtServer(v)' = AtServer(v)
  BY DEF UserSend, handlerVars, listenerVars, channelVars, taskVars, AtServer
<1>3. /\ ~userClosed[u] /\ userSent[u] \in Nat /\ userSent'[u] = userSent[u] + 1
      /\ userSent' \in [Users -> 0 .. MaxUserData]
      /\ \A v \in Users : v # u => userSent'[v] = userSent[v]
  BY WireAssumption DEF UserSend, Inv, TypeOK, ServerTypeOK
<1>4. Setup'
  <2>1. Listening'
    BY <1>1, <1>2 DEF Listening, Inv, Setup
  <2> QED
    BY <1>2, <2>1, PassSame, QuietSetup
<1>5. ASSUME NEW v \in Users
      PROVE  Up(v)'
  <2>1. UpSame(v)
    BY <1>1, <1>2, PassSame DEF UpSame
  <2> QED
    BY <2>1, UpFrame
<1>6. ASSUME NEW v \in Users, v # u
      PROVE  Down(v)'
  <2>1. serverRead[v] <= userSent[v]
    BY DEF Inv, Down, DownChunks
  <2>2. DownSame(v)
    BY <1>1, <1>2, <1>3, <1>6, <2>1, PassSame DEF DownSame
  <2> QED
    BY <2>2, DownFrame
<1>7. Down(u)'
  <2>1. DownChunks(u) /\ DownChain(u) /\ DownDone(u)
    BY DEF Inv, Down
  <2>2. serverRead[u] \in Nat /\ Len(localGot[u]) \in Nat
    BY Counts
  <2>3. \A n : Sent(n, userSent[u], userClosed[u]) =>
          Sent(n, userSent'[u], userClosed[u]) /\ n # 0
    BY <1>3 DEF Sent
  <2>4. DownChunks(u)'
    <3>1. serverRead[u] <= userSent'[u]
      BY <1>3, <2>1, <2>2 DEF DownChunks
    <3>2. Len(localGot[u]) <= userSent'[u]
      <4>1. PICK l \in Nat : l = Len(localGot[u])
        BY <2>2
      <4> QED
        BY <1>3, <2>1, <4>1 DEF DownChunks
    <3> QED
      BY <1>1, <1>2, <1>3, <2>1, <2>3, <3>1, <3>2 DEF DownChunks
  <2>5. DownBase(u)' = DownBase(u) /\ DownSent(u)' = DownSent(u)
    BY <1>1, <1>2, <1>3, <2>1, MsgFacts DEF DownBase, DownSent, Ord, DownChunks
  <2>6. DownChain(u)'
    <3>1. \A i \in 1 .. Len(s2c) : IsChunk(s2c[i], u) => s2c[i].n # 0
      BY <2>1, <2>3 DEF DownChunks
    <3>2. AtNp(u) = 1 => Ord(userSent'[u], npMessage.n) = Ord(userSent[u], npMessage.n)
      BY <2>1, <2>3 DEF DownChunks, Ord
    <3>3. Queued(toLocal[u], localGot[u], userSent[u]) =>
            Queued(toLocal[u], localGot[u], userSent'[u])
      BY <2>1, <2>3 DEF DownChunks, Queued, Ord
    <3>4. /\ Chained(s2c, u, DownBase(u), userSent[u]) =>
               Chained(s2c, u, DownBase(u), userSent'[u])
          /\ Filled(s2c, u, DownBase(u), userSent[u], DownSent(u)) =>
               Filled(s2c, u, DownBase(u), userSent'[u], DownSent(u))
      BY <3>1, Renumber
    <3> QED
      BY <1>1, <1>2, <2>1, <2>5, <3>2, <3>3, <3>4 DEF DownChain
  <2>7. DownDone(u)'
    BY <1>1, <1>2, <1>3, <2>1 DEF DownDone
  <2> QED
    BY <2>4, <2>6, <2>7 DEF Down
<1>8. Ports'
  BY <1>2 DEF Inv, Ports
<1>9. TypeOK' /\ Channels'
  BY <1>1, <1>2, <1>3 DEF Inv, TypeOK, WireTypeOK, ServerTypeOK, Channels
<1> QED
  BY <1>1, <1>4, <1>5, <1>6, <1>7, <1>8, <1>9 DEF Inv

-----------------------------------------------------------------------------
(* np's loop                                                               *)

\* A step of np that leaves what the local service sends alone.
LEMMA QuietUp ==
  ASSUME Inv, NpFrame, NEW v \in Users, UNCHANGED <<c2s, localSent>>,
         localClosed[v] => localClosed'[v], npRead'[v] = npRead[v],
         ntask'[v] = "sending" => ntask[v] = "sending" /\ npOutgoing'[v] = npOutgoing[v],
         ntask'[v] \in {"none", "run"} => ntask[v] \in {"none", "run"}
  PROVE  Up(v)'
<1>1. /\ wsUp' = wsUp
      /\ UNCHANGED <<handler, delivering, toUser, stask, userClosed, userGone, userGot>>
      /\ AtServer(v)' = AtServer(v)
  BY NpFrameFacts
<1>2. UpSame(v)
  BY <1>1, PassSame DEF UpSame
<1> QED
  BY <1>2, UpFrame

\* A step of np's loop that moves no chunk.
LEMMA QuietNp ==
  ASSUME Inv, NpFrame, NoChunksMove, npLoop # "blocked", npLoop' # "blocked",
         UNCHANGED <<toLocal, npOutgoing, npRead, localGot, localClosed, localGone, localSent>>,
         \A v \in Users : ntask'[v] = ntask[v] \/ (ntask[v] = "none" /\ ntask'[v] = "run")
  PROVE  \A v \in Users : (Down(v) /\ Up(v))'
<1>1. /\ wsUp' = wsUp
      /\ UNCHANGED <<handler, delivering, toUser, stask, outgoing, userClosed, userGone, userSent,
                     serverRead, userGot>>
      /\ \A v \in Users : AtServer(v)' = AtServer(v)
  BY NpFrameFacts
<1>2. ASSUME NEW v \in Users
      PROVE  DownSame(v) /\ UpSame(v)
  <2>1. serverRead[v] <= userSent[v]
    BY DEF Inv, Down, DownChunks
  <2>2. AtNp(v)' = AtNp(v) /\ AtNp(v) = 0
    BY DEF AtNp
  <2>3. DownSame(v)
    BY <1>1, <2>1, <2>2 DEF DownSame, NoChunksMove
  <2>4. UpSame(v)
    BY <1>1 DEF UpSame, NoChunksMove
  <2> QED
    BY <2>3, <2>4
<1> QED
  BY <1>2, DownFrame, UpFrame

\* np learns that the port is open.
LEMMA NpOpenedStep == ASSUME Inv, NpOpened, NpFrame
                      PROVE  Inv'
<1>1. /\ wsUp' = wsUp /\ ServerTypeOK' /\ WsHeld' /\ Ports'
      /\ UNCHANGED <<handler, delivering, listener, current, response, writers, toUser, stask,
                     outgoing, conn, serverRead, userGot>>
  BY NpFrameFacts
<1>2. UNCHANGED <<c2s, npLoop, npMessage, npWriters, toLocal, ntask, npOutgoing, npRead,
                  localGot, localClosed, localGone, localSent>>
  BY DEF NpOpened, npTaskVars, localVars
<1>3. /\ s2c' \in Seq(ServerMessages) /\ Len(s2c') <= WsCap
      /\ \A v \in Users : Passes(s2c, s2c', v) /\ PassesChunks(s2c, s2c', v)
      /\ NoChunksMove
  <2>1. FromServer("opened", NoUser)
    BY DEF NpOpened
  <2>2. Head(s2c).kind = "opened"
    BY <2>1 DEF FromServer
  <2> QED
    BY <1>2, <2>1, <2>2, TakeFromServer, ChunkFacts, PassSame DEF NoChunksMove
<1>4. npLoop = "recv" /\ npOpen' \in BOOLEAN
  BY DEF NpOpened
<1>5. \A v \in Users : (Down(v) /\ Up(v))'
  BY <1>2, <1>3, <1>4, QuietNp
<1>6. Setup'
  <2>1. Listening' /\ Replies' /\ Blocked'
    BY <1>1, <1>2, <1>3, <1>4
       DEF Listening, Replies, Blocked, Inv, Setup, Passes, PassesConnect
  <2>2. \A v \in Users : SetupSame(v)
    BY <1>1, <1>2, <1>3 DEF SetupSame, Passes, PassesConnect, PassesChunks, NoChunk
  <2> QED
    BY <2>1, <2>2, SetupFrame
<1>7. TypeOK' /\ Channels'
  BY <1>1, <1>2, <1>3, <1>4 DEF Inv, TypeOK, WireTypeOK, NpTypeOK, Channels
<1> QED
  BY <1>1, <1>5, <1>6, <1>7 DEF Inv

\* np's loop leaves a broken websocket.
LEMMA NpRecvFailsStep == ASSUME Inv, NpRecvFails, NpFrame
                         PROVE  Inv'
<1>1. /\ wsUp' = wsUp /\ ServerTypeOK' /\ WsHeld' /\ Ports'
      /\ UNCHANGED <<handler, delivering, listener, current, response, writers, toUser, stask,
                     outgoing, conn, serverRead, userGot>>
  BY NpFrameFacts
<1>2. UNCHANGED <<s2c, c2s, npMessage, npOpen, npWriters, toLocal, ntask, npOutgoing, npRead,
                  localGot, localClosed, localGone, localSent>>
  BY DEF NpRecvFails, npTaskVars, localVars
<1>3. npLoop = "recv" /\ npLoop' = "reconnecting"
  BY DEF NpRecvFails
<1>4. \A v \in Users : (Down(v) /\ Up(v))'
  BY <1>2, <1>3, NoneMoves, QuietNp
<1>5. Setup'
  <2>1. Listening' /\ Replies' /\ Blocked'
    BY <1>1, <1>2, <1>3 DEF Listening, Replies, Blocked, Inv, Setup
  <2>2. \A v \in Users : SetupSame(v)
    BY <1>1, <1>2, <1>3 DEF SetupSame
  <2> QED
    BY <2>1, <2>2, SetupFrame
<1>6. TypeOK' /\ Channels'
  BY <1>1, <1>2, <1>3 DEF Inv, TypeOK, WireTypeOK, NpTypeOK, Channels
<1> QED
  BY <1>1, <1>4, <1>5, <1>6 DEF Inv

\* np answers PortConnect, after it has started the task of the connection.
LEMMA NpReplyStep == ASSUME Inv, NpReply, NpFrame
                     PROVE  Inv'
<1>1. /\ wsUp' = wsUp /\ ServerTypeOK' /\ WsHeld' /\ Ports'
      /\ UNCHANGED <<handler, delivering, listener, current, response, writers, toUser, stask,
                     outgoing, conn, serverRead, userGot>>
  BY NpFrameFacts
<1>2. UNCHANGED <<s2c, npMessage, npOpen, npWriters, toLocal, ntask, npOutgoing, npRead,
                  localGot, localClosed, localGone, localSent>>
  BY DEF NpReply, npTaskVars, localVars
<1>3. PICK m \in ClientMessages :
        /\ m = npMessage /\ npLoop = "reply" /\ npLoop' = "recv" /\ m.kind = "connected"
        /\ SendToServer(m) \/ (SendFails /\ UNCHANGED c2s)
  BY DEF NpReply, Inv, TypeOK, NpTypeOK, Setup, Replies
<1>4. /\ c2s' \in Seq(ClientMessages) /\ Len(c2s') <= WsCap
      /\ \A v \in Users : m.user # v => Passes(c2s, c2s', v)
      /\ NoChunksMove
  BY <1>2, <1>3, SendToServerFacts, ChunkFacts, PassSame DEF NoChunksMove
<1>5. \A v \in Users : (Down(v) /\ Up(v))'
  BY <1>2, <1>3, <1>4, QuietNp
<1>6. Setup'
  <2>1. Listening' /\ Replies' /\ Blocked'
    BY <1>1, <1>2, <1>3 DEF Listening, Replies, Blocked, Inv, Setup
  <2>2. ASSUME NEW v \in Users, ntask[v] = "none", OnlyRefused(c2s, v)
        PROVE  OnlyRefused(c2s', v)
    <3>1. CASE m.user = v
      <4>1. m.n = 0
        BY <1>3, <2>2, <3>1 DEF Inv, Setup, NpFirst
      <4>2. CASE SendToServer(m)
        <5> DEFINE q == c2s
                   r == c2s'
        <5>1. /\ \A i \in 1 .. Len(q) : r[i] = q[i]
              /\ r[Len(q) + 1] = m
              /\ \A i \in 1 .. Len(r) : i \in 1 .. Len(q) \/ i = Len(q) + 1
          BY <4>2, AppendFacts DEF SendToServer, Inv, TypeOK, WireTypeOK
        <5> QED
          BY <1>3, <2>2, <4>1, <5>1 DEF OnlyRefused
      <4>3. CASE UNCHANGED c2s
        BY <2>2, <4>3 DEF OnlyRefused
      <4> QED
        BY <1>3, <4>2, <4>3
    <3>2. CASE m.user # v
      BY <1>4, <2>2, <3>2 DEF Passes
    <3> QED
      BY <3>1, <3>2
  <2>3. \A v \in Users : SetupSame(v)
    BY <1>1, <1>2, <1>3, <2>2 DEF SetupSame
  <2> QED
    BY <2>1, <2>3, SetupFrame
<1>7. TypeOK' /\ Channels'
  BY <1>1, <1>2, <1>3, <1>4 DEF Inv, TypeOK, WireTypeOK, NpTypeOK, Channels
<1> QED
  BY <1>1, <1>5, <1>6, <1>7 DEF Inv

\* np connects to the local service and starts the task, or refuses.
LEMMA NpConnectStep == ASSUME Inv, NEW u \in Users, NpConnect(u), NpFrame
                       PROVE  Inv'
<1>1. /\ wsUp' = wsUp /\ ServerTypeOK' /\ WsHeld' /\ Ports'
      /\ UNCHANGED <<handler, delivering, listener, current, response, writers, toUser, stask,
                     outgoing, conn, serverRead, userGot>>
  BY NpFrameFacts
<1>2. UNCHANGED <<c2s, npOpen, toLocal, npOutgoing, npRead, localGot, localClosed,
                  localGone, localSent>>
  BY DEF NpConnect, localVars
<1>3. /\ s2c' \in Seq(ServerMessages) /\ Len(s2c') <= WsCap
      /\ s2c # <<>> /\ s2c' = Tail(s2c)
      /\ s2c[1].kind = "connect" /\ s2c[1].user = u /\ 1 \in 1 .. Len(s2c)
      /\ \A v \in Users : Passes(s2c, s2c', v) /\ PassesChunks(s2c, s2c', v)
      /\ NoChunksMove
  <2>1. FromServer("connect", u)
    BY DEF NpConnect
  <2>2. Head(s2c).kind = "connect" /\ s2c # <<>> /\ s2c' = Tail(s2c)
    BY <2>1 DEF FromServer
  <2> QED
    BY <1>2, <2>1, <2>2, TakeFromServer, ChunkFacts, PassSame DEF NoChunksMove
<1>4. /\ ~NoConnect(s2c, u) /\ NoConnect(s2c', u)
      /\ ntask[u] = "none" /\ conn[u] \notin {"idle", "backlog"}
  <2>1. ~NoConnect(s2c, u)
    BY <1>3 DEF NoConnect
  <2>2. Once(u)
    BY DEF Inv, Setup
  <2>3. \A i \in 1 .. Len(s2c') : i + 1 \in 1 .. Len(s2c) /\ s2c'[i] = s2c[i + 1] /\ i + 1 # 1
    <3>1. s2c \in Seq(ServerMessages)
      BY DEF Inv, TypeOK, WireTypeOK
    <3> QED
      BY <1>3, <3>1, TailFacts
  <2>4. NoConnect(s2c', u)
    BY <1>3, <2>2, <2>3 DEF Once, Single, NoConnect
  <2> QED
    BY <2>1, <2>2, <2>4 DEF Once
<1>5. /\ npLoop = "recv" /\ npLoop' = "reply"
      /\ ntask' \in [Users -> {"none", "run", "sending", "removing", "done"}]
      /\ \A v \in Users : v # u => ntask'[v] = ntask[v] /\ (v \in npWriters' <=> v \in npWriters)
      /\ npMessage' \in ClientMessages /\ npMessage'.kind = "connected" /\ npMessage'.user = u
      /\ npWriters' \in SUBSET Users
      /\ \/ ntask'[u] = "run" /\ u \in npWriters'
         \/ npMessage'.n = 0 /\ UNCHANGED <<ntask, npWriters>>
  <2>1. /\ npLoop = "recv" /\ npLoop' = "reply"
        /\ ntask \in [Users -> {"none", "run", "sending", "removing", "done"}]
        /\ npWriters \in SUBSET Users
    BY DEF NpConnect, Inv, TypeOK, NpTypeOK
  <2>2. \A n \in {0, 1} : npMessage' = Msg("connected", u, n) =>
          /\ npMessage' \in ClientMessages /\ npMessage'.kind = "connected"
          /\ npMessage'.user = u /\ npMessage'.n = n
    BY MsgFacts
  <2>3. CASE /\ npWriters' = npWriters \cup {u}
             /\ ntask' = [ntask EXCEPT ![u] = "run"]
             /\ npMessage' = Msg("connected", u, 1)
    BY <2>1, <2>2, <2>3
  <2>4. CASE npMessage' = Msg("connected", u, 0) /\ UNCHANGED <<npWriters, ntask>>
    BY <2>1, <2>2, <2>4
  <2> QED
    BY <2>3, <2>4 DEF NpConnect
<1>6. \A v \in Users : (Down(v) /\ Up(v))'
  BY <1>2, <1>3, <1>4, <1>5, QuietNp
<1>7. Setup'
  <2>1. Listening'
    BY <1>1, <1>3, <1>4, <1>5 DEF Listening, Inv, Setup, Passes, PassesConnect
  <2>2. Replies' /\ Blocked'
    BY <1>1, <1>5 DEF Replies, Blocked, Inv, Setup
  <2>3. ASSUME NEW v \in Users, v # u
        PROVE  SetupSame(v)
    BY <1>1, <1>2, <1>3, <1>5, <2>3
       DEF SetupSame, Passes, PassesConnect, PassesChunks, NoChunk
  <2>4. (Once(u) /\ NpFirst(u) /\ Fresh(u) /\ HasWriter(u))'
    <3>1. Once(u) /\ NpFirst(u) /\ Fresh(u) /\ HasWriter(u)
      BY DEF Inv, Setup
    <3>2. Once(u)'
      BY <1>1, <1>3, <1>4, <3>1 DEF Once, Passes, PassesConnect
    <3>3. NpFirst(u)'
      BY <1>1, <1>2, <1>4, <1>5, <3>1 DEF NpFirst
    <3>4. Fresh(u)'
      BY <1>1, <1>3, <3>1 DEF Fresh, PassesChunks, NoChunk
    <3>5. HasWriter(u)'
      BY <1>4, <1>5, <3>1 DEF HasWriter
    <3> QED
      BY <3>2, <3>3, <3>4, <3>5
  <2>5. \A v \in Users : (Once(v) /\ NpFirst(v) /\ Fresh(v) /\ HasWriter(v))'
    BY <2>3, <2>4, SetupOne
  <2> QED
    BY <2>1, <2>2, <2>5 DEF Setup
<1>8. TypeOK' /\ Channels'
  BY <1>1, <1>2, <1>3, <1>5 DEF Inv, TypeOK, WireTypeOK, NpTypeOK, Channels
<1> QED
  BY <1>1, <1>6, <1>7, <1>8 DEF Inv

\* np takes a chunk of u: into its channel, or in hand.
LEMMA DownTake ==
  ASSUME Inv, NEW u \in Users, s2c # <<>>, IsChunk(Head(s2c), u), s2c' = Tail(s2c),
         npLoop = "recv", wsUp' = wsUp,
         UNCHANGED <<userSent, userClosed, userGone, serverRead, stask, outgoing, localGot,
                     localClosed, localGone, ntask>>,
         \/ toLocal'[u] = Append(toLocal[u], Head(s2c).n) /\ AtNp(u)' = 0
         \/ /\ toLocal'[u] = toLocal[u]
            /\ AtNp(u)' = 1 /\ npMessage' = Head(s2c)
  PROVE  Down(u)'
<1> DEFINE n == Head(s2c).n
<1>1. /\ DownChunks(u) /\ DownChain(u) /\ DownDone(u) /\ AtNp(u) = 0
  BY DEF Inv, Down, AtNp
<1>2. /\ userSent[u] \in Nat /\ toLocal[u] \in Seq(Nat) /\ localGot[u] \in Seq(Nat)
      /\ DownBase(u) \in Nat
  BY Counts
<1>3. /\ s2c \in Seq(ServerMessages) /\ Head(s2c) = s2c[1] /\ 1 \in 1 .. Len(s2c)
      /\ PassesChunks(s2c, s2c', u)
  <2>1. s2c \in Seq(ServerMessages)
    BY DEF Inv, TypeOK, WireTypeOK
  <2>2. Head(s2c) = s2c[1] /\ Len(s2c) \in Nat \ {0}
    BY <2>1, TailFacts
  <2> QED
    BY <2>1, <2>2, PassTake
<1>4. Sent(n, userSent[u], userClosed[u]) /\ n \in Nat
  BY <1>1, <1>3 DEF DownChunks, Sent
<1>5. DownBase(u)' = DownBase(u) + 1
  <2>1. /\ Base(localGot[u], Append(toLocal[u], n), 0) = Base(localGot[u], toLocal[u], 1)
        /\ Base(localGot[u], toLocal[u], 1) = Base(localGot[u], toLocal[u], 0) + 1
    BY <1>2, <1>4, BasePut
  <2> QED
    BY <1>1, <2>1 DEF DownBase
<1>6. DownChunks(u)'
  <2>1. \A i \in 1 .. Len(toLocal'[u]) : Sent(toLocal'[u][i], userSent[u], userClosed[u])
    <3>1. CASE toLocal'[u] = Append(toLocal[u], n)
      <4>1. /\ \A i \in 1 .. Len(toLocal[u]) : toLocal'[u][i] = toLocal[u][i]
            /\ toLocal'[u][Len(toLocal[u]) + 1] = n
            /\ \A i \in 1 .. Len(toLocal'[u]) : i \in 1 .. Len(toLocal[u]) \/ i = Len(toLocal[u]) + 1
        BY <1>2, <1>4, <3>1, AppendFacts
      <4> QED
        BY <1>1, <1>4, <4>1 DEF DownChunks
    <3>2. CASE toLocal'[u] = toLocal[u]
      BY <1>1, <3>2 DEF DownChunks
    <3> QED
      BY <3>1, <3>2
  <2>2. AtNp(u)' = 1 => Sent(npMessage'.n, userSent[u], userClosed[u])
    BY <1>4
  <2>3. \A i \in 1 .. Len(s2c') : IsChunk(s2c'[i], u) =>
          Sent(s2c'[i].n, userSent[u], userClosed[u])
    BY <1>1, <1>3 DEF DownChunks, PassesChunks
  <2> QED
    BY <1>1, <2>1, <2>2, <2>3 DEF DownChunks
<1>7. DownChain(u)'
  <2> SUFFICES ASSUME ~localGone[u], ntask[u] \in {"none", "run", "sending"}
               PROVE  /\ Queued(toLocal'[u], localGot[u], userSent[u])
                      /\ AtNp(u)' = 1 => Ord(userSent[u], npMessage'.n) = DownBase(u)'
                      /\ Chained(s2c', u, DownBase(u)', userSent[u])
                      /\ wsUp /\ stask[u] \in {"none", "run", "sending"} =>
                           Filled(s2c', u, DownBase(u)', userSent[u], DownSent(u)')
    BY DEF DownChain
  <2>1. /\ Queued(toLocal[u], localGot[u], userSent[u])
        /\ Chained(s2c, u, DownBase(u), userSent[u])
        /\ wsUp /\ stask[u] \in {"none", "run", "sending"} =>
             Filled(s2c, u, DownBase(u), userSent[u], DownSent(u))
    BY <1>1 DEF DownChain
  <2>2. /\ Ord(userSent[u], n) = DownBase(u) + 1
        /\ Chained(s2c', u, DownBase(u) + 1, userSent[u])
        /\ \A sent \in Nat : Filled(s2c, u, DownBase(u), userSent[u], sent) =>
                               Filled(s2c', u, DownBase(u) + 1, userSent[u], sent)
    BY <1>2, <1>3, <2>1, NumberedBoth, TakeOwn
  <2>3. DownSent(u)' = DownSent(u)
    BY DEF DownSent
  <2>4. stask[u] = "sending" => DownSent(u) \in Nat
    BY <1>1, <1>2, MsgFacts, Counts DEF DownSent, DownChunks, Ord
  <2>5. DownSent(u) \in Nat
    BY <2>4, Counts DEF DownSent
  <2>6. Queued(toLocal'[u], localGot[u], userSent[u])
    <3>1. CASE toLocal'[u] = Append(toLocal[u], n)
      <4>1. Ord(userSent[u], n) = Base(localGot[u], toLocal[u], 1)
        BY <1>1, <1>2, <1>4, <1>5, <2>2, <3>1, BasePut DEF DownBase
      <4> QED
        BY <1>2, <1>4, <2>1, <3>1, <4>1, QueuePut
    <3>2. CASE toLocal'[u] = toLocal[u]
      BY <2>1, <3>2
    <3> QED
      BY <3>1, <3>2
  <2> QED
    BY <1>5, <2>1, <2>2, <2>3, <2>5, <2>6
<1>8. DownDone(u)'
  BY <1>1 DEF DownDone
<1> QED
  BY <1>6, <1>7, <1>8 DEF Down

\* The chunk in hand goes into the channel of u.
LEMMA DownPut ==
  ASSUME Inv, NEW u \in Users, AtNp(u) = 1, AtNp(u)' = 0, wsUp' = wsUp,
         toLocal'[u] = Append(toLocal[u], npMessage.n),
         UNCHANGED <<s2c, userSent, userClosed, userGone, serverRead, stask, outgoing, localGot,
                     localClosed, localGone, ntask>>
  PROVE  Down(u)'
<1> DEFINE n == npMessage.n
<1>1. DownChunks(u) /\ DownChain(u) /\ DownDone(u)
  BY DEF Inv, Down
<1>2. /\ userSent[u] \in Nat /\ toLocal[u] \in Seq(Nat) /\ localGot[u] \in Seq(Nat)
      /\ Len(toLocal[u]) \in Nat /\ DownBase(u) \in Nat
  BY Counts
<1>3. Sent(n, userSent[u], userClosed[u]) /\ n \in Nat
  BY <1>1 DEF DownChunks, Sent
<1>4. /\ \A i \in 1 .. Len(toLocal[u]) : toLocal'[u][i] = toLocal[u][i]
      /\ toLocal'[u][Len(toLocal[u]) + 1] = n
      /\ \A i \in 1 .. Len(toLocal'[u]) : i \in 1 .. Len(toLocal[u]) \/ i = Len(toLocal[u]) + 1
  BY <1>2, <1>3, AppendFacts
<1>5. DownBase(u)' = DownBase(u) /\ DownSent(u)' = DownSent(u)
  <2>1. Base(localGot[u], Append(toLocal[u], n), 0) = Base(localGot[u], toLocal[u], 1)
    BY <1>2, <1>3, BasePut
  <2> QED
    BY <2>1 DEF DownBase, DownSent
<1>6. DownChunks(u)'
  BY <1>1, <1>3, <1>4 DEF DownChunks
<1>7. DownChain(u)'
  <2> SUFFICES ASSUME ~localGone[u], ntask[u] \in {"none", "run", "sending"}
               PROVE  /\ Queued(toLocal'[u], localGot[u], userSent[u])
                      /\ Chained(s2c, u, DownBase(u), userSent[u])
                      /\ wsUp /\ stask[u] \in {"none", "run", "sending"} =>
                           Filled(s2c, u, DownBase(u), userSent[u], DownSent(u))
    BY <1>5 DEF DownChain
  <2>1. /\ Queued(toLocal[u], localGot[u], userSent[u])
        /\ Ord(userSent[u], n) = DownBase(u)
    BY <1>1 DEF DownChain
  <2>2. Ord(userSent[u], n) = Base(localGot[u], toLocal[u], 1)
    BY <2>1 DEF DownBase
  <2> QED
    BY <1>1, <1>2, <1>3, <2>1, <2>2, QueuePut DEF DownChain
<1>8. DownDone(u)'
  BY <1>1 DEF DownDone
<1> QED
  BY <1>6, <1>7, <1>8 DEF Down

\* A chunk of the server goes to the channel of u at np, waits for room, or is
\* dropped because the task of u has ended.
LEMMA NpHandleMessageStep == ASSUME Inv, NEW u \in Users, NpHandleMessage(u), NpFrame
                             PROVE  Inv'
<1>1. /\ wsUp' = wsUp /\ ServerTypeOK' /\ WsHeld' /\ Ports'
      /\ UNCHANGED <<handler, delivering, listener, current, response, writers, toUser, stask,
                     outgoing, conn, userClosed, userGone, userSent, serverRead, userGot>>
  BY NpFrameFacts
<1>2. UNCHANGED <<c2s, npOpen, npWriters, ntask, npOutgoing, npRead, localGot, localClosed,
                  localGone, localSent>>
  BY DEF NpHandleMessage, npTaskVars, localVars
<1>3. /\ s2c # <<>> /\ s2c' = Tail(s2c)
      /\ s2c' \in Seq(ServerMessages) /\ Len(s2c') <= WsCap
      /\ Head(s2c) \in ServerMessages /\ Head(s2c).user = u
      /\ Head(s2c) = s2c[1] /\ 1 \in 1 .. Len(s2c)
      /\ IsChunk(Head(s2c), u) /\ Head(s2c).n \in Nat
      /\ \A v \in Users : Passes(s2c, s2c', v) /\ PassesChunks(s2c, s2c', v)
      /\ \A v \in Users : v # u => PassesChain(s2c, s2c', v) /\ Keeps(s2c, s2c', v)
  <2>1. PICK k \in {"receive", "close"} : FromServer(k, u)
    BY DEF NpHandleMessage
  <2>2. s2c # <<>> /\ s2c' = Tail(s2c) /\ IsChunk(Head(s2c), u)
    BY <2>1 DEF FromServer, IsChunk
  <2> QED
    BY <2>1, <2>2, TakeFromServer, ChunkFacts, MsgFacts
<1>4. /\ npLoop = "recv" /\ npLoop' \in {"recv", "blocked"}
      /\ \A v \in Users : v # u => toLocal'[v] = toLocal[v]
      /\ u \notin npWriters => toLocal'[u] = toLocal[u] /\ npLoop' = "recv"
      /\ npLoop' = "blocked" => u \in npWriters /\ npMessage' = Head(s2c)
  BY DEF NpHandleMessage, Inv, Channels
<1>5. \A v \in Users : Up(v)'
  BY <1>2, QuietUp
<1>6. ASSUME NEW v \in Users, v # u
      PROVE  Down(v)'
  <2>1. AtNp(v)' = AtNp(v) /\ AtNp(v) = 0
    BY <1>3, <1>4, <1>6 DEF AtNp
  <2>2. serverRead[v] <= userSent[v]
    BY DEF Inv, Down, DownChunks
  <2>3. DownSame(v)
    BY <1>1, <1>2, <1>3, <1>4, <1>6, <2>1, <2>2 DEF DownSame
  <2> QED
    BY <2>3, DownFrame
<1>7. ntask[u] # "none"
  <2>1. ~NoChunk(s2c, u)
    BY <1>3 DEF NoChunk
  <2> QED
    BY <2>1 DEF Inv, Setup, Fresh, NpFirst
<1>8. Down(u)'
  <2>1. CASE u \notin npWriters
    <3>1. ntask[u] \in {"removing", "done"}
      BY <1>7, <2>1 DEF Inv, Setup, HasWriter, TypeOK, NpTypeOK
    <3>2. AtNp(u)' = AtNp(u) /\ AtNp(u) = 0
      BY <1>4, <2>1 DEF AtNp
    <3>3. serverRead[u] <= userSent[u]
      BY DEF Inv, Down, DownChunks
    <3>4. DownSame(u)
      BY <1>1, <1>2, <1>3, <1>4, <2>1, <3>1, <3>2, <3>3 DEF DownSame
    <3> QED
      BY <3>4, DownFrame
  <2>2. CASE u \in npWriters /\ npLoop' = "recv"
    <3>1. toLocal'[u] = Append(toLocal[u], Head(s2c).n) /\ AtNp(u)' = 0
      BY <2>2 DEF NpHandleMessage, AtNp, Inv, Channels
    <3> QED
      BY <1>1, <1>2, <1>3, <1>4, <3>1, DownTake
  <2>3. CASE npLoop' = "blocked"
    <3>1. toLocal'[u] = toLocal[u] /\ AtNp(u)' = 1
      BY <1>3, <1>4, <2>3 DEF NpHandleMessage, AtNp
    <3> QED
      BY <1>1, <1>2, <1>3, <1>4, <2>3, <3>1, DownTake
  <2> QED
    BY <1>4, <2>1, <2>2, <2>3
<1>9. Setup'
  <2>1. Listening' /\ Replies' /\ Blocked'
    BY <1>1, <1>2, <1>3, <1>4
       DEF Listening, Replies, Blocked, Inv, Setup, Passes, PassesConnect
  <2>2. \A v \in Users : ntask[v] = "none" => toLocal'[v] = toLocal[v]
    BY <1>4, <1>7
  <2>3. \A v \in Users : SetupSame(v)
    BY <1>1, <1>2, <1>3, <1>4, <2>2
       DEF SetupSame, Passes, PassesConnect, PassesChunks, NoChunk
  <2> QED
    BY <2>1, <2>3, SetupFrame
<1>10. TypeOK' /\ Channels'
  <2>1. Bounded(toLocal', Users, MaxUserData, NpCap)
    <3>1. Head(s2c).n \in 0 .. MaxUserData
      <4>1. Sent(Head(s2c).n, userSent[u], userClosed[u])
        BY <1>3 DEF Inv, Down, DownChunks
      <4>2. userSent[u] \in 0 .. MaxUserData
        BY DEF Inv, TypeOK, ServerTypeOK
      <4> QED
        BY <4>1, <4>2, WireAssumption DEF Sent
    <3>2. CASE UNCHANGED toLocal
      BY <3>2, ChannelTypes
    <3>3. CASE /\ Len(toLocal[u]) < NpCap
               /\ toLocal' = [toLocal EXCEPT ![u] = Append(@, Head(s2c).n)]
      BY <3>1, <3>3, ChannelTypes, PutFacts
    <3> QED
      BY <3>2, <3>3 DEF NpHandleMessage
  <2> QED
    BY <1>1, <1>2, <1>3, <1>4, <2>1
       DEF Inv, TypeOK, WireTypeOK, NpTypeOK, Channels, Bounded
<1> QED
  BY <1>1, <1>5, <1>6, <1>8, <1>9, <1>10 DEF Inv

\* A chunk that waited at np goes to its channel.
LEMMA NpDeliverStep == ASSUME Inv, NpDeliver, NpFrame
                       PROVE  Inv'
<1>1. /\ wsUp' = wsUp /\ ServerTypeOK' /\ WsHeld' /\ Ports'
      /\ UNCHANGED <<handler, delivering, listener, current, response, writers, toUser, stask,
                     outgoing, conn, userClosed, userGone, userSent, serverRead, userGot>>
  BY NpFrameFacts
<1>2. UNCHANGED <<s2c, c2s, npMessage, npOpen, npWriters, ntask, npOutgoing, npRead, localGot,
                  localClosed, localGone, localSent>>
  BY DEF NpDeliver, npTaskVars, localVars
<1>3. PICK u \in Users :
        /\ u = npMessage.user /\ u \in npWriters /\ ntask[u] # "none" /\ AtNp(u) = 1
        /\ npLoop = "blocked" /\ npLoop' = "recv"
        /\ \A v \in Users : AtNp(v)' = 0 /\ (v # u => AtNp(v) = 0)
  BY DEF NpDeliver, Inv, TypeOK, NpTypeOK, Setup, Blocked, NpFirst, AtNp
<1>4. /\ Len(toLocal[u]) < NpCap
      /\ toLocal' = [toLocal EXCEPT ![u] = Append(@, npMessage.n)]
      /\ toLocal'[u] = Append(toLocal[u], npMessage.n)
      /\ \A v \in Users : v # u => toLocal'[v] = toLocal[v]
  BY <1>3 DEF NpDeliver, Inv, Channels
<1>5. \A v \in Users : Up(v)'
  BY <1>2, QuietUp
<1>6. ASSUME NEW v \in Users, v # u
      PROVE  Down(v)'
  <2>1. serverRead[v] <= userSent[v]
    BY DEF Inv, Down, DownChunks
  <2>2. DownSame(v)
    BY <1>1, <1>2, <1>3, <1>4, <1>6, <2>1, PassSame DEF DownSame
  <2> QED
    BY <2>2, DownFrame
<1>7. Down(u)'
  BY <1>1, <1>2, <1>3, <1>4, DownPut
<1>8. Setup'
  <2>1. Listening' /\ Replies' /\ Blocked'
    BY <1>1, <1>2, <1>3 DEF Listening, Replies, Blocked, Inv, Setup
  <2>2. \A v \in Users : SetupSame(v)
    BY <1>1, <1>2, <1>3, <1>4 DEF SetupSame
  <2> QED
    BY <2>1, <2>2, SetupFrame
<1>9. TypeOK' /\ Channels'
  <2>1. npMessage.n \in 0 .. MaxUserData
    <3>1. Sent(npMessage.n, userSent[u], userClosed[u]) /\ userSent[u] \in 0 .. MaxUserData
      BY <1>3 DEF Inv, Down, DownChunks, TypeOK, ServerTypeOK
    <3> QED
      BY <3>1, WireAssumption DEF Sent
  <2>2. Bounded(toLocal', Users, MaxUserData, NpCap)
    BY <1>4, <2>1, ChannelTypes, PutFacts
  <2> QED
    BY <1>1, <1>2, <1>3, <2>2
       DEF Inv, TypeOK, WireTypeOK, NpTypeOK, Channels, Bounded
<1> QED
  BY <1>1, <1>5, <1>6, <1>7, <1>8, <1>9 DEF Inv

-----------------------------------------------------------------------------
(* The task of a connection at np                                          *)

\* It sets nothing up.
LEMMA NpTaskSetup ==
  ASSUME Inv, NpFrame, NEW u \in Users, ntask[u] # "none", ntask'[u] # "none",
         ntask'[u] \in {"run", "sending"} => ntask[u] \in {"run", "sending"} /\ npWriters' = npWriters,
         \A v \in Users : v # u =>
           /\ ntask'[v] = ntask[v] /\ npRead'[v] = npRead[v] /\ localGot'[v] = localGot[v]
           /\ toLocal'[v] = toLocal[v] /\ Passes(c2s, c2s', v)
           /\ v \in npWriters' <=> v \in npWriters,
         UNCHANGED <<npLoop, npMessage, s2c>>,
         npLoop = "blocked" => npWriters' = npWriters
  PROVE  Setup'
<1>1. UNCHANGED <<handler, delivering, listener, current, response, writers, toUser, stask,
                  conn, serverRead, userGot>>
  BY NpFrameFacts
<1>2. ASSUME NEW v \in Users
      PROVE  SetupSame(v)
  <2>1. CASE v = u
    BY <1>1, <2>1 DEF SetupSame
  <2>2. CASE v # u
    BY <1>1, <2>2 DEF SetupSame, Passes
  <2> QED
    BY <2>1, <2>2
<1>3. Blocked' /\ Replies' /\ Listening'
  BY <1>1 DEF Inv, Setup, Blocked, Replies, Listening
<1> QED
  BY <1>2, <1>3, SetupFrame

\* A step of np, or of the local service, that leaves what users send alone.
LEMMA QuietDownNp ==
  ASSUME Inv, NpFrame, NEW v \in Users, UNCHANGED <<s2c, npLoop, npMessage>>,
         localGot'[v] = localGot[v], localClosed[v] => localClosed'[v],
         localGone[v] => localGone'[v], localGone'[v] => localGone[v] \/ localClosed'[v],
         toLocal'[v] = toLocal[v] \/ (toLocal'[v] = <<>> /\ ntask'[v] = "done"),
         ntask'[v] \in {"none", "run", "sending"} => ntask[v] \in {"none", "run", "sending"},
         wsUp /\ ntask'[v] \in {"removing", "done"} /\ ~localClosed'[v] =>
           ntask[v] \in {"removing", "done"}
  PROVE  Down(v)'
<1>1. wsUp' = wsUp /\ UNCHANGED <<stask, outgoing, userClosed, userGone, userSent, serverRead>>
  BY NpFrameFacts
<1>2. serverRead[v] <= userSent[v] /\ AtNp(v)' = AtNp(v)
  BY DEF Inv, Down, DownChunks, AtNp
<1>3. DownSame(v)
  BY <1>1, <1>2, PassSame DEF DownSame
<1> QED
  BY <1>3, DownFrame

\* np's task reads the next chunk, or the end, of the local service.
LEMMA NpTaskReadStep == ASSUME Inv, NEW u \in Users, NpTaskRead(u), NpFrame
                        PROVE  Inv'
<1>1. /\ wsUp' = wsUp /\ ServerTypeOK' /\ WsHeld' /\ Ports'
      /\ UNCHANGED <<handler, delivering, listener, current, response, writers, toUser, stask,
                     outgoing, conn, userClosed, userGone, userSent, serverRead, userGot>>
      /\ \A v \in Users : AtServer(v)' = AtServer(v)
  BY NpFrameFacts
<1>2. UNCHANGED <<s2c, c2s, npLoop, npMessage, npOpen, npWriters, toLocal, localGot,
                  localClosed, localGone, localSent>>
  BY DEF NpTaskRead, npLoopVars, localVars
<1>3. /\ ntask[u] = "run" /\ ntask'[u] = "sending"
      /\ ntask' \in [Users -> {"none", "run", "sending", "removing", "done"}]
      /\ npRead[u] < localSent[u] \/ localClosed[u]
      /\ \A v \in Users : v # u => ntask'[v] = ntask[v]
  BY DEF NpTaskRead, Inv, TypeOK, NpTypeOK
<1>4. /\ npRead[u] \in Nat /\ localSent[u] \in 0 .. MaxLocalData /\ npRead[u] <= localSent[u]
      /\ localSent[u] \in Nat
  BY Counts DEF Inv, Up, UpChunks, TypeOK, NpTypeOK
<1>5. /\ npRead' \in [Users -> 0 .. MaxLocalData]
      /\ \A v \in Users : v # u => npRead'[v] = npRead[v]
      /\ npRead[u] < localSent[u] => npRead'[u] = npRead[u] + 1
      /\ ~(npRead[u] < localSent[u]) => npRead'[u] = localSent[u] /\ npRead[u] = localSent[u]
      /\ npRead'[u] <= localSent[u]
  BY <1>4, WireAssumption DEF NpTaskRead, Inv, TypeOK, NpTypeOK
<1>6. /\ npOutgoing' \in [Users -> ClientMessages]
      /\ \A v \in Users : v # u => npOutgoing'[v] = npOutgoing[v]
      /\ \/ /\ npRead[u] < localSent[u]
            /\ npOutgoing'[u] = Msg("receive", u, npRead'[u]) /\ npRead'[u] # 0
         \/ /\ npRead[u] = localSent[u] /\ npRead'[u] = localSent[u] /\ localClosed[u]
            /\ npOutgoing'[u] = Msg("close", u, 0)
  <2>1. npRead[u] < localSent[u] => Msg("receive", u, npRead[u] + 1) \in ClientMessages
    BY <1>4, MsgFacts, WireAssumption
  <2>2. Msg("close", u, 0) \in ClientMessages
    BY MsgFacts
  <2>3. npOutgoing \in [Users -> ClientMessages]
    BY DEF Inv, Channels
  <2>4. npOutgoing' = [npOutgoing EXCEPT ![u] = IF npRead[u] < localSent[u]
                                                THEN Msg("receive", u, npRead[u] + 1)
                                                ELSE Msg("close", u, 0)]
    BY DEF NpTaskRead
  <2>5. CASE npRead[u] < localSent[u]
    BY <1>4, <1>5, <2>1, <2>3, <2>4, <2>5
  <2>6. CASE ~(npRead[u] < localSent[u])
    BY <1>3, <1>5, <2>2, <2>3, <2>4, <2>6
  <2> QED
    BY <2>5, <2>6
<1>7. Setup'
  BY <1>2, <1>3, <1>5, PassSame, NpTaskSetup
<1>8. ASSUME NEW v \in Users
      PROVE  Down(v)'
  BY <1>2, <1>3, QuietDownNp
<1>9. ASSUME NEW v \in Users, v # u
      PROVE  Up(v)'
  BY <1>2, <1>3, <1>5, <1>6, <1>9, QuietUp
<1>10. Up(u)'
  <2>1. UpChunks(u) /\ UpChain(u) /\ UpDone(u)
    BY DEF Inv, Up
  <2>2. UpSent(u)' = UpSent(u) /\ UpBase(u)' = UpBase(u)
    BY <1>1, <1>2, <1>3, <1>4, <1>5, <1>6, MsgFacts DEF UpSent, UpBase, Ord
  <2>3. UpChunks(u)'
    BY <1>1, <1>2, <1>3, <1>5, <1>6, <2>1 DEF UpChunks
  <2>4. UpChain(u)'
    BY <1>1, <1>2, <1>3, <2>1, <2>2 DEF UpChain
  <2>5. UpDone(u)'
    BY <1>1, <1>2, <2>1 DEF UpDone
  <2> QED
    BY <2>3, <2>4, <2>5 DEF Up
<1>11. TypeOK' /\ Channels'
  BY <1>1, <1>2, <1>3, <1>5, <1>6 DEF Inv, TypeOK, WireTypeOK, NpTypeOK, Channels
<1> QED
  BY <1>1, <1>7, <1>8, <1>9, <1>10, <1>11 DEF Inv

\* np's task has removed its writer; its channel is dropped.
LEMMA NpTaskRemoveStep == ASSUME Inv, NEW u \in Users, NpTaskRemove(u), NpFrame
                          PROVE  Inv'
<1>1. /\ wsUp' = wsUp /\ ServerTypeOK' /\ WsHeld' /\ Ports'
      /\ UNCHANGED <<toUser, outgoing, userGot>>
  BY NpFrameFacts
<1>2. UNCHANGED <<s2c, c2s, npLoop, npMessage, npOpen, npOutgoing, npRead, localGot,
                  localClosed, localGone, localSent>>
  BY DEF NpTaskRemove, npLoopVars, localVars
<1>3. /\ ntask[u] = "removing" /\ ntask'[u] = "done" /\ npLoop # "blocked"
      /\ ntask' \in [Users -> {"none", "run", "sending", "removing", "done"}]
      /\ toLocal'[u] = <<>> /\ npWriters' = npWriters \ {u} /\ npWriters' \in SUBSET Users
      /\ \A v \in Users : v # u => ntask'[v] = ntask[v] /\ toLocal'[v] = toLocal[v]
  BY DEF NpTaskRemove, NpWritersLocked, Inv, TypeOK, NpTypeOK, Channels
<1>4. Setup'
  BY <1>2, <1>3, PassSame, NpTaskSetup
<1>5. ASSUME NEW v \in Users
      PROVE  Down(v)' /\ Up(v)'
  BY <1>2, <1>3, QuietDownNp, QuietUp
<1>6. Bounded(toLocal', Users, MaxUserData, NpCap)
  BY ChannelTypes, ClearFacts DEF NpTaskRemove
<1>7. TypeOK' /\ Channels'
  BY <1>1, <1>2, <1>3, <1>6 DEF Inv, TypeOK, WireTypeOK, NpTypeOK, Channels, Bounded
<1> QED
  BY <1>1, <1>4, <1>5, <1>7 DEF Inv

\* The local service closes, or sends no more: NoTruncation owes it nothing
\* any more.
LEMMA LocalCloseStep ==
  ASSUME Inv, NEW u \in Users, LocalShutdown(u) \/ LocalClose(u), NpFrame
  PROVE  Inv'
<1>1. /\ wsUp' = wsUp /\ ServerTypeOK' /\ WsHeld' /\ Ports'
      /\ UNCHANGED <<toUser, outgoing, userGot>>
  BY NpFrameFacts
<1>2. UNCHANGED <<s2c, c2s, npLoop, npMessage, npOpen, npWriters, toLocal, ntask, npOutgoing,
                  npRead, localGot, localSent>>
  BY DEF LocalShutdown, LocalClose, npLoopVars, npTaskVars
<1>3. /\ ntask[u] # "none"
      /\ localClosed' \in [Users -> BOOLEAN] /\ localGone' \in [Users -> BOOLEAN]
      /\ \A v \in Users : localClosed[v] => localClosed'[v]
      /\ \A v \in Users : /\ localGone[v] => localGone'[v]
                          /\ localGone'[v] => localGone[v] \/ localClosed'[v]
  BY DEF LocalShutdown, LocalClose, Inv, TypeOK, NpTypeOK
<1>4. Setup'
  BY <1>2, <1>3, PassSame, NpTaskSetup
<1>5. ASSUME NEW v \in Users
      PROVE  Down(v)' /\ Up(v)'
  BY <1>2, <1>3, QuietDownNp, QuietUp
<1>6. TypeOK' /\ Channels'
  BY <1>1, <1>2, <1>3 DEF Inv, TypeOK, WireTypeOK, NpTypeOK, Channels
<1> QED
  BY <1>1, <1>4, <1>5, <1>6 DEF Inv

\* The local service sends one more chunk: nothing on the way is its close.
LEMMA LocalSendStep == ASSUME Inv, NEW u \in Users, LocalSend(u), NpFrame
                       PROVE  Inv'
<1>1. /\ wsUp' = wsUp /\ ServerTypeOK' /\ WsHeld' /\ Ports'
      /\ UNCHANGED <<handler, delivering, toUser, stask, outgoing, userClosed, userGone, userGot>>
      /\ \A v \in Users : AtServer(v)' = AtServer(v)
  BY NpFrameFacts
<1>2. UNCHANGED <<s2c, c2s, npLoop, npMessage, npOpen, npWriters, toLocal, ntask, npOutgoing,
                  npRead, localGot, localClosed, localGone>>
  BY DEF LocalSend, npLoopVars, npTaskVars
<1>3. /\ ntask[u] # "none" /\ ~localClosed[u]
      /\ localSent[u] \in Nat /\ localSent'[u] = localSent[u] + 1
      /\ localSent' \in [Users -> 0 .. MaxLocalData]
      /\ \A v \in Users : v # u => localSent'[v] = localSent[v]
  BY WireAssumption DEF LocalSend, Inv, TypeOK, NpTypeOK
<1>4. Setup'
  BY <1>2, <1>3, PassSame, NpTaskSetup
<1>5. ASSUME NEW v \in Users
      PROVE  Down(v)'
  BY <1>2, QuietDownNp
<1>6. ASSUME NEW v \in Users, v # u
      PROVE  Up(v)'
  <2>1. UpSame(v)
    BY <1>1, <1>2, <1>3, <1>6, PassSame DEF UpSame
  <2> QED
    BY <2>1, UpFrame
<1>7. Up(u)'
  <2>1. UpChunks(u) /\ UpChain(u) /\ UpDone(u)
    BY DEF Inv, Up
  <2>2. npRead[u] \in Nat /\ Len(userGot[u]) \in Nat
    BY Counts
  <2>3. \A n : Sent(n, localSent[u], localClosed[u]) =>
          Sent(n, localSent'[u], localClosed[u]) /\ n # 0
    BY <1>3 DEF Sent
  <2>4. UpChunks(u)'
    <3>1. npRead[u] <= localSent'[u]
      BY <1>3, <2>1, <2>2 DEF UpChunks
    <3>2. Len(userGot[u]) <= localSent'[u]
      <4>1. PICK l \in Nat : l = Len(userGot[u])
        BY <2>2
      <4> QED
        BY <1>3, <2>1, <4>1 DEF UpChunks
    <3> QED
      BY <1>1, <1>2, <1>3, <2>1, <2>3, <3>1, <3>2 DEF UpChunks
  <2>5. UpBase(u)' = UpBase(u) /\ UpSent(u)' = UpSent(u)
    BY <1>1, <1>2, <1>3, <2>1, MsgFacts DEF UpBase, UpSent, Ord, UpChunks
  <2>6. UpChain(u)'
    <3>1. \A i \in 1 .. Len(c2s) : IsChunk(c2s[i], u) => c2s[i].n # 0
      BY <2>1, <2>3 DEF UpChunks
    <3>2. AtServer(u) = 1 => Ord(localSent'[u], delivering.n) = Ord(localSent[u], delivering.n)
      BY <2>1, <2>3 DEF UpChunks, Ord
    <3>3. Queued(toUser[u], userGot[u], localSent[u]) =>
            Queued(toUser[u], userGot[u], localSent'[u])
      BY <2>1, <2>3 DEF UpChunks, Queued, Ord
    <3>4. /\ Chained(c2s, u, UpBase(u), localSent[u]) =>
               Chained(c2s, u, UpBase(u), localSent'[u])
          /\ Filled(c2s, u, UpBase(u), localSent[u], UpSent(u)) =>
               Filled(c2s, u, UpBase(u), localSent'[u], UpSent(u))
      BY <3>1, Renumber
    <3> QED
      BY <1>1, <1>2, <2>1, <2>5, <3>2, <3>3, <3>4 DEF UpChain
  <2>7. UpDone(u)'
    BY <1>1, <1>2, <1>3, <2>1 DEF UpDone
  <2> QED
    BY <2>4, <2>6, <2>7 DEF Up
<1>8. TypeOK' /\ Channels'
  BY <1>1, <1>2, <1>3 DEF Inv, TypeOK, WireTypeOK, NpTypeOK, Channels
<1> QED
  BY <1>1, <1>4, <1>5, <1>6, <1>7, <1>8 DEF Inv

\* The task takes a chunk from its channel and writes it, or breaks.
LEMMA DownGet ==
  ASSUME Inv, NEW u \in Users, ntask[u] = "run", toLocal[u] # <<>>,
         toLocal'[u] = Tail(toLocal[u]), wsUp' = wsUp, AtNp(u)' = AtNp(u),
         \/ /\ Head(toLocal[u]) # 0 /\ ntask'[u] = "run"
            /\ localGot'[u] = IF localGone[u] THEN localGot[u]
                              ELSE Append(localGot[u], Head(toLocal[u]))
         \/ /\ Head(toLocal[u]) = 0 \/ localGone[u]
            /\ ntask'[u] \in {"removing", "done"} /\ localGot'[u] = localGot[u],
         UNCHANGED <<s2c, npMessage, userClosed, userGone, userSent, serverRead, stask, outgoing,
                     localClosed, localGone>>
  PROVE  Down(u)'
<1> DEFINE n == Head(toLocal[u])
<1>1. DownChunks(u) /\ DownChain(u) /\ DownDone(u)
  BY DEF Inv, Down
<1>2. /\ userSent[u] \in Nat /\ toLocal[u] \in Seq(Nat) /\ localGot[u] \in Seq(Nat)
      /\ Len(localGot[u]) \in Nat /\ AtNp(u) \in {0, 1}
  BY Counts
<1>3. /\ n = toLocal[u][1] /\ 1 \in 1 .. Len(toLocal[u]) /\ n \in Nat
      /\ \A i \in 1 .. Len(toLocal'[u]) :
           i + 1 \in 1 .. Len(toLocal[u]) /\ toLocal'[u][i] = toLocal[u][i + 1]
  <2>1. n = toLocal[u][1] /\ Len(toLocal[u]) \in Nat \ {0} /\ n \in Nat
    BY <1>2, TailFacts
  <2> QED
    BY <1>2, <2>1, TailFacts
<1>4. Sent(n, userSent[u], userClosed[u])
  BY <1>1, <1>3 DEF DownChunks
<1>5. \A i \in 1 .. Len(toLocal'[u]) : Sent(toLocal'[u][i], userSent[u], userClosed[u])
  BY <1>1, <1>3 DEF DownChunks
<1>6. ~localGone[u] => /\ Ord(userSent[u], n) = Len(localGot[u]) + 1
                         /\ Queued(Tail(toLocal[u]), Append(localGot[u], n), userSent[u])
  BY <1>1, <1>2, <1>3, QueueTake DEF DownChain
<1>7. CASE localGot'[u] = localGot[u] /\ (localGone[u] \/ ntask'[u] \in {"removing", "done"})
  <2>1. DownChunks(u)'
    BY <1>1, <1>5, <1>7 DEF DownChunks
  <2>2. DownChain(u)'
    BY <1>7 DEF DownChain
  <2>3. ~localClosed[u] => userClosed[u] /\ Len(localGot[u]) = userSent[u]
    <3> SUFFICES ASSUME ~localClosed[u]
                 PROVE  userClosed[u] /\ Len(localGot[u]) = userSent[u]
      OBVIOUS
    <3>1. ~localGone[u] /\ n = 0
      BY <1>1, <1>7 DEF DownChunks
    <3>2. userSent[u] + 1 = Len(localGot[u]) + 1
      BY <1>6, <3>1 DEF Ord
    <3>3. PICK l \in Nat : l = Len(localGot[u])
      BY <1>2
    <3>4. l = userSent[u]
      BY <1>2, <3>2, <3>3
    <3> QED
      BY <1>4, <3>1, <3>3, <3>4 DEF Sent
  <2>4. DownDone(u)'
    BY <1>7, <2>3 DEF DownDone
  <2> QED
    BY <2>1, <2>2, <2>4 DEF Down
<1>8. CASE /\ ~localGone[u] /\ ntask'[u] = "run" /\ n # 0
           /\ localGot'[u] = Append(localGot[u], n)
  <2>1. PICK l \in Nat : l = Len(localGot[u])
    BY <1>2
  <2>2. n = l + 1 /\ l + 1 <= userSent[u]
    BY <1>2, <1>4, <1>6, <1>8, <2>1 DEF Ord, Sent
  <2>3. /\ Len(localGot'[u]) = l + 1
        /\ \A i \in 1 .. l : localGot'[u][i] = localGot[u][i]
        /\ localGot'[u][l + 1] = n
        /\ \A i \in 1 .. Len(localGot'[u]) : i \in 1 .. l \/ i = l + 1
    BY <1>2, <1>3, <1>8, <2>1, AppendFacts
  <2>4. DownChunks(u)'
    <3>1. IsRun(localGot'[u])
      BY <1>1, <2>1, <2>2, <2>3 DEF DownChunks, IsRun
    <3>2. Len(localGot'[u]) <= userSent[u]
      BY <2>2, <2>3
    <3> QED
      BY <1>1, <1>5, <3>1, <3>2 DEF DownChunks
  <2>5. DownBase(u)' = DownBase(u) /\ DownSent(u)' = DownSent(u)
    <3>1. \A k \in {0, 1} : Base(Append(localGot[u], n), Tail(toLocal[u]), k)
                              = Base(localGot[u], toLocal[u], k)
      BY <1>2, <1>3, BaseTake
    <3> QED
      BY <1>2, <1>8, <3>1 DEF DownBase, DownSent
  <2>6. DownChain(u)'
    BY <1>1, <1>6, <1>8, <2>5 DEF DownChain
  <2>7. DownDone(u)'
    BY <1>8 DEF DownDone
  <2> QED
    BY <2>4, <2>6, <2>7 DEF Down
<1> QED
  BY <1>7, <1>8

\* np's task writes a chunk to the local service, or ends on the close: all
\* before it has arrived.
LEMMA NpTaskRecvStep == ASSUME Inv, NEW u \in Users, NpTaskRecv(u), NpFrame
                        PROVE  Inv'
<1>1. /\ wsUp' = wsUp /\ ServerTypeOK' /\ WsHeld' /\ Ports'
      /\ UNCHANGED <<toUser, stask, outgoing, userClosed, userGone, userSent, serverRead,
                     userGot>>
  BY NpFrameFacts
<1>2. /\ UNCHANGED <<s2c, c2s, npLoop, npMessage, npOpen, npWriters, npOutgoing, npRead,
                     localClosed, localGone, localSent>>
      /\ \A v \in Users : AtNp(v)' = AtNp(v)
  BY DEF NpTaskRecv, npLoopVars, localVars, AtNp
<1>3. /\ ntask[u] = "run" /\ toLocal[u] # <<>> /\ toLocal'[u] = Tail(toLocal[u])
      /\ \A v \in Users : v # u => toLocal'[v] = toLocal[v]
  BY DEF NpTaskRecv, Inv, Channels
<1>4. /\ \/ /\ Head(toLocal[u]) # 0 /\ ntask'[u] = "run"
            /\ localGot'[u] = IF localGone[u] THEN localGot[u]
                              ELSE Append(localGot[u], Head(toLocal[u]))
         \/ /\ Head(toLocal[u]) = 0 \/ localGone[u]
            /\ ntask'[u] \in {"removing", "done"} /\ localGot'[u] = localGot[u]
      /\ ntask' \in [Users -> {"none", "run", "sending", "removing", "done"}]
      /\ \A v \in Users : v # u => ntask'[v] = ntask[v] /\ localGot'[v] = localGot[v]
  <2>1. CASE /\ Head(toLocal[u]) # 0
             /\ localGot' = [localGot EXCEPT ![u] =
                               IF localGone[u] THEN @ ELSE Append(@, Head(toLocal[u]))]
             /\ UNCHANGED ntask
    BY <1>3, <2>1 DEF Inv, TypeOK, NpTypeOK, Channels
  <2>2. CASE /\ Head(toLocal[u]) = 0 \/ localGone[u]
             /\ ntask' = [ntask EXCEPT ![u] = "removing"]
             /\ UNCHANGED localGot
    BY <2>2 DEF Inv, TypeOK, NpTypeOK
  <2> QED
    BY <2>1, <2>2 DEF NpTaskRecv
<1>5. Setup'
  BY <1>2, <1>3, <1>4, PassSame, NpTaskSetup
<1>6. \A v \in Users : Up(v)'
  BY <1>2, <1>3, <1>4, QuietUp
<1>7. ASSUME NEW v \in Users, v # u
      PROVE  Down(v)'
  BY <1>2, <1>3, <1>4, <1>7, QuietDownNp
<1>8. Down(u)'
  BY <1>1, <1>2, <1>3, <1>4, DownGet
<1>9. TypeOK' /\ Channels'
  <2>1. Bounded(toLocal', Users, MaxUserData, NpCap)
    BY <1>3, ChannelTypes, TakeFacts DEF NpTaskRecv
  <2>2. /\ localGot' \in [Users -> Seq(Nat)]
        /\ \A v \in Users : localGot'[v] \in Seq(1 .. MaxUserData)
    <3>1. CASE UNCHANGED localGot
      BY <3>1 DEF Inv, TypeOK, NpTypeOK, Channels
    <3>2. CASE /\ Head(toLocal[u]) # 0
               /\ localGot' = [localGot EXCEPT ![u] = Append(@, Head(toLocal[u]))]
      <4>1. Head(toLocal[u]) \in 1 .. MaxUserData /\ Head(toLocal[u]) \in Nat
        <5>1. toLocal[u] \in Seq(0 .. MaxUserData)
          BY DEF Inv, TypeOK, NpTypeOK
        <5>2. Head(toLocal[u]) \in 0 .. MaxUserData
          <6>1. toLocal[u] # <<>>
            BY <1>3
          <6> QED
            BY <5>1, <6>1, HeadIn, Zenon
        <5>3. Head(toLocal[u]) # 0
          BY <3>2
        <5> QED
          BY <5>2, <5>3, WireAssumption
      <4>2. localGot[u] \in Seq(1 .. MaxUserData) /\ localGot[u] \in Seq(Nat)
        BY DEF Inv, TypeOK, NpTypeOK, Channels
      <4>3. /\ Append(localGot[u], Head(toLocal[u])) \in Seq(1 .. MaxUserData)
            /\ Append(localGot[u], Head(toLocal[u])) \in Seq(Nat)
        BY <4>1, <4>2, AppendFacts
      <4> QED
        BY <3>2, <4>3 DEF Inv, TypeOK, NpTypeOK, Channels
    <3> QED
      <4>1. CASE localGone[u]
        <5>1. UNCHANGED localGot
          BY <4>1 DEF NpTaskRecv, Inv, Channels
        <5> QED
          BY <3>1, <5>1
      <4>2. CASE ~localGone[u]
        BY <3>1, <3>2, <4>2 DEF NpTaskRecv
      <4> QED
        BY <4>1, <4>2
  <2> QED
    BY <1>1, <1>2, <1>4, <2>1, <2>2
       DEF Inv, TypeOK, WireTypeOK, NpTypeOK, Channels, Bounded
<1> QED
  BY <1>1, <1>5, <1>6, <1>7, <1>8, <1>9 DEF Inv

\* The task sends what it has read.
LEMMA UpSend ==
  ASSUME Inv, NEW u \in Users, ntask[u] = "sending", wsUp' = wsUp, AtServer(u)' = AtServer(u),
         \/ /\ SendToServer(npOutgoing[u])
            /\ \/ npOutgoing[u].kind = "receive" /\ ntask'[u] = "run"
               \/ ntask'[u] = "removing"
         \/ SendFails /\ UNCHANGED c2s /\ ntask'[u] = "removing",
         UNCHANGED <<handler, delivering, toUser, userGot, stask, userClosed, userGone,
                     npOutgoing, npRead, localSent, localClosed, localGone>>
  PROVE  Up(u)'
<1> DEFINE m == npOutgoing[u]
<1>1. UpChunks(u) /\ UpChain(u) /\ UpDone(u)
  BY DEF Inv, Up
<1>2. localSent[u] \in Nat /\ npRead[u] \in Nat /\ UpBase(u) \in Nat
  BY Counts
<1>3. /\ m \in ClientMessages /\ IsChunk(m, u) /\ m.n \in Nat
      /\ Sent(m.n, localSent[u], localClosed[u])
      /\ m.kind = "receive" => m.n = npRead[u] /\ m.n # 0
  BY <1>1, <1>2, MsgFacts DEF UpChunks, IsChunk, Sent, Inv, Channels
<1>4. UpSent(u) \in Nat /\ Ord(localSent[u], m.n) = UpSent(u) + 1
  BY <1>2, <1>3 DEF UpSent, Ord
<1>5. c2s \in Seq(ClientMessages)
  BY DEF Inv, TypeOK, WireTypeOK
<1>6. UpChunks(u)'
  <2>1. \A i \in 1 .. Len(c2s') : IsChunk(c2s'[i], u) => Sent(c2s'[i].n, localSent[u], localClosed[u])
    <3>1. CASE SendToServer(m)
      <4> DEFINE q == c2s
                 r == c2s'
      <4>1. /\ \A i \in 1 .. Len(q) : r[i] = q[i]
            /\ r[Len(q) + 1] = m
            /\ \A i \in 1 .. Len(r) : i \in 1 .. Len(q) \/ i = Len(q) + 1
        BY <1>3, <1>5, <3>1, AppendFacts DEF SendToServer
      <4> QED
        BY <1>1, <1>3, <4>1 DEF UpChunks
    <3>2. CASE UNCHANGED c2s
      BY <1>1, <3>2 DEF UpChunks
    <3> QED
      BY <3>1, <3>2
  <2> QED
    BY <1>1, <2>1 DEF UpChunks
<1>7. UpBase(u)' = UpBase(u)
  BY DEF UpBase
<1>8. UpChain(u)'
  <2> SUFFICES ASSUME ~userGone[u], stask[u] \in {"none", "run", "sending"},
                      handler \notin {"closing", "gone"}
               PROVE  /\ Chained(c2s', u, UpBase(u), localSent[u])
                      /\ wsUp /\ ntask'[u] \in {"none", "run", "sending"} =>
                           Filled(c2s', u, UpBase(u), localSent[u], UpSent(u)')
    BY <1>1, <1>7 DEF UpChain
  <2>1. /\ Chained(c2s, u, UpBase(u), localSent[u])
        /\ wsUp => Filled(c2s, u, UpBase(u), localSent[u], UpSent(u))
    BY <1>1 DEF UpChain
  <2>2. CASE SendToServer(m)
    <3>1. /\ Chained(c2s', u, UpBase(u), localSent[u])
          /\ Filled(c2s', u, UpBase(u), localSent[u], UpSent(u) + 1)
      BY <1>2, <1>3, <1>4, <1>5, <2>1, <2>2, NumberedBoth, SendOwn DEF SendToServer
    <3>2. ntask'[u] \in {"none", "run", "sending"} => UpSent(u)' = UpSent(u) + 1
      BY <1>2, <1>3, <1>4 DEF UpSent, Ord
    <3> QED
      BY <3>1, <3>2
  <2>3. CASE SendFails /\ UNCHANGED c2s
    BY <2>1, <2>3 DEF SendFails
  <2> QED
    BY <2>2, <2>3
<1>9. UpDone(u)'
  BY <1>1 DEF UpDone
<1> QED
  BY <1>6, <1>8, <1>9 DEF Up

\* The chunk np read goes to the server, after all the chunks before it.
LEMMA NpTaskSendStep == ASSUME Inv, NEW u \in Users, NpTaskSend(u), NpFrame
                        PROVE  Inv'
<1>1. /\ wsUp' = wsUp /\ ServerTypeOK' /\ WsHeld' /\ Ports'
      /\ UNCHANGED <<handler, delivering, toUser, stask, outgoing, userClosed, userGone, userGot>>
      /\ \A v \in Users : AtServer(v)' = AtServer(v)
  BY NpFrameFacts
<1>2. UNCHANGED <<s2c, npLoop, npMessage, npOpen, npWriters, toLocal, npOutgoing, npRead,
                  localGot, localClosed, localGone, localSent>>
  BY DEF NpTaskSend, npLoopVars, localVars
<1>3. PICK m \in ClientMessages :
        /\ m = npOutgoing[u] /\ m.user = u /\ m.kind \in {"receive", "close"}
        /\ m.kind = "close" => localClosed[u]
        /\ \A v \in Users : v # u => ~IsChunk(m, v)
        /\ ntask[u] = "sending"
  BY MsgFacts DEF NpTaskSend, Inv, Channels, Up, UpChunks, IsChunk
<1>4. /\ \/ /\ SendToServer(m)
            /\ \/ m.kind = "receive" /\ ntask'[u] = "run"
               \/ ntask'[u] = "removing" /\ localClosed[u]
         \/ SendFails /\ UNCHANGED c2s /\ ntask'[u] = "removing" /\ ~wsUp
      /\ ntask' \in [Users -> {"none", "run", "sending", "removing", "done"}]
      /\ \A v \in Users : v # u => ntask'[v] = ntask[v]
  BY <1>3 DEF NpTaskSend, SendFails, Inv, TypeOK, NpTypeOK
<1>5. /\ c2s' \in Seq(ClientMessages) /\ Len(c2s') <= WsCap
      /\ \A v \in Users : v # u => /\ Passes(c2s, c2s', v) /\ PassesChunks(c2s, c2s', v)
                                   /\ PassesChain(c2s, c2s', v) /\ Keeps(c2s, c2s', v)
  BY <1>3, <1>4, SendToServerFacts
<1>6. Setup'
  BY <1>2, <1>3, <1>4, <1>5, NpTaskSetup
<1>7. ASSUME NEW v \in Users
      PROVE  Down(v)'
  BY <1>2, <1>3, <1>4, QuietDownNp
<1>8. ASSUME NEW v \in Users, v # u
      PROVE  Up(v)'
  <2>1. UpSame(v)
    BY <1>1, <1>2, <1>4, <1>5, <1>8 DEF UpSame
  <2> QED
    BY <2>1, UpFrame
<1>9. Up(u)'
  BY <1>1, <1>2, <1>3, <1>4, UpSend
<1>10. TypeOK' /\ Channels'
  BY <1>1, <1>2, <1>4, <1>5 DEF Inv, TypeOK, WireTypeOK, NpTypeOK, Channels
<1> QED
  BY <1>1, <1>6, <1>7, <1>8, <1>9, <1>10 DEF Inv

-----------------------------------------------------------------------------
(* The invariant                                                           *)

\* The websocket breaks: what is left is in order, and nothing is promised of
\* what is lost.
LEMMA WsDropStep == ASSUME Inv, WsDrop
                    PROVE  Inv'
<1>1. /\ UNCHANGED <<handler, delivering, listener, current, tcpPorts, requests, response,
                     writers, toUser, stask, outgoing, conn, userClosed, userGone, userSent,
                     serverRead, userGot>>
      /\ UNCHANGED <<npLoop, npMessage, npOpen, npWriters, toLocal, ntask, npOutgoing,
                     localClosed, localGone, localSent, npRead, localGot>>
      /\ wsUp' = FALSE
  BY DEF WsDrop, serverVars, npVars
<1>2. PICK i \in 0 .. Len(s2c), j \in 0 .. Len(c2s) :
        s2c' = SubSeq(s2c, 1, i) /\ c2s' = SubSeq(c2s, 1, j)
  BY DEF WsDrop
<1>3. /\ s2c \in Seq(ServerMessages) /\ c2s \in Seq(ClientMessages)
      /\ Len(s2c) <= WsCap /\ Len(c2s) <= WsCap
  BY DEF Inv, TypeOK, WireTypeOK
<1>4. /\ s2c' \in Seq(ServerMessages) /\ Len(s2c') <= WsCap
      /\ c2s' \in Seq(ClientMessages) /\ Len(c2s') <= WsCap
  <2>1. /\ s2c' \in Seq(ServerMessages) /\ Len(s2c') = i
        /\ i \in Nat /\ i <= Len(s2c) /\ Len(s2c) \in Nat
    BY <1>2, <1>3, PrefixFacts
  <2>2. /\ c2s' \in Seq(ClientMessages) /\ Len(c2s') = j
        /\ j \in Nat /\ j <= Len(c2s) /\ Len(c2s) \in Nat
    BY <1>2, <1>3, PrefixFacts
  <2> QED
    BY <1>3, <2>1, <2>2, WireAssumption
<1>5. \A v \in Users :
        /\ Passes(s2c, s2c', v) /\ PassesChunks(s2c, s2c', v) /\ PassesChain(s2c, s2c', v)
        /\ Passes(c2s, c2s', v) /\ PassesChunks(c2s, c2s', v) /\ PassesChain(c2s, c2s', v)
  BY <1>2, <1>3, PassCut
<1>6. ASSUME NEW v \in Users
      PROVE  Down(v)' /\ Up(v)'
  <2>1. AtNp(v)' = AtNp(v) /\ AtServer(v)' = AtServer(v)
    BY <1>1 DEF AtNp, AtServer
  <2>2. serverRead[v] <= userSent[v]
    BY DEF Inv, Down, DownChunks
  <2>3. DownSame(v)
    BY <1>1, <1>5, <2>1, <2>2 DEF DownSame
  <2>4. UpSame(v)
    BY <1>1, <1>5, <2>1 DEF UpSame
  <2> QED
    BY <2>3, <2>4, DownFrame, UpFrame
<1>7. Setup'
  <2>1. Listening' /\ Replies' /\ Blocked'
    BY <1>1, <1>5 DEF Listening, Replies, Blocked, Inv, Setup, Passes, PassesConnect
  <2>2. \A v \in Users : SetupSame(v)
    BY <1>1, <1>5 DEF SetupSame, Passes, PassesConnect, PassesChunks, NoChunk
  <2> QED
    BY <2>1, <2>2, SetupFrame
<1>8. WsHeld' /\ Ports'
  BY <1>1 DEF Inv, WsHeld, Ports
<1>9. TypeOK' /\ Channels'
  <2>1. WireTypeOK'
    BY <1>1, <1>4 DEF WireTypeOK
  <2>2. ServerTypeOK'
    BY <1>1 DEF Inv, TypeOK, ServerTypeOK
  <2>3. NpTypeOK'
    BY <1>1 DEF Inv, TypeOK, NpTypeOK
  <2>4. Channels'
    BY <1>1 DEF Inv, Channels
  <2> QED
    BY <2>1, <2>2, <2>3, <2>4 DEF TypeOK
<1> QED
  BY <1>6, <1>7, <1>8, <1>9 DEF Inv

\* A step of nobody.
LEMMA StutterStep == ASSUME Inv, UNCHANGED vars
                     PROVE  Inv'
<1>1. NpFrame /\ UNCHANGED <<s2c, c2s, wsUp, npVars>>
  BY DEF vars, NpFrame
<1>2. UNCHANGED <<npLoop, npMessage, npOpen, npWriters, toLocal, ntask, npOutgoing,
                  localClosed, localGone, localSent, npRead, localGot>>
  BY <1>1 DEF npVars
<1>3. /\ ServerTypeOK' /\ WsHeld' /\ Ports'
      /\ UNCHANGED <<handler, delivering, listener, current, response, writers, toUser, stask,
                     outgoing, conn, serverRead, userGot>>
  BY <1>1, NpFrameFacts
<1>4. \A v \in Users : (Down(v) /\ Up(v))'
  BY <1>1, <1>2, QuietDownNp, QuietUp
<1>5. Setup'
  <2>1. Listening' /\ Replies' /\ Blocked'
    BY <1>1, <1>2, <1>3 DEF Listening, Replies, Blocked, Inv, Setup
  <2>2. \A v \in Users : SetupSame(v)
    BY <1>1, <1>2, <1>3 DEF SetupSame
  <2> QED
    BY <2>1, <2>2, SetupFrame
<1>6. TypeOK' /\ Channels'
  BY <1>1, <1>2, <1>3 DEF Inv, TypeOK, WireTypeOK, NpTypeOK, Channels
<1> QED
  BY <1>3, <1>4, <1>5, <1>6 DEF Inv

\* The port is not open, and nothing has been sent.
LEMMA InitInv == ASSUME Init
                 PROVE  Inv
<1>1. WireInit /\ ServerInit /\ NpInit
  BY DEF Init
<1>2. TypeOK /\ Channels
  <2>1. WireTypeOK
    BY <1>1, WireAssumption DEF WireInit, WireTypeOK
  <2>2. \A u \in Users : /\ toUser[u] = <<>> /\ userGot[u] = <<>>
                         /\ toLocal[u] = <<>> /\ localGot[u] = <<>>
    BY <1>1 DEF ServerInit, NpInit
  <2>3. ServerTypeOK
    <3>1. \A u \in Users : /\ toUser[u] \in Seq(0 .. MaxLocalData)
                           /\ userGot[u] \in Seq(1 .. MaxLocalData)
                           /\ Len(toUser[u]) <= ServerCap
      <4>1. Len(<<>>) <= ServerCap
        BY ServerAssumption
      <4>2. <<>> \in Seq(0 .. MaxLocalData) /\ <<>> \in Seq(1 .. MaxLocalData)
        OBVIOUS
      <4> QED
        BY <2>2, <4>1, <4>2, Zenon
    <3> QED
      BY <1>1, <3>1, WireAssumption DEF ServerInit, ServerTypeOK
  <2>4. NpTypeOK
    <3>1. \A u \in Users : /\ toLocal[u] \in Seq(0 .. MaxUserData)
                           /\ localGot[u] \in Seq(1 .. MaxUserData)
                           /\ Len(toLocal[u]) <= NpCap
      <4>1. Len(<<>>) <= NpCap
        BY NpAssumption
      <4>2. <<>> \in Seq(0 .. MaxUserData) /\ <<>> \in Seq(1 .. MaxUserData)
        OBVIOUS
      <4> QED
        BY <2>2, <4>1, <4>2, Zenon
    <3>2. /\ localClosed \in [Users -> BOOLEAN]
          /\ localGone \in [Users -> BOOLEAN]
          /\ localSent \in [Users -> 0 .. MaxLocalData]
          /\ npRead \in [Users -> 0 .. MaxLocalData]
          /\ ntask \in [Users -> {"none", "run", "sending", "removing", "done"}]
      BY <1>1, WireAssumption DEF NpInit
    <3> QED
      BY <1>1, <3>1, <3>2 DEF NpInit, NpTypeOK
  <2>5. /\ toUser \in [Users -> Seq(Nat)] /\ userGot \in [Users -> Seq(Nat)]
        /\ toLocal \in [Users -> Seq(Nat)] /\ localGot \in [Users -> Seq(Nat)]
    BY <1>1 DEF ServerInit, NpInit
  <2>6. outgoing \in [Users -> ServerMessages] /\ npOutgoing \in [Users -> ClientMessages]
    BY <1>1, MsgFacts DEF ServerInit, NpInit
  <2> QED
    BY <2>1, <2>3, <2>4, <2>5, <2>6 DEF TypeOK, Channels
<1>3. WsHeld /\ Ports
  BY <1>1 DEF WireInit, ServerInit, WsHeld, ClientAlive, HeldWithout, Ports
<1>4. Setup
  BY <1>1 DEF WireInit, ServerInit, NpInit, Setup, Listening, Blocked, Replies, Once, NpFirst,
              Fresh, HasWriter, NoConnect, Single, NoChunk, OnlyRefused
<1>5. ASSUME NEW u \in Users
      PROVE  Down(u) /\ Up(u)
  <2>1. /\ userSent[u] = 0 /\ serverRead[u] = 0 /\ localSent[u] = 0 /\ npRead[u] = 0
        /\ localGot[u] = <<>> /\ toLocal[u] = <<>> /\ userGot[u] = <<>> /\ toUser[u] = <<>>
        /\ stask[u] = "none" /\ ntask[u] = "none" /\ s2c = <<>> /\ c2s = <<>>
        /\ AtNp(u) = 0 /\ AtServer(u) = 0 /\ ~userGone[u] /\ ~localGone[u]
    BY <1>1 DEF WireInit, ServerInit, NpInit, AtNp, AtServer
  <2>2. DownBase(u) = 0 /\ DownSent(u) = 0 /\ UpBase(u) = 0 /\ UpSent(u) = 0
    BY <2>1 DEF DownBase, DownSent, UpBase, UpSent, Base
  <2>3. DownChunks(u) /\ UpChunks(u)
    BY <2>1 DEF DownChunks, UpChunks, IsRun
  <2>4. DownChain(u) /\ UpChain(u)
    BY <2>1, <2>2 DEF DownChain, UpChain, Queued, Chained, Filled
  <2>5. DownDone(u) /\ UpDone(u)
    BY <2>1 DEF DownDone, UpDone
  <2> QED
    BY <2>3, <2>4, <2>5 DEF Down, Up
<1> QED
  BY <1>2, <1>3, <1>4, <1>5 DEF Inv

\* Every step, of every task and of the environment, keeps the invariant.
LEMMA NextInv == ASSUME Inv, [Next]_vars
                 PROVE  Inv'
<1>1. CASE OpenPort /\ ServerFrame
  BY <1>1, OpenPortStep
<1>2. CASE OpenReply /\ ServerFrame
  BY <1>2, OpenReplyStep
<1>3. CASE Deliver /\ ServerFrame
  BY <1>3, DeliverStep
<1>4. CASE RecvFails /\ ServerFrame
  BY <1>4, RecvFailsStep
<1>5. CASE HandlerEnds /\ ServerFrame
  BY <1>5, HandlerEndsStep
<1>6. CASE SendConnect /\ ServerFrame
  BY <1>6, SendConnectStep
<1>7. CASE Connected /\ ServerFrame
  BY <1>7, ConnectedStep
<1>8. CASE CloserFires /\ ServerFrame
  BY <1>8, CloserFiresStep
<1>9. CASE NpOpened /\ NpFrame
  BY <1>9, NpOpenedStep
<1>10. CASE NpReply /\ NpFrame
  BY <1>10, NpReplyStep
<1>11. CASE NpDeliver /\ NpFrame
  BY <1>11, NpDeliverStep
<1>12. CASE NpRecvFails /\ NpFrame
  BY <1>12, NpRecvFailsStep
<1>13. CASE WsDrop
  BY <1>13, WsDropStep
<1>14. CASE \E u \in Users : HandleConnected(u) /\ ServerFrame
  BY <1>14, HandleConnectedStep
<1>15. CASE \E u \in Users : HandleMessage(u) /\ ServerFrame
  BY <1>15, HandleMessageStep
<1>16. CASE \E u \in Users : Accept(u) /\ ServerFrame
  BY <1>16, AcceptStep
<1>17. CASE \E u \in Users : TaskRecv(u) /\ ServerFrame
  BY <1>17, TaskRecvStep
<1>18. CASE \E u \in Users : TaskRead(u) /\ ServerFrame
  BY <1>18, TaskReadStep
<1>19. CASE \E u \in Users : TaskReadFails(u) /\ ServerFrame
  BY <1>19, TaskReadFailsStep
<1>20. CASE \E u \in Users : TaskSend(u) /\ ServerFrame
  BY <1>20, TaskSendStep
<1>21. CASE \E u \in Users : TaskRemove(u) /\ ServerFrame
  BY <1>21, TaskRemoveStep
<1>22. CASE \E u \in Users : TaskTimeout(u) /\ ServerFrame
  BY <1>22, TaskTimeoutStep
<1>23. CASE \E u \in Users : UserConnect(u) /\ ServerFrame
  BY <1>23, UserConnectStep
<1>24. CASE \E u \in Users : UserSend(u) /\ ServerFrame
  BY <1>24, UserSendStep
<1>25. CASE \E u \in Users : (UserShutdown(u) \/ UserClose(u)) /\ ServerFrame
  BY <1>25, UserCloseStep
<1>26. CASE \E u \in Users : NpConnect(u) /\ NpFrame
  BY <1>26, NpConnectStep
<1>27. CASE \E u \in Users : NpHandleMessage(u) /\ NpFrame
  BY <1>27, NpHandleMessageStep
<1>28. CASE \E u \in Users : NpTaskRecv(u) /\ NpFrame
  BY <1>28, NpTaskRecvStep
<1>29. CASE \E u \in Users : NpTaskRead(u) /\ NpFrame
  BY <1>29, NpTaskReadStep
<1>30. CASE \E u \in Users : NpTaskSend(u) /\ NpFrame
  BY <1>30, NpTaskSendStep
<1>31. CASE \E u \in Users : NpTaskRemove(u) /\ NpFrame
  BY <1>31, NpTaskRemoveStep
<1>32. CASE \E u \in Users : LocalSend(u) /\ NpFrame
  BY <1>32, LocalSendStep
<1>33. CASE \E u \in Users : (LocalShutdown(u) \/ LocalClose(u)) /\ NpFrame
  BY <1>33, LocalCloseStep
<1>34. CASE UNCHANGED vars
  BY <1>34, StutterStep
<1> QED
  BY <1>1, <1>2, <1>3, <1>4, <1>5, <1>6, <1>7, <1>8, <1>9, <1>10, <1>11, <1>12, <1>13, <1>14,
     <1>15, <1>16, <1>17, <1>18, <1>19, <1>20, <1>21, <1>22, <1>23, <1>24, <1>25, <1>26, <1>27,
     <1>28, <1>29, <1>30, <1>31, <1>32, <1>33, <1>34 DEF Next

\* The invariant holds in every reachable state: where each chunk of each
\* connection is, in both directions, and how far a connection is set up,
\* for the tasks, channels and locks of port_server.rs, client/port.rs and
\* both msghandlers.
THEOREM Invariant == Spec => []Inv
<1>1. Init => Inv
  BY InitInv
<1>2. Inv /\ [Next]_vars => Inv'
  BY NextInv
<1> QED
  BY <1>1, <1>2, PTL DEF Spec

\* Types, and the capacity of the websocket and of the two programs' channels.
THEOREM TypeCorrect == Spec => []TypeOK
<1>1. Inv => TypeOK
  BY DEF Inv
<1> QED
  BY <1>1, Invariant, PTL

\* Both ends of every connection receive what the other sent, in order, with
\* no gap and nothing of another connection.
THEOREM InOrder == Spec => []DataInOrder
<1>1. Inv => DataInOrder
  BY DEF Inv, Down, Up, DownChunks, UpChunks, DataInOrder
<1> QED
  BY <1>1, Invariant, PTL

\* While the websocket works, the task of a connection ends by itself, at the
\* server as at np, only after it has delivered all the other end sent.
THEOREM Complete == Spec => []NoTruncation
<1>1. Inv => NoTruncation
  BY DEF Inv, Down, Up, DownDone, UpDone, NoTruncation
<1> QED
  BY <1>1, Invariant, PTL
=============================================================================
