---------------------------- MODULE NpRunProofs -----------------------------
(***************************************************************************)
(* Proofs about NpRun, for any number of tunnels, retries and sessions,    *)
(* however late the server ends a session and lets go of its ports.        *)
(***************************************************************************)
EXTENDS NpRun, TLAPS

\* The directions of the websockets are functions, beyond what TypeOK says.
Directions == /\ c2s \in [Sessions -> Seq(FromNp)]
              /\ s2c \in [Sessions -> Seq(FromServer)]

\* No session before its Connect: np's connection, the sessions the server
\* serves and the owners of names are among those set up so far.
Started == /\ conn <= sessions
           /\ \A s \in Sessions : server[s] # "none" => s <= sessions
           /\ \A i \in Tunnels : owner[i] <= sessions

\* np knows, or is about to be told of, i on session s.
Told(i, s) == \/ i \in registered
              \/ \E n \in 1 .. Len(s2c[s]) : s2c[s][n] = [id |-> i, ok |-> TRUE]

\* ForwardedIsServed, from Connect on.
Serves ==
  phase \in {"opening", "reading", "dispatching"} /\ conn # None => \A i \in Tunnels :
    owner[i] = conn /\ up[conn] => Told(i, conn)

Inv == TypeOK /\ Directions /\ Started /\ Serves

-----------------------------------------------------------------------------
(* Sequences, as the websocket uses them                                   *)

\* Receiving the first message.
LEMMA TailFacts ==
  ASSUME NEW S, NEW s \in Seq(S), s # <<>>
  PROVE  /\ Tail(s) \in Seq(S) /\ Len(s) \in Nat /\ Len(Tail(s)) = Len(s) - 1
         /\ Head(s) = s[1] /\ s[1] \in S
         /\ \A n \in 1 .. Len(s) : n # 1 => /\ n - 1 \in 1 .. Len(Tail(s))
                                            /\ Tail(s)[n - 1] = s[n]
  OBVIOUS

\* Sending a message.
LEMMA AppendFacts ==
  ASSUME NEW S, NEW s \in Seq(S), NEW m \in S
  PROVE  /\ Append(s, m) \in Seq(S) /\ Len(s) \in Nat
         /\ Len(Append(s, m)) = Len(s) + 1
         /\ \A n \in 1 .. Len(s) : Append(s, m)[n] = s[n]
         /\ Append(s, m)[Len(s) + 1] = m
  OBVIOUS

\* What a broken websocket still delivers.
LEMMA PrefixFacts ==
  ASSUME NEW S, NEW s \in Seq(S), NEW n \in 0 .. Len(s)
  PROVE  /\ SubSeq(s, 1, n) \in Seq(S) /\ Len(SubSeq(s, 1, n)) <= Len(s)
<1>1. Len(s) \in Nat /\ n \in Nat /\ n <= Len(s)
  OBVIOUS
<1>2. SubSeq(s, 1, n) \in Seq(S) /\ Len(SubSeq(s, 1, n)) = n
  BY <1>1
<1> QED
  BY <1>1, <1>2

-----------------------------------------------------------------------------
(* Steps of np                                                             *)

\* np has not connected yet.
LEMMA InitInv == Init => Inv
<1> SUFFICES ASSUME Init
             PROVE  Inv
  OBVIOUS
<1> USE RunAssumption DEF Init, Sessions, Tunnels, None
<1>1. TypeOK
  <2>1. \A s \in Sessions : /\ c2s[s] \in Seq(FromNp) /\ Len(c2s[s]) <= WsCap
                            /\ s2c[s] \in Seq(FromServer) /\ Len(s2c[s]) <= WsCap
    OBVIOUS
  <2> QED
    BY <2>1 DEF TypeOK
<1>2. Directions
  BY DEF Directions
<1>3. Started /\ Serves
  BY DEF Started, Serves
<1> QED
  BY <1>1, <1>2, <1>3 DEF Inv

\* A new session: the server has nothing of it, so it owns no name.
LEMMA ConnectStep == Inv /\ Connect => Inv'
<1> SUFFICES ASSUME Inv, Connect
             PROVE  Inv'
  OBVIOUS
<1> USE RunAssumption
<1>1. sessions' \in Sessions /\ sessions' = sessions + 1 /\ sessions \in Nat
  BY DEF Inv, TypeOK, Connect, Sessions
<1>2. TypeOK'
  BY <1>1 DEF Inv, TypeOK, Connect
<1>3. Directions'
  BY DEF Inv, Directions, Connect
<1>4. Started'
  <2>1. \A i \in Tunnels : owner[i] \in Int
    BY DEF Inv, TypeOK, Sessions, None
  <2>2. \A s \in Sessions : server'[s] # "none" => s <= sessions'
    BY <1>1 DEF Inv, TypeOK, Started, Connect, Sessions
  <2> QED
    BY <1>1, <2>1, <2>2 DEF Inv, Started, Connect
<1>5. Serves'
  <2>1. \A i \in Tunnels : owner'[i] # conn'
    BY <1>1 DEF Inv, TypeOK, Started, Connect, Sessions, None
  <2> QED
    BY <2>1 DEF Serves
<1> QED
  BY <1>2, <1>3, <1>4, <1>5 DEF Inv

\* A step that disconnects: np holds nothing the server could forward to.
LEMMA FailureStep ==
  ASSUME Inv, phase \in {"connecting", "opening"}, NEW next \in {"connecting", "opening"},
         ConnectFailure(next), tunnel' \in 1 .. NumTunnels + 1,
         up' \in [Sessions -> BOOLEAN],
         UNCHANGED <<sessions, serverVars, c2s, s2c>>
  PROVE  Inv'
<1> USE RunAssumption
<1>1. TypeOK'
  <2>1. retries \in 0 .. MaxRetries
    BY DEF Inv, TypeOK
  <2>2. /\ phase' \in {"connecting", "opening", "exited"}
        /\ retries' \in 0 .. MaxRetries + 1
        /\ phase' # "exited" => retries' <= MaxRetries
        /\ streams' \in SUBSET Sessions
    BY <2>1 DEF Inv, TypeOK, ConnectFailure
  <2> QED
    BY <2>2 DEF Inv, TypeOK, ConnectFailure, Disconnect, serverVars
<1>2. Directions'
  BY DEF Inv, Directions
<1>3. Started'
  <2>1. conn' = 0 /\ 0 <= sessions'
    BY DEF Inv, TypeOK, ConnectFailure, Disconnect, None
  <2> QED
    BY <2>1 DEF Inv, Started, serverVars
<1>4. Serves'
  BY DEF Serves, ConnectFailure, Disconnect
<1> QED
  BY <1>1, <1>2, <1>3, <1>4 DEF Inv

\* connect_failure: np has no connection and no forwardings left.
LEMMA ConnectFailsStep == Inv /\ ConnectFails => Inv'
<1> SUFFICES ASSUME Inv, ConnectFails
             PROVE  Inv'
  OBVIOUS
<1>1. tunnel' \in 1 .. NumTunnels + 1 /\ up' \in [Sessions -> BOOLEAN]
  BY DEF Inv, TypeOK, ConnectFails
<1> QED
  BY <1>1, FailureStep DEF ConnectFails

\* A send that fails leaves np without a connection, and the loop goes on.
LEMMA OpenFailsStep == Inv /\ OpenFails => Inv'
<1> SUFFICES ASSUME Inv, OpenFails
             PROVE  Inv'
  OBVIOUS
<1>1. tunnel' \in 1 .. NumTunnels + 1 /\ up' \in [Sessions -> BOOLEAN]
  BY RunAssumption DEF Inv, TypeOK, OpenFails
<1> QED
  BY <1>1, FailureStep DEF OpenFails

\* Sending, with what it leaves alone.
LEMMA SendFacts ==
  ASSUME Inv, NEW m \in FromNp, Send(m)
  PROVE  /\ \A s \in Sessions : c2s'[s] \in Seq(FromNp) /\ Len(c2s'[s]) <= WsCap
         /\ c2s' \in [Sessions -> Seq(FromNp)]
<1>1. conn \in Sessions
  BY DEF Inv, TypeOK, Send, Usable
<1>2. /\ Append(c2s[conn], m) \in Seq(FromNp)
      /\ Len(Append(c2s[conn], m)) <= WsCap
  BY <1>1, AppendFacts, RunAssumption DEF Inv, TypeOK, Send
<1>3. c2s' = [c2s EXCEPT ![conn] = Append(c2s[conn], m)]
  BY DEF Send
<1> QED
  BY <1>1, <1>2, <1>3 DEF Inv, TypeOK, Directions

\* One more request is on the websocket.
LEMMA OpenTunnelStep == Inv /\ OpenTunnel => Inv'
<1> SUFFICES ASSUME Inv, OpenTunnel
             PROVE  Inv'
  OBVIOUS
<1> USE RunAssumption
<1>1. [kind |-> "open", id |-> tunnel] \in FromNp
  BY DEF Inv, TypeOK, OpenTunnel, FromNp, Tunnels
<1>2. /\ \A s \in Sessions : c2s'[s] \in Seq(FromNp) /\ Len(c2s'[s]) <= WsCap
      /\ c2s' \in [Sessions -> Seq(FromNp)]
  BY <1>1, SendFacts DEF OpenTunnel
<1>3. tunnel' \in 1 .. NumTunnels + 1
  BY DEF Inv, TypeOK, OpenTunnel
<1>4. TypeOK' /\ Directions'
  BY <1>2, <1>3 DEF Inv, TypeOK, Directions, OpenTunnel, serverVars
<1>5. Started' /\ Serves'
  BY DEF Inv, Started, Serves, Told, OpenTunnel, serverVars
<1> QED
  BY <1>4, <1>5 DEF Inv

\* The loop over the tunnels is through.
LEMMA OpenDoneStep == Inv /\ OpenDone => Inv'
<1> SUFFICES ASSUME Inv, OpenDone
             PROVE  Inv'
  OBVIOUS
<1>1. TypeOK' /\ Directions'
  BY RunAssumption DEF Inv, TypeOK, Directions, OpenDone, serverVars
<1>2. Started' /\ Serves'
  BY DEF Inv, Started, Serves, Told, OpenDone, serverVars
<1> QED
  BY <1>1, <1>2 DEF Inv

\* np takes an answer: what it was about to be told it now knows.
LEMMA ReceiveStep == Inv /\ Receive => Inv'
<1> SUFFICES ASSUME Inv, Receive
             PROVE  Inv'
  OBVIOUS
<1> DEFINE q == s2c[conn]
           m == Head(q)
<1>1. conn \in Sessions /\ q \in Seq(FromServer) /\ q # <<>> /\ Len(q) <= WsCap
  BY DEF Inv, TypeOK, Receive
<1>2. /\ Tail(q) \in Seq(FromServer) /\ Len(q) \in Nat /\ Len(Tail(q)) = Len(q) - 1
      /\ m = q[1] /\ m \in FromServer
      /\ \A n \in 1 .. Len(q) : n # 1 => /\ n - 1 \in 1 .. Len(Tail(q))
                                         /\ Tail(q)[n - 1] = q[n]
  BY <1>1, TailFacts
<1>3. /\ s2c' = [s2c EXCEPT ![conn] = Tail(q)]
      /\ registered' = IF m.ok THEN registered \cup {m.id} ELSE registered
  BY DEF Receive
<1>4. m.id \in Tunnels /\ registered' \in SUBSET Tunnels
  BY <1>2, <1>3 DEF Inv, TypeOK, FromServer
<1>5. s2c'[conn] = Tail(q) /\ s2c' \in [Sessions -> Seq(FromServer)]
  BY <1>1, <1>2, <1>3 DEF Inv, Directions
<1>6. \A s \in Sessions : s2c'[s] \in Seq(FromServer) /\ Len(s2c'[s]) <= WsCap
  BY <1>1, <1>2, <1>3, RunAssumption DEF Inv, TypeOK, Directions
<1>7. TypeOK' /\ Directions'
  BY <1>4, <1>5, <1>6 DEF Inv, TypeOK, Directions, Receive, serverVars
<1>8. Started'
  BY DEF Inv, Started, Receive, serverVars
<1>9. ASSUME NEW i \in Tunnels, owner[i] = conn, up[conn]
      PROVE  Told(i, conn)'
  <2>1. Told(i, conn)
    BY <1>9 DEF Inv, Serves, Receive
  <2>2. CASE i \in registered
    BY <1>3, <2>2 DEF Told
  <2>3. CASE \E n \in 1 .. Len(q) : q[n] = [id |-> i, ok |-> TRUE]
    <3>1. PICK n \in 1 .. Len(q) : q[n] = [id |-> i, ok |-> TRUE]
      BY <2>3
    <3>2. CASE n = 1
      BY <1>2, <1>3, <3>1, <3>2 DEF Told
    <3>3. CASE n # 1
      <4>1. n - 1 \in 1 .. Len(s2c'[conn]) /\ s2c'[conn][n - 1] = [id |-> i, ok |-> TRUE]
        BY <1>2, <1>5, <3>1, <3>3
      <4> QED
        BY <4>1 DEF Told, Receive
    <3> QED
      BY <3>2, <3>3
  <2> QED
    BY <2>1, <2>2, <2>3 DEF Told
<1>10. Serves'
  BY <1>9 DEF Serves, Receive, serverVars
<1> QED
  BY <1>7, <1>8, <1>10 DEF Inv

\* np leaves the connection, or waits for a local service and is back.
LEMMA LoopStep ==
  ASSUME Inv, phase \in {"reading", "dispatching"},
         phase' \in {"connecting", "reading", "dispatching"},
         UNCHANGED <<tunnel, retries, conn, registered, streams, sessions, serverVars, up,
                     c2s, s2c>>
  PROVE  Inv'
<1>1. TypeOK' /\ Directions'
  BY DEF Inv, TypeOK, Directions, serverVars
<1>2. Started' /\ Serves'
  BY DEF Inv, Started, Serves, Told, serverVars
<1> QED
  BY <1>1, <1>2 DEF Inv

\* A connection of a user gets a task.
LEMMA StreamOpensStep == Inv /\ StreamOpens => Inv'
<1> SUFFICES ASSUME Inv, StreamOpens
             PROVE  Inv'
  OBVIOUS
<1>1. streams' \in SUBSET Sessions
  BY DEF Inv, TypeOK, StreamOpens, Usable
<1>2. TypeOK' /\ Directions'
  BY <1>1 DEF Inv, TypeOK, Directions, StreamOpens, serverVars
<1>3. Started' /\ Serves'
  BY DEF Inv, Started, Serves, Told, StreamOpens, serverVars
<1> QED
  BY <1>2, <1>3 DEF Inv

\* A task of any session sends on the connection np has now.
LEMMA StreamSendsStep == ASSUME Inv, NEW s \in Sessions, StreamSends(s)
                         PROVE  Inv'
<1>1. streams' \in SUBSET Sessions
  BY DEF Inv, TypeOK, StreamSends
<1>2. [kind |-> "data", id |-> s] \in FromNp
  BY DEF FromNp
<1>3. /\ \A x \in Sessions : c2s'[x] \in Seq(FromNp) /\ Len(c2s'[x]) <= WsCap
      /\ c2s' \in [Sessions -> Seq(FromNp)]
  BY <1>2, SendFacts DEF Inv, TypeOK, Directions, StreamSends
<1>4. TypeOK' /\ Directions'
  BY <1>1, <1>3 DEF Inv, TypeOK, Directions, StreamSends, serverVars
<1>5. Started' /\ Serves'
  BY DEF Inv, Started, Serves, Told, StreamSends, serverVars
<1> QED
  BY <1>4, <1>5 DEF Inv

-----------------------------------------------------------------------------
(* Steps of the server and of the websocket                                *)

\* The server takes the first message of a session.
LEMMA TakeFacts ==
  ASSUME Inv, NEW s \in Sessions, c2s[s] # <<>>, c2s' = [c2s EXCEPT ![s] = Tail(@)]
  PROVE  /\ Head(c2s[s]) \in FromNp
         /\ \A x \in Sessions : c2s'[x] \in Seq(FromNp) /\ Len(c2s'[x]) <= WsCap
         /\ c2s' \in [Sessions -> Seq(FromNp)]
<1> DEFINE q == c2s[s]
<1>1. q \in Seq(FromNp) /\ Len(q) <= WsCap
  BY DEF Inv, TypeOK
<1>2. /\ Tail(q) \in Seq(FromNp) /\ Len(q) \in Nat /\ Len(Tail(q)) = Len(q) - 1
      /\ Head(q) \in FromNp
  BY <1>1, TailFacts
<1>3. c2s' = [c2s EXCEPT ![s] = Tail(q)]
  OBVIOUS
<1> QED
  BY <1>1, <1>2, <1>3, RunAssumption DEF Inv, TypeOK, Directions

\* The server gives a free name, and says so on the same session.
LEMMA HandleOpenStep == ASSUME Inv, NEW s \in Sessions, HandleOpen(s)
                        PROVE  Inv'
<1> DEFINE i    == Head(c2s[s]).id
           free == owner[i] = None
           m    == [id |-> i, ok |-> free]
<1>1. /\ Head(c2s[s]) \in FromNp
      /\ \A x \in Sessions : c2s'[x] \in Seq(FromNp) /\ Len(c2s'[x]) <= WsCap
      /\ c2s' \in [Sessions -> Seq(FromNp)]
  BY TakeFacts DEF HandleOpen
<1>2. i \in Tunnels
  BY <1>1 DEF HandleOpen, FromNp
<1>3. /\ owner' \in [Tunnels -> Sessions \cup {None}]
      /\ \A j \in Tunnels : owner'[j] = IF j = i /\ free THEN s ELSE owner[j]
  BY <1>2 DEF Inv, TypeOK, HandleOpen
<1>4. m \in FromServer
  BY <1>2 DEF FromServer
<1>5. CASE /\ up[s] /\ Len(s2c[s]) < WsCap
           /\ s2c' = [s2c EXCEPT ![s] = Append(@, m)]
           /\ UNCHANGED server
  <2> DEFINE q == s2c[s]
  <2>1. q \in Seq(FromServer) /\ s2c' = [s2c EXCEPT ![s] = Append(q, m)]
    BY <1>5 DEF Inv, TypeOK
  <2>2. /\ Append(q, m) \in Seq(FromServer) /\ Len(q) \in Nat
        /\ Len(Append(q, m)) = Len(q) + 1
        /\ \A n \in 1 .. Len(q) : Append(q, m)[n] = q[n]
        /\ Append(q, m)[Len(q) + 1] = m
    BY <1>4, <2>1, AppendFacts
  <2>3. /\ s2c' \in [Sessions -> Seq(FromServer)] /\ s2c'[s] = Append(q, m)
        /\ \A x \in Sessions : x # s => s2c'[x] = s2c[x]
    BY <2>1, <2>2 DEF Inv, Directions
  <2>4. \A x \in Sessions : s2c'[x] \in Seq(FromServer) /\ Len(s2c'[x]) <= WsCap
    BY <1>5, <2>2, <2>3, RunAssumption DEF Inv, TypeOK
  <2>5. TypeOK' /\ Directions'
    BY <1>1, <1>3, <1>5, <2>3, <2>4 DEF Inv, TypeOK, Directions, HandleOpen, npVars
  <2>6. Started'
    BY <1>3, <1>5 DEF Inv, Started, HandleOpen, npVars
  <2>7. Serves'
    <3> SUFFICES ASSUME phase \in {"opening", "reading", "dispatching"}, conn # None,
                        up[conn],
                        NEW j \in Tunnels, owner'[j] = conn
                 PROVE  Told(j, conn)'
      BY DEF Serves, HandleOpen, npVars
    <3>1. UNCHANGED <<registered, conn>> /\ conn \in Sessions
      BY DEF Inv, TypeOK, HandleOpen, npVars
    <3>2. CASE j = i /\ free
      <4>1. s = conn /\ m = [id |-> j, ok |-> TRUE]
        BY <1>3, <3>2
      <4>2. Len(q) + 1 \in 1 .. Len(s2c'[conn]) /\ s2c'[conn][Len(q) + 1] = m
        BY <2>2, <2>3, <4>1
      <4> QED
        BY <3>1, <4>1, <4>2 DEF Told
    <3>3. CASE ~(j = i /\ free)
      <4>1. Told(j, conn)
        BY <1>3, <3>3 DEF Inv, Serves
      <4>2. \A n \in 1 .. Len(s2c[conn]) :
              n \in 1 .. Len(s2c'[conn]) /\ s2c'[conn][n] = s2c[conn][n]
        <5>1. CASE conn = s
          <6>1. s2c'[conn] = Append(q, m) /\ s2c[conn] = q
            BY <2>3, <5>1
          <6> HIDE DEF q, m
          <6> QED
            BY <2>2, <6>1
        <5>2. CASE conn # s
          BY <2>3, <3>1, <5>2
        <5> QED
          BY <5>1, <5>2
      <4> QED
        BY <3>1, <4>1, <4>2 DEF Told
    <3> QED
      BY <3>2, <3>3
  <2> QED
    BY <2>5, <2>6, <2>7 DEF Inv
<1>6. CASE /\ ~up[s] /\ server' = [server EXCEPT ![s] = "closing"]
           /\ UNCHANGED s2c
  <2>1. TypeOK' /\ Directions'
    BY <1>1, <1>3, <1>6 DEF Inv, TypeOK, Directions, HandleOpen, npVars
  <2>2. Started'
    BY <1>3, <1>6 DEF Inv, TypeOK, Started, HandleOpen, npVars
  <2>3. Serves'
    BY <1>3, <1>6 DEF Inv, Serves, Told, HandleOpen, npVars
  <2> QED
    BY <2>1, <2>2, <2>3 DEF Inv
<1> QED
  BY <1>5, <1>6 DEF HandleOpen

\* Data of a stream the session does not know ends it.
LEMMA HandleDataStep == ASSUME Inv, NEW s \in Sessions, HandleData(s)
                        PROVE  Inv'
<1>1. /\ \A x \in Sessions : c2s'[x] \in Seq(FromNp) /\ Len(c2s'[x]) <= WsCap
      /\ c2s' \in [Sessions -> Seq(FromNp)]
  BY TakeFacts DEF HandleData
<1>2. server' \in [Sessions -> {"none", "serving", "closing", "gone"}]
  BY DEF Inv, TypeOK, HandleData
<1>3. TypeOK' /\ Directions'
  BY <1>1, <1>2 DEF Inv, TypeOK, Directions, HandleData, npVars
<1>4. Started'
  BY DEF Inv, TypeOK, Started, HandleData, npVars
<1>5. Serves'
  BY DEF Inv, Serves, Told, HandleData, npVars
<1> QED
  BY <1>3, <1>4, <1>5 DEF Inv

\* The server notices a broken websocket.
LEMMA ServerRecvFailsStep == ASSUME Inv, NEW s \in Sessions, ServerRecvFails(s)
                             PROVE  Inv'
<1>1. TypeOK' /\ Directions'
  BY DEF Inv, TypeOK, Directions, ServerRecvFails, npVars
<1>2. Started'
  BY DEF Inv, TypeOK, Started, ServerRecvFails, npVars
<1>3. Serves'
  BY DEF Inv, Serves, Told, ServerRecvFails, npVars
<1> QED
  BY <1>1, <1>2, <1>3 DEF Inv

\* The end of a session frees its hostnames.
LEMMA ServerEndsStep == ASSUME Inv, NEW s \in Sessions, ServerEnds(s)
                        PROVE  Inv'
<1>1. TypeOK' /\ Directions'
  BY DEF Inv, TypeOK, Directions, ServerEnds, npVars
<1>2. Started'
  <2>1. \A i \in Tunnels : owner'[i] \in {0, owner[i]} /\ sessions >= 0
    BY DEF Inv, TypeOK, ServerEnds, None
  <2> QED
    BY <2>1 DEF Inv, TypeOK, Started, ServerEnds, npVars
<1>3. Serves'
  <2>1. \A x \in Sessions : up'[x] => up[x]
    BY DEF Inv, TypeOK, ServerEnds
  <2>2. \A i \in Tunnels : owner'[i] # None => owner'[i] = owner[i]
    BY DEF ServerEnds
  <2> QED
    BY <2>1, <2>2 DEF Inv, TypeOK, Serves, Told, ServerEnds, npVars
<1> QED
  BY <1>1, <1>2, <1>3 DEF Inv

\* A port of an ended session is free.
LEMMA PortReleasedStep == ASSUME Inv, NEW s \in Sessions, PortReleased(s)
                          PROVE  Inv'
<1>1. PICK i \in TcpTunnels : owner' = [owner EXCEPT ![i] = None]
  BY DEF PortReleased
<1>2. /\ owner' \in [Tunnels -> Sessions \cup {None}]
      /\ \A j \in Tunnels : owner'[j] \in {None, owner[j]}
  BY <1>1 DEF Inv, TypeOK
<1>3. TypeOK' /\ Directions'
  BY <1>2 DEF Inv, TypeOK, Directions, PortReleased, npVars
<1>4. Started'
  <2>1. sessions >= 0
    BY DEF Inv, TypeOK
  <2> QED
    BY <1>2, <2>1 DEF Inv, Started, PortReleased, npVars, None
<1>5. Serves'
  BY <1>2 DEF Inv, Serves, Told, PortReleased, npVars
<1> QED
  BY <1>3, <1>4, <1>5 DEF Inv

\* A broken session serves nobody.
LEMMA WsDropStep == ASSUME Inv, NEW s \in Sessions, WsDrop(s)
                    PROVE  Inv'
<1>1. PICK n \in 0 .. Len(c2s[s]) : c2s' = [c2s EXCEPT ![s] = SubSeq(c2s[s], 1, n)]
  BY DEF WsDrop
<1>2. PICK k \in 0 .. Len(s2c[s]) : s2c' = [s2c EXCEPT ![s] = SubSeq(s2c[s], 1, k)]
  BY DEF WsDrop
<1>3. /\ SubSeq(c2s[s], 1, n) \in Seq(FromNp) /\ Len(SubSeq(c2s[s], 1, n)) <= WsCap
      /\ SubSeq(s2c[s], 1, k) \in Seq(FromServer) /\ Len(SubSeq(s2c[s], 1, k)) <= WsCap
  <2>1. /\ c2s[s] \in Seq(FromNp) /\ s2c[s] \in Seq(FromServer)
        /\ Len(c2s[s]) <= WsCap /\ Len(s2c[s]) <= WsCap
        /\ Len(c2s[s]) \in Nat /\ Len(s2c[s]) \in Nat
    BY DEF Inv, TypeOK
  <2>2. /\ SubSeq(c2s[s], 1, n) \in Seq(FromNp)
        /\ Len(SubSeq(c2s[s], 1, n)) <= Len(c2s[s])
    BY <2>1, PrefixFacts
  <2>3. /\ SubSeq(s2c[s], 1, k) \in Seq(FromServer)
        /\ Len(SubSeq(s2c[s], 1, k)) <= Len(s2c[s])
    BY <2>1, PrefixFacts
  <2>4. /\ Len(SubSeq(c2s[s], 1, n)) \in Nat /\ Len(SubSeq(s2c[s], 1, k)) \in Nat
    BY <2>2, <2>3
  <2> QED
    BY <2>1, <2>2, <2>3, <2>4, RunAssumption
<1>4. Directions'
  BY <1>1, <1>2, <1>3 DEF Inv, Directions
<1>5. up' \in [Sessions -> BOOLEAN] /\ ~up'[s] /\ \A x \in Sessions : x # s => up'[x] = up[x]
  BY DEF Inv, TypeOK, WsDrop
<1>6. TypeOK'
  <2>1. \A x \in Sessions : /\ c2s'[x] \in Seq(FromNp) /\ Len(c2s'[x]) <= WsCap
                            /\ s2c'[x] \in Seq(FromServer) /\ Len(s2c'[x]) <= WsCap
    BY <1>1, <1>2, <1>3 DEF Inv, TypeOK, Directions
  <2> QED
    BY <1>5, <2>1 DEF Inv, TypeOK, WsDrop, npVars, serverVars
<1>7. Started'
  BY DEF Inv, Started, WsDrop, npVars, serverVars
<1>8. Serves'
  <2>1. \A x \in Sessions : x # s => s2c'[x] = s2c[x]
    BY <1>2 DEF Inv, Directions
  <2> QED
    BY <1>5, <2>1, SMTT(30) DEF Inv, TypeOK, Serves, Told, WsDrop, npVars, serverVars
<1> QED
  BY <1>4, <1>6, <1>7, <1>8 DEF Inv

\* Every step keeps the invariant.
LEMMA NextInv == Inv /\ [Next]_vars => Inv'
<1> SUFFICES ASSUME Inv, [Next]_vars
             PROVE  Inv'
  OBVIOUS
<1>1. CASE UNCHANGED vars
  <2>1. UNCHANGED <<phase, tunnel, retries, conn, registered, streams, sessions, up, c2s,
                    s2c, server, owner>>
    BY <1>1 DEF vars, npVars, serverVars
  <2> QED
    BY <2>1 DEF Inv, TypeOK, Directions, Started, Serves, Told
<1>2. CASE RunNext
  <2>1. CASE RecvFails \/ RecvInvalid \/ Dispatch \/ Dispatched
    BY <2>1, LoopStep DEF RecvFails, RecvInvalid, Dispatch, Dispatched
  <2> QED
    BY <1>2, <2>1, ConnectStep, ConnectFailsStep, OpenTunnelStep, OpenFailsStep,
       OpenDoneStep, ReceiveStep, StreamOpensStep
       DEF RunNext
<1>3. ASSUME NEW s \in Sessions, SessionNext(s)
      PROVE  Inv'
  BY <1>3, StreamSendsStep, HandleOpenStep, HandleDataStep, ServerRecvFailsStep,
     ServerEndsStep, PortReleasedStep, WsDropStep
     DEF SessionNext
<1> QED
  BY <1>1, <1>2, <1>3 DEF Next

-----------------------------------------------------------------------------
(* Theorems                                                                *)

\* Inv is inductive: what the other theorems rest on.
THEOREM Invariant == Spec => []Inv
  BY InitInv, NextInv, PTL DEF Spec

\* The types of the state; in particular np counts no further than one past
\* MAX_CONNECT_RETRIES, and then it has exited.
THEOREM TypeCorrect == Spec => []TypeOK
<1>1. Inv => TypeOK
  BY DEF Inv
<1> QED
  BY <1>1, Invariant, PTL

\* Whatever np's session is forwarded by the server, np serves, or will when
\* it has received what is under way: across reconnections, sessions the
\* server has not noticed the end of, ports it still holds, dispatches that
\* never end, and connections that fail half way through the tunnels.
THEOREM Forwarded == Spec => []ForwardedIsServed
<1>1. Inv => ForwardedIsServed
  BY DEF Inv, Serves, Told, ForwardedIsServed
<1> QED
  BY <1>1, Invariant, PTL
=============================================================================
