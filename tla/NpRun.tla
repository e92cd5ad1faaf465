------------------------------- MODULE NpRun --------------------------------
(***************************************************************************)
(* The life of np (lib.rs run): connect to the server, open the tunnels of *)
(* the configuration, receive until the websocket fails, connect again;    *)
(* and what the server does with the sessions np leaves behind.            *)
(*                                                                         *)
(* A session is one websocket, and at the server one Client.  A tunnel is  *)
(* a configured one with a fixed remote name, HTTP hostname or TCP port:   *)
(* the server gives the name to one session at a time (module Registry)    *)
(* and takes a hostname back when the session ends, a port at some later   *)
(* time or never (module PortServer).  A stream is the task of one         *)
(* forwarded TCP connection at np (module NpPort), known by the session it *)
(* belongs to; it sends on whatever connection np has.                     *)
(***************************************************************************)
EXTENDS Integers, Sequences

CONSTANTS NumTunnels,   \* tunnels of the configuration, in order
          MaxRetries,   \* MAX_CONNECT_RETRIES
          MaxSessions,  \* bound: websockets np sets up
          TcpTunnels,   \* those of them with a TCP port; the others are HTTP
          WsCap         \* bound: messages in flight in one direction

ASSUME RunAssumption == /\ NumTunnels \in Nat \ {0}
                        /\ MaxRetries \in Nat
                        /\ MaxSessions \in Nat
                        /\ WsCap \in Nat \ {0}
                        /\ TcpTunnels \in SUBSET (1 .. NumTunnels)

Tunnels == 1 .. NumTunnels

Sessions == 1 .. MaxSessions

None == 0   \* no session

VARIABLES
  phase,       \* run: connecting, opening, reading, dispatching, exited
  tunnel,      \* opening: the next tunnel of the loop
  retries,     \* connect_retries
  conn,        \* Client.connection of np: a session or None
  registered,  \* Client.http_forwardings and port_forwardings of np
  streams,     \* sessions that have a stream at np
  sessions,    \* sessions so far: 1 .. sessions
  up,          \* the websocket of a session works
  c2s,         \* messages from np to the server, of each session
  s2c,         \* messages from the server to np
  server,      \* handle_socket of a session: none, serving, closing, gone
  owner        \* the session that holds a tunnel's name at the server

npVars     == <<phase, tunnel, retries, conn, registered, streams, sessions>>
serverVars == <<server, owner>>
vars       == <<npVars, serverVars, up, c2s, s2c>>

\* What np sends: HttpOpen or PortOpen of a tunnel, data of a stream.
FromNp == [kind : {"open"}, id : Tunnels] \cup [kind : {"data"}, id : Sessions]

\* HttpOpened or PortOpened of a tunnel, with or without an error.
FromServer == [id : Tunnels, ok : BOOLEAN]

TypeOK ==
  /\ phase \in {"connecting", "opening", "reading", "dispatching", "exited"}
  /\ tunnel \in 1 .. NumTunnels + 1
  /\ retries \in 0 .. MaxRetries + 1
  /\ phase # "exited" => retries <= MaxRetries
  /\ conn \in Sessions \cup {None}
  /\ registered \in SUBSET Tunnels
  /\ streams \in SUBSET Sessions
  /\ sessions \in 0 .. MaxSessions
  /\ up \in [Sessions -> BOOLEAN]
  /\ \A s \in Sessions : c2s[s] \in Seq(FromNp) /\ Len(c2s[s]) <= WsCap
  /\ \A s \in Sessions : s2c[s] \in Seq(FromServer) /\ Len(s2c[s]) <= WsCap
  /\ server \in [Sessions -> {"none", "serving", "closing", "gone"}]
  /\ owner \in [Tunnels -> Sessions \cup {None}]

Init ==
  /\ phase = "connecting" /\ tunnel = 1 /\ retries = 0
  /\ conn = None /\ registered = {} /\ streams = {} /\ sessions = 0
  /\ up = [s \in Sessions |-> FALSE]
  /\ c2s = [s \in Sessions |-> <<>>]
  /\ s2c = [s \in Sessions |-> <<>>]
  /\ server = [s \in Sessions |-> "none"]
  /\ owner = [i \in Tunnels |-> None]

-----------------------------------------------------------------------------
(* np                                                                      *)

\* np's connection can be used: there is one, and its websocket works.
Usable == conn # None /\ up[conn]

\* Client::send: fails on a connection that is not Usable.
Send(m) == /\ Usable /\ Len(c2s[conn]) < WsCap
           /\ c2s' = [c2s EXCEPT ![conn] = Append(@, m)]

\* Client::disconnect.  (The streams stay: their channels are closed, their
\* tasks go on reading.)
Disconnect == conn' = None /\ registered' = {}

GivesUpOneLater(next) ==
  /\ Disconnect
  /\ retries' = retries + 1
  /\ \/ retries > MaxRetries /\ phase' = "exited" /\ streams' = {}
     \/ retries <= MaxRetries /\ phase' = next /\ UNCHANGED streams

\* connect_failure: disconnect, count, give up or sleep and go on at next.
ConnectFailure(next) ==
  /\ Disconnect
  /\ retries' = retries + 1
  /\ \/ retries' > MaxRetries /\ phase' = "exited" /\ streams' = {}
     \/ retries' <= MaxRetries /\ phase' = next /\ UNCHANGED streams

\* Client::connect returns Ok: the new connection replaces the old one, which
\* is dropped, but not what np remembers of the old session.
Connect ==
  /\ phase = "connecting" /\ sessions < MaxSessions
  /\ sessions' = sessions + 1
  /\ conn' = sessions'
  /\ up' = [s \in Sessions |-> s = sessions']
  /\ server' = [server EXCEPT ![sessions'] = "serving"]
  /\ phase' = "opening" /\ tunnel' = 1
  /\ UNCHANGED <<retries, registered, streams, owner, c2s, s2c>>

\* Client::connect returns an error: the old connection is dropped as well.
ConnectFails ==
  /\ phase = "connecting"
  /\ ConnectFailure("connecting")
  /\ up' = [s \in Sessions |-> FALSE]
  /\ UNCHANGED <<tunnel, sessions, serverVars, c2s, s2c>>

OpensMissing ==
  /\ phase = "opening" /\ tunnel <= NumTunnels
  /\ \/ tunnel \in registered /\ Usable /\ UNCHANGED c2s
     \/ tunnel \notin registered /\ Send([kind |-> "open", id |-> tunnel])
  /\ tunnel' = tunnel + 1
  /\ UNCHANGED <<phase, retries, conn, registered, streams, sessions, serverVars,
                 up, s2c>>

\* http_open or tcp_open of the next tunnel.
OpenTunnel ==
  /\ phase = "opening" /\ tunnel <= NumTunnels
  /\ Send([kind |-> "open", id |-> tunnel])
  /\ tunnel' = tunnel + 1
  /\ UNCHANGED <<phase, retries, conn, registered, streams, sessions, serverVars,
                 up, s2c>>

\* It fails: `continue' goes on with the next tunnel, without a connection.
OpenFails ==
  /\ phase = "opening" /\ tunnel <= NumTunnels
  /\ ~Usable
  /\ ConnectFailure("opening")
  /\ tunnel' = tunnel + 1
  /\ UNCHANGED <<sessions, serverVars, up, c2s, s2c>>

\* The loop over the tunnels ends, with a connection or without.
OpenDone ==
  /\ phase = "opening" /\ tunnel > NumTunnels
  /\ retries' = 0
  /\ phase' = "reading"
  /\ UNCHANGED <<tunnel, conn, registered, streams, sessions, serverVars, up, c2s,
                 s2c>>

ReceiveToggles ==
  /\ phase = "reading" /\ conn # None /\ s2c[conn] # <<>>
  /\ LET m == Head(s2c[conn]) IN
       registered' = IF m.ok THEN (registered \cup {m.id}) \ (registered \cap {m.id})
                     ELSE registered
  /\ s2c' = [s2c EXCEPT ![conn] = Tail(@)]
  /\ UNCHANGED <<phase, tunnel, retries, conn, streams, sessions, serverVars, up,
                 c2s>>

\* recv and dispatch: http_register or port_register.  One that is there
\* already, and an error of the server, are only logged.
Receive ==
  /\ phase = "reading" /\ conn # None /\ s2c[conn] # <<>>
  /\ LET m == Head(s2c[conn]) IN
       registered' = IF m.ok THEN registered \cup {m.id} ELSE registered
  /\ s2c' = [s2c EXCEPT ![conn] = Tail(@)]
  /\ UNCHANGED <<phase, tunnel, retries, conn, streams, sessions, serverVars, up,
                 c2s>>

RecvFailsIfBroken ==
  /\ phase = "reading"
  /\ conn # None /\ ~up[conn] /\ s2c[conn] = <<>>
  /\ phase' = "connecting"
  /\ UNCHANGED <<tunnel, retries, conn, registered, streams, sessions, serverVars,
                 up, c2s, s2c>>

\* recv fails: leave the read loop and connect again, without disconnect.
RecvFails ==
  /\ phase = "reading"
  /\ conn # None => ~up[conn] /\ s2c[conn] = <<>>
  /\ phase' = "connecting"
  /\ UNCHANGED <<tunnel, retries, conn, registered, streams, sessions, serverVars,
                 up, c2s, s2c>>

\* recv fails with a websocket that works, on a message that is not binary or
\* cannot be decoded: the old connection stays until connect replaces it.
RecvInvalid ==
  /\ phase = "reading" /\ Usable
  /\ phase' = "connecting"
  /\ UNCHANGED <<tunnel, retries, conn, registered, streams, sessions, serverVars,
                 up, c2s, s2c>>

\* recv and dispatch of a message for a forwarding np has: an HttpRequest, for
\* which the loop waits for the local service, or data of a stream, for which
\* it waits for room in the stream's channel.
Dispatch ==
  /\ phase = "reading" /\ conn # None /\ registered # {}
  /\ phase' = "dispatching"
  /\ UNCHANGED <<tunnel, retries, conn, registered, streams, sessions, serverVars,
                 up, c2s, s2c>>

\* The wait ends, if it does: neither of them has a timeout.  (What np sends
\* then is no concern of this module.)
Dispatched ==
  /\ phase = "dispatching"
  /\ phase' = "reading"
  /\ UNCHANGED <<tunnel, retries, conn, registered, streams, sessions, serverVars,
                 up, c2s, s2c>>

\* A user connects through a tunnel np knows (the set-up is in PortTunnel).
StreamOpens ==
  /\ phase = "reading" /\ Usable
  /\ \E i \in registered : owner[i] = conn
  /\ streams' = streams \cup {conn}
  /\ UNCHANGED <<phase, tunnel, retries, conn, registered, sessions, serverVars,
                 up, c2s, s2c>>

\* A stream sends what the local service says, or its close, on np's present
\* connection; without one, or after a close, it ends.
StreamSends(s) ==
  /\ s \in streams
  /\ \/ /\ Send([kind |-> "data", id |-> s])
        /\ streams' \in {streams, streams \ {s}}
     \/ ~Usable /\ streams' = streams \ {s} /\ UNCHANGED c2s
  /\ UNCHANGED <<phase, tunnel, retries, conn, registered, sessions, serverVars,
                 up, s2c>>

-----------------------------------------------------------------------------
(* The server                                                              *)

\* http::open, port::open: give the name to the session if it is free, and
\* answer; a failing answer ends the session.
HandleOpen(s) ==
  /\ server[s] = "serving" /\ c2s[s] # <<>> /\ Head(c2s[s]).kind = "open"
  /\ c2s' = [c2s EXCEPT ![s] = Tail(@)]
  /\ LET i == Head(c2s[s]).id
         free == owner[i] = None IN
       /\ owner' = [owner EXCEPT ![i] = IF free THEN s ELSE @]
       /\ \/ /\ up[s] /\ Len(s2c[s]) < WsCap
             /\ s2c' = [s2c EXCEPT ![s] = Append(@, [id |-> i, ok |-> free])]
             /\ UNCHANGED server
          \/ ~up[s] /\ server' = [server EXCEPT ![s] = "closing"] /\ UNCHANGED s2c
  /\ UNCHANGED <<npVars, up>>

\* port::receive, port::close: a connection of another session is unknown,
\* and PortIDNotRegistered ends this one.
HandleData(s) ==
  /\ server[s] = "serving" /\ c2s[s] # <<>> /\ Head(c2s[s]).kind = "data"
  /\ c2s' = [c2s EXCEPT ![s] = Tail(@)]
  /\ \/ Head(c2s[s]).id = s /\ UNCHANGED server
     \/ Head(c2s[s]).id # s /\ server' = [server EXCEPT ![s] = "closing"]
  /\ UNCHANGED <<npVars, owner, up, s2c>>

\* recv fails at the server: the websocket is closed.
ServerRecvFails(s) ==
  /\ server[s] = "serving" /\ ~up[s] /\ c2s[s] = <<>>
  /\ server' = [server EXCEPT ![s] = "closing"]
  /\ UNCHANGED <<npVars, owner, up, c2s, s2c>>

\* deregister: the hostnames of the session are free, its ports not yet; the
\* websocket is closed.
ServerEnds(s) ==
  /\ server[s] = "closing"
  /\ server' = [server EXCEPT ![s] = "gone"]
  /\ owner' = [i \in Tunnels |->
                 IF owner[i] = s /\ i \notin TcpTunnels THEN None ELSE owner[i]]
  /\ up' = [up EXCEPT ![s] = FALSE]
  /\ UNCHANGED <<npVars, c2s, s2c>>

\* The last task that holds the Client of an ended session lets it go, and the
\* port closes.  (One that waits for a PortConnected never does.)
PortReleased(s) ==
  /\ server[s] = "gone"
  /\ \E i \in TcpTunnels : owner[i] = s /\ owner' = [owner EXCEPT ![i] = None]
  /\ UNCHANGED <<npVars, server, up, c2s, s2c>>

\* The websocket breaks; of what was in flight only a part arrives.
WsDrop(s) ==
  /\ up[s]
  /\ up' = [up EXCEPT ![s] = FALSE]
  /\ \E n \in 0 .. Len(c2s[s]) : c2s' = [c2s EXCEPT ![s] = SubSeq(@, 1, n)]
  /\ \E n \in 0 .. Len(s2c[s]) : s2c' = [s2c EXCEPT ![s] = SubSeq(@, 1, n)]
  /\ UNCHANGED <<npVars, serverVars>>

-----------------------------------------------------------------------------

RunNext == \/ Connect \/ ConnectFails \/ OpenTunnel \/ OpenFails \/ OpenDone
           \/ Receive \/ RecvFails \/ RecvInvalid \/ Dispatch \/ Dispatched
           \/ StreamOpens

SessionNext(s) == \/ StreamSends(s) \/ HandleOpen(s) \/ HandleData(s)
                  \/ ServerRecvFails(s) \/ ServerEnds(s) \/ PortReleased(s)
                  \/ WsDrop(s)

Next == RunNext \/ \E s \in Sessions : SessionNext(s)

Spec == Init /\ [][Next]_vars

(***************************************************************************)
(* Both programs run on.  Whether connect succeeds is up to the network,   *)
(* but it returns; with an old connection that works it may wait for ever  *)
(* for connection.write(), which a stream that sends holds to read.  The   *)
(* server notices a websocket that has failed.  recv takes the messages in *)
(* their order: no number of requests to dispatch keeps an answer, or the  *)
(* end of the websocket, from its turn.  Nothing makes a local service     *)
(* answer, a full channel empty or a port close: Dispatched and            *)
(* PortReleased are not fair.                                              *)
(***************************************************************************)
Fairness ==
  /\ WF_vars(~Usable /\ (Connect \/ ConnectFails)) /\ WF_vars(OpenTunnel)
  /\ WF_vars(OpenFails) /\ WF_vars(OpenDone)
  /\ SF_vars(Receive) /\ SF_vars(RecvFails)
  /\ \A s \in Sessions : /\ WF_vars(HandleOpen(s)) /\ WF_vars(HandleData(s))
                         /\ WF_vars(ServerRecvFails(s)) /\ WF_vars(ServerEnds(s))

FairSpec == Spec /\ Fairness

-----------------------------------------------------------------------------
(* Properties                                                              *)

\* What the server forwards to np's session np can serve: once HttpOpened is
\* received the forwarding is in np's tables, although they keep entries of
\* earlier sessions, refuse to register those again, and are cleared when a
\* connection fails half way through the tunnels.
ForwardedIsServed ==
  phase \in {"reading", "dispatching"} /\ conn # None => \A i \in Tunnels :
    owner[i] = conn /\ up[conn] =>
      \/ i \in registered
      \/ \E n \in 1 .. Len(s2c[conn]) : s2c[conn][n] = [id |-> i, ok |-> TRUE]

\* np's loop always comes back from what it dispatches.  (The code does not
\* make it so: np/src/dispatch/http.rs and Client::port_message wait without
\* a timeout.  The liveness properties have it as their premise.)
DispatchEnds == []<>(phase # "dispatching")

\* All tunnels are set up on session s, at both ends.
Restored(s) == \A i \in Tunnels : owner[i] = s /\ i \in registered

\* Session s has failed, or np has left it.
Lost(s) == ~up[s] \/ conn # s \/ phase = "connecting"

\* "This assigns my-hostname.nport.io to your HTTP tunnel" (README.md): once
\* np is connected, and back from the loop over the tunnels, each of them is
\* set up, unless the session fails again.
TunnelsRestored == DispatchEnds => \A s \in Sessions :
  (phase = "reading" /\ conn = s) ~> (Restored(s) \/ Lost(s))

\* np has just set up session s; the server has ended all others, and let go
\* of their names.
AloneAndNew(s) == /\ phase = "opening" /\ tunnel = 1 /\ conn = s
                  /\ \A i \in Tunnels : owner[i] = None
                  /\ \A t \in Sessions \ {s} : server[t] \in {"none", "gone"}

\* A connection that np sets up after the server has ended the sessions
\* before it and let go of their names gets all tunnels, whatever np's tables
\* still hold of them and whatever old streams send, unless it fails again.
FreeNamesRestored == DispatchEnds => \A s \in Sessions :
  AloneAndNew(s) ~> (Restored(s) \/ Lost(s))

\* np does not stay without a connection so long as its dispatches end:
\* whatever step of connecting and opening fails, and although the read loop
\* may start without one, it is connected again or gives up.
ComesBack == DispatchEnds =>
  ((phase # "exited" /\ ~Usable)
     ~> (phase = "exited" \/ Usable \/ sessions = MaxSessions))

=============================================================================
