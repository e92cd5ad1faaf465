----------------------------- MODULE PortServer -----------------------------
(***************************************************************************)
(* The server's half of a TCP port forwarding, for one np client and one   *)
(* forwarded port: the task of handle_socket as far as it handles port     *)
(* messages (msghandlers/port.rs, client.rs), the task that accepts        *)
(* connections to the port (port_server.rs server and serve_socket) and    *)
(* one task per forwarded connection (the one serve_socket spawns).        *)
(*                                                                         *)
(* The Client object is reference counted: handle_socket holds it, the     *)
(* accepting task holds it from accept until the connection is registered, *)
(* a connection's task holds it while it sends and while it removes its    *)
(* writer; the others keep a Weak.  When the last reference goes the       *)
(* websocket is closed, the channels of port_writers are closed and the    *)
(* Port's closer fires (PortTunnel closes the websocket).                  *)
(***************************************************************************)
EXTENDS Wire

CONSTANTS ServerCap, \* capacity of the channel to a connection's task
          UserEnds   \* what users do: shut down their sending direction, close,
                     \*   or close so that the server sees a reset

ASSUME ServerAssumption == /\ ServerCap \in Nat \ {0}
                           /\ UserEnds \subseteq {"shutdown", "close", "reset"}

VARIABLES
  handler,     \* handle_socket: open, reply_ok, reply_error, recv, blocked,
               \*   closing, gone
  delivering,  \* blocked: the message port_message waits to hand over
  listener,    \* accepting task: none, accept, sending, awaiting, ended, closed
  current,     \* the connection the accepting task is setting up
  tcpPorts,    \* Stats.tcp_ports
  requests,    \* Client.connect_requests
  response,    \* what a connect request was answered: none, ok, error
  writers,     \* Client.port_writers: the connections that have a channel
  toUser,      \* the channel of a connection
  stask,       \* task of a connection: none, run, sending, removing, done
  outgoing,    \* sending: the message
  conn,        \* the server's socket: idle, backlog, held, closed
  userClosed,  \* the user sends no more: its end of the stream is closed
  userGone,    \* and it reads no more either
  userSent,    \* chunks the user has sent: 1 .. userSent
  serverRead,  \* chunks the connection's task has read
  userGot      \* chunks the user has received, in order

serverVars == <<handler, delivering, listener, current, tcpPorts, requests,
                response, writers, toUser, stask, outgoing, conn, userClosed,
                userGone, userSent, serverRead, userGot>>

handlerVars  == <<handler, delivering>>
listenerVars == <<listener, current, tcpPorts>>
taskVars     == <<stask, outgoing, conn, serverRead, userGot>>
channelVars  == <<requests, response, writers, toUser>>
userVars     == <<userClosed, userGone, userSent>>

ServerTypeOK ==
  /\ handler \in {"open", "reply_ok", "reply_error", "recv", "blocked",
                  "closing", "gone"}
  /\ handler = "blocked" => delivering \in ClientMessages
  /\ listener \in {"none", "accept", "sending", "awaiting", "ended", "closed"}
  /\ current \in Users \cup {NoUser}
  /\ tcpPorts \in Nat
  /\ requests \in SUBSET Users
  /\ response \in [Users -> {"none", "ok", "error"}]
  /\ writers \in SUBSET Users
  /\ \A u \in Users : toUser[u] \in Seq(0 .. MaxLocalData)
  /\ \A u \in Users : Len(toUser[u]) <= ServerCap
  /\ stask \in [Users -> {"none", "run", "sending", "removing", "done"}]
  /\ conn \in [Users -> {"idle", "backlog", "held", "closed"}]
  /\ userClosed \in [Users -> BOOLEAN] /\ userGone \in [Users -> BOOLEAN]
  /\ userSent \in [Users -> 0 .. MaxUserData]
  /\ serverRead \in [Users -> 0 .. MaxUserData]
  /\ \A u \in Users : userGot[u] \in Seq(1 .. MaxLocalData)

ServerInit ==
  /\ handler = "open"
  /\ delivering = Msg("close", NoUser, 0)
  /\ listener = "none"
  /\ current = NoUser
  /\ tcpPorts = 0
  /\ requests = {}
  /\ response = [u \in Users |-> "none"]
  /\ writers = {}
  /\ toUser = [u \in Users |-> <<>>]
  /\ stask = [u \in Users |-> "none"]
  /\ outgoing = [u \in Users |-> Msg("close", u, 0)]
  /\ conn = [u \in Users |-> "idle"]
  /\ userClosed = [u \in Users |-> FALSE]
  /\ userGone = [u \in Users |-> FALSE]
  /\ userSent = [u \in Users |-> 0]
  /\ serverRead = [u \in Users |-> 0]
  /\ userGot = [u \in Users |-> <<>>]

\* A strong reference to the Client exists besides the one of the task of u.
HeldWithout(u) == \/ handler # "gone"
                  \/ listener \in {"sending", "awaiting"}
                  \/ \E v \in Users \ {u} : stask[v] \in {"sending", "removing"}

\* Weak::upgrade succeeds.
ClientAlive == HeldWithout(NoUser)

\* port_writers is read-locked: port_message keeps its read lock while it
\* waits for room in a channel.
WritersLocked == handler = "blocked"

-----------------------------------------------------------------------------
(* handle_socket                                                           *)

\* port::open: bind the port and spawn the accepting task, or fail to bind.
OpenPort ==
  /\ handler = "open"
  /\ \/ /\ handler' = "reply_ok"
        /\ listener' = "accept"
        /\ tcpPorts' = tcpPorts + 1
     \/ handler' = "reply_error" /\ UNCHANGED <<listener, tcpPorts>>
  /\ UNCHANGED <<delivering, current, channelVars, taskVars, userVars, s2c, c2s>>

\* port::open: answer PortOpened.  The port has accepted connections since
\* OpenPort.
OpenReply ==
  /\ handler \in {"reply_ok", "reply_error"}
  /\ \/ /\ SendToNp(Msg("opened", NoUser, IF handler = "reply_ok" THEN 1 ELSE 0))
        /\ handler' = "recv"
     \/ SendFails /\ handler' = "closing" /\ UNCHANGED s2c
  /\ UNCHANGED <<delivering, listenerVars, channelVars, taskVars, userVars, c2s>>

\* port::connected: hand the answer to the accepting task (send_connected_
\* response); NoRequest ends the session.
HandleConnected(u) ==
  /\ handler = "recv"
  /\ FromNp("connected", u)
  /\ requests' = requests \ {u}
  /\ handler' = IF u \in requests THEN "recv" ELSE "closing"
  /\ response' = [response EXCEPT ![u] =
                    IF Head(c2s).n = 1 THEN "ok" ELSE "error"]
  /\ UNCHANGED <<delivering, listenerVars, writers, toUser, taskVars, userVars,
                 s2c>>

HandleMessageAnyWriter(u) ==
  /\ handler = "recv"
  /\ \E k \in {"receive", "close"} : FromNp(k, u)
  /\ \/ writers = {} /\ handler' = "closing" /\ UNCHANGED toUser
     \/ /\ \E v \in writers : /\ Len(toUser[v]) < ServerCap
                              /\ toUser' = [toUser EXCEPT ![v] = Append(@, Head(c2s).n)]
        /\ UNCHANGED handler
  /\ UNCHANGED <<delivering, listenerVars, requests, response, writers,
                 taskVars, userVars, s2c>>

\* port::receive and port::close: hand the message to the channel of u
\* (port_message), wait for room in it, or end the session if u has none.
HandleMessage(u) ==
  /\ handler = "recv"
  /\ \E k \in {"receive", "close"} : FromNp(k, u)
  /\ \/ /\ u \notin writers
        /\ handler' = "closing"
        /\ UNCHANGED <<toUser, delivering>>
     \/ /\ u \in writers /\ Len(toUser[u]) < ServerCap
        /\ toUser' = [toUser EXCEPT ![u] = Append(@, Head(c2s).n)]
        /\ UNCHANGED <<handler, delivering>>
     \/ /\ u \in writers /\ Len(toUser[u]) = ServerCap
        /\ handler' = "blocked"
        /\ delivering' = Head(c2s)
        /\ UNCHANGED toUser
  /\ UNCHANGED <<listenerVars, requests, response, writers, taskVars, userVars,
                 s2c>>

\* The channel has room again.
Deliver ==
  /\ handler = "blocked"
  /\ LET u == delivering.user IN
       /\ Len(toUser[u]) < ServerCap
       /\ toUser' = [toUser EXCEPT ![u] = Append(@, delivering.n)]
  /\ handler' = "recv"
  /\ UNCHANGED <<delivering, listenerVars, requests, response, writers,
                 taskVars, userVars, s2c, c2s>>

RecvFailsContinues ==
  /\ handler = "recv"
  /\ ~wsUp /\ c2s = <<>>
  /\ UNCHANGED <<serverVars, s2c, c2s>>

\* recv fails: the websocket is closed and everything received is handled.
RecvFails ==
  /\ handler = "recv"
  /\ ~wsUp /\ c2s = <<>>
  /\ handler' = "closing"
  /\ UNCHANGED <<delivering, listenerVars, channelVars, taskVars, userVars, s2c,
                 c2s>>

\* handle_socket deregisters the client (module Registry) and drops it.
HandlerEnds ==
  /\ handler = "closing"
  /\ handler' = "gone"
  /\ UNCHANGED <<delivering, listenerVars, channelVars, taskVars, userVars, s2c,
                 c2s>>

-----------------------------------------------------------------------------
(* The accepting task                                                      *)

\* The sockets once the listening socket is closed: who waited in its
\* backlog is refused, and so is u.
Refused(u) == [v \in Users |-> IF v = u \/ conn[v] = "backlog" THEN "closed"
                               ELSE conn[v]]

\* Accept u and register the connect request; break if the client is gone.
Accept(u) ==
  /\ listener = "accept" /\ conn[u] = "backlog"
  /\ \/ /\ ClientAlive
        /\ listener' = "sending"
        /\ current' = u
        /\ requests' = requests \cup {u}
        /\ conn' = [conn EXCEPT ![u] = "held"]
     \/ /\ ~ClientAlive
        /\ listener' = "ended"
        /\ conn' = Refused(u)
        /\ UNCHANGED <<current, requests>>
  /\ UNCHANGED <<tcpPorts, response, writers, toUser, handlerVars, stask,
                 outgoing, serverRead, userGot, userVars, s2c, c2s>>

\* Send PortConnect; break if that fails.
SendConnect ==
  /\ listener = "sending"
  /\ \/ /\ SendToNp(Msg("connect", current, 0))
        /\ listener' = "awaiting"
        /\ UNCHANGED conn
     \/ /\ SendFails
        /\ listener' = "ended"
        /\ conn' = Refused(current)
        /\ UNCHANGED s2c
  /\ UNCHANGED <<current, tcpPorts, channelVars, handlerVars, stask, outgoing,
                 serverRead, userGot, userVars, c2s>>

\* The connect request is answered: register the writer and spawn the task,
\* or drop the connection; accept on.
Connected ==
  /\ listener = "awaiting"
  /\ \/ /\ response[current] = "ok" /\ ~WritersLocked
        /\ writers' = writers \cup {current}
        /\ stask' = [stask EXCEPT ![current] = "run"]
        /\ UNCHANGED conn
     \/ /\ response[current] = "error"
        /\ conn' = [conn EXCEPT ![current] = "closed"]
        /\ UNCHANGED <<writers, stask>>
  /\ listener' = "accept"
  /\ UNCHANGED <<current, tcpPorts, requests, response, toUser, handlerVars,
                 outgoing, serverRead, userGot, userVars, s2c, c2s>>

PortNeverDropped ==
  /\ FALSE
  /\ UNCHANGED <<serverVars, s2c, c2s>>

\* The Port was dropped with the Client: close the port and uncount it.
CloserFires ==
  /\ listener = "accept" /\ ~ClientAlive
  /\ listener' = "closed"
  /\ tcpPorts' = tcpPorts - 1
  /\ conn' = Refused(NoUser)
  /\ UNCHANGED <<current, channelVars, handlerVars, stask, outgoing, serverRead,
                 userGot, userVars, s2c, c2s>>

-----------------------------------------------------------------------------
(* The task of a connection                                                *)

\* After the loop: take a reference to remove the writer, or end at once if
\* the client is gone.
Break(u) == /\ stask' = [stask EXCEPT ![u] = IF HeldWithout(u) THEN "removing"
                                             ELSE "done"]
            /\ conn' = [conn EXCEPT ![u] = IF HeldWithout(u) THEN @ ELSE "closed"]

TakesLatest(u) ==
  /\ stask[u] = "run" /\ toUser[u] # <<>>
  /\ toUser' = [toUser EXCEPT ![u] = SubSeq(@, 1, Len(@) - 1)]
  /\ LET n == toUser[u][Len(toUser[u])] IN
       \/ /\ n # 0
          /\ userGot' = [userGot EXCEPT ![u] =
                           IF userGone[u] THEN @ ELSE Append(@, n)]
          /\ UNCHANGED <<stask, conn>>
       \/ /\ n = 0 \/ userGone[u]
          /\ Break(u)
          /\ UNCHANGED userGot
  /\ UNCHANGED <<requests, response, writers, handlerVars, listenerVars,
                 outgoing, serverRead, userVars, s2c, c2s>>

\* Branch messages_reader.recv(): write the data to the user, break on Close
\* or when the write fails (it may, once the user reads no more).
TaskRecv(u) ==
  /\ stask[u] = "run" /\ toUser[u] # <<>>
  /\ toUser' = [toUser EXCEPT ![u] = Tail(@)]
  /\ \/ /\ Head(toUser[u]) # 0
        /\ userGot' = [userGot EXCEPT ![u] =
                         IF userGone[u] THEN @ ELSE Append(@, Head(toUser[u]))]
        /\ UNCHANGED <<stask, conn>>
     \/ /\ Head(toUser[u]) = 0 \/ userGone[u]
        /\ Break(u)
        /\ UNCHANGED userGot
  /\ UNCHANGED <<requests, response, writers, handlerVars, listenerVars,
                 outgoing, serverRead, userVars, s2c, c2s>>

ReadsOnlyWhileAlive(u) ==
  /\ ClientAlive /\ stask[u] = "run"
  /\ serverRead[u] < userSent[u] \/ userClosed[u]
  /\ serverRead' = [serverRead EXCEPT ![u] = IF @ < userSent[u] THEN @ + 1 ELSE @]
  /\ stask' = [stask EXCEPT ![u] = "sending"]
  /\ outgoing' = [outgoing EXCEPT ![u] = IF serverRead[u] < userSent[u]
                                         THEN Msg("receive", u, serverRead[u] + 1)
                                         ELSE Msg("close", u, 0)]
  /\ UNCHANGED <<conn, channelVars, handlerVars, listenerVars, userGot, userVars,
                 s2c, c2s>>

\* Branch port_reader.read(): data or the end of the stream; forward it, or
\* break if the client is gone.  (The end of what a user sends ends the task,
\* whether or not the user still reads.)
TaskRead(u) ==
  /\ stask[u] = "run"
  /\ serverRead[u] < userSent[u] \/ userClosed[u]
  /\ serverRead' = [serverRead EXCEPT ![u] = IF @ < userSent[u] THEN @ + 1 ELSE @]
  /\ \/ /\ ClientAlive
        /\ stask' = [stask EXCEPT ![u] = "sending"]
        /\ outgoing' = [outgoing EXCEPT ![u] =
                          IF serverRead[u] < userSent[u]
                          THEN Msg("receive", u, serverRead[u] + 1)
                          ELSE Msg("close", u, 0)]
        /\ UNCHANGED conn
     \/ ~ClientAlive /\ Break(u) /\ UNCHANGED outgoing
  /\ UNCHANGED <<channelVars, handlerVars, listenerVars, userGot, userVars, s2c,
                 c2s>>

\* Branch port_reader.read() with an error: break, np is not told.
TaskReadFails(u) ==
  /\ "reset" \in UserEnds /\ stask[u] = "run" /\ userGone[u]
  /\ Break(u)
  /\ UNCHANGED <<outgoing, channelVars, handlerVars, listenerVars, serverRead,
                 userGot, userVars, s2c, c2s>>

\* Send it; a failure is only logged.  A PortClose ends the loop.
TaskSend(u) ==
  /\ stask[u] = "sending"
  /\ SendToNp(outgoing[u]) \/ (SendFails /\ UNCHANGED s2c)
  /\ \/ /\ outgoing[u].kind = "receive"
        /\ stask' = [stask EXCEPT ![u] = "run"]
        /\ UNCHANGED conn
     \/ outgoing[u].kind = "close" /\ Break(u)
  /\ UNCHANGED <<outgoing, channelVars, handlerVars, listenerVars, serverRead,
                 userGot, userVars, c2s>>

\* port_writer_remove, then the task ends and its socket is closed.
TaskRemove(u) ==
  /\ stask[u] = "removing" /\ ~WritersLocked
  /\ writers' = writers \ {u}
  /\ toUser' = [toUser EXCEPT ![u] = <<>>]
  /\ stask' = [stask EXCEPT ![u] = "done"]
  /\ conn' = [conn EXCEPT ![u] = "closed"]
  /\ UNCHANGED <<requests, response, handlerVars, listenerVars, outgoing,
                 serverRead, userGot, userVars, s2c, c2s>>

\* Branch timeout(50ms): nothing, unless the client is gone.
TaskTimeout(u) ==
  /\ stask[u] = "run" /\ ~ClientAlive
  /\ stask' = [stask EXCEPT ![u] = "done"]
  /\ conn' = [conn EXCEPT ![u] = "closed"]
  /\ UNCHANGED <<outgoing, serverRead, userGot, channelVars, handlerVars,
                 listenerVars, userVars, s2c, c2s>>

-----------------------------------------------------------------------------
(* Users                                                                   *)

\* A user connects to the port, sends, closes: the environment.
UserConnect(u) ==
  /\ conn[u] = "idle"
  /\ listener \in {"accept", "sending", "awaiting"}
  /\ conn' = [conn EXCEPT ![u] = "backlog"]
  /\ UNCHANGED <<handlerVars, listenerVars, channelVars, stask, outgoing,
                 serverRead, userGot, userVars, s2c, c2s>>

UserSend(u) ==
  /\ conn[u] \in {"backlog", "held"} /\ ~userClosed[u]
  /\ userSent[u] < MaxUserData
  /\ userSent' = [userSent EXCEPT ![u] = @ + 1]
  /\ UNCHANGED <<handlerVars, listenerVars, channelVars, taskVars, userClosed,
                 userGone, s2c, c2s>>

\* shutdown of the user's sending direction: it goes on reading.
UserShutdown(u) ==
  /\ "shutdown" \in UserEnds
  /\ conn[u] \in {"backlog", "held"} /\ ~userClosed[u]
  /\ userClosed' = [userClosed EXCEPT ![u] = TRUE]
  /\ UNCHANGED <<handlerVars, listenerVars, channelVars, taskVars, userGone,
                 userSent, s2c, c2s>>

UserClose(u) ==
  /\ UserEnds \cap {"close", "reset"} # {}
  /\ conn[u] \in {"backlog", "held"} /\ ~userGone[u]
  /\ userClosed' = [userClosed EXCEPT ![u] = TRUE]
  /\ userGone' = [userGone EXCEPT ![u] = TRUE]
  /\ UNCHANGED <<handlerVars, listenerVars, channelVars, taskVars, userSent,
                 s2c, c2s>>

=============================================================================
