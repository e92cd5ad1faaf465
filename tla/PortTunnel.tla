----------------------------- MODULE PortTunnel -----------------------------
(***************************************************************************)
(* A TCP port forwarding end to end: users, nport-server (PortServer), the *)
(* websocket (Wire), np and the local service (NpPort).                    *)
(***************************************************************************)
EXTENDS PortServer, NpPort

CONSTANT WsDrops   \* the network, or the end of np, breaks the websocket

ASSUME TunnelAssumption == WsDrops \in BOOLEAN

vars == <<serverVars, npVars, s2c, c2s, wsUp>>

TypeOK == WireTypeOK /\ ServerTypeOK /\ NpTypeOK

Init == WireInit /\ ServerInit /\ NpInit

\* The rest of a step of the server: np does nothing, and the websocket is
\* closed if the step drops the last reference to the Client.
ServerFrame == wsUp' = (wsUp /\ ClientAlive') /\ UNCHANGED npVars

\* The rest of a step of np.
NpFrame == UNCHANGED <<serverVars, wsUp>>

\* The websocket breaks; of what was in flight only a part arrives.
WsDrop == /\ WsDrops /\ wsUp
          /\ wsUp' = FALSE
          /\ \E i \in 0 .. Len(s2c) : s2c' = SubSeq(s2c, 1, i)
          /\ \E i \in 0 .. Len(c2s) : c2s' = SubSeq(c2s, 1, i)
          /\ UNCHANGED <<serverVars, npVars>>

Next == \/ OpenPort /\ ServerFrame
        \/ OpenReply /\ ServerFrame
        \/ Deliver /\ ServerFrame
        \/ RecvFails /\ ServerFrame
        \/ HandlerEnds /\ ServerFrame
        \/ SendConnect /\ ServerFrame
        \/ Connected /\ ServerFrame
        \/ CloserFires /\ ServerFrame
        \/ NpOpened /\ NpFrame
        \/ NpReply /\ NpFrame
        \/ NpDeliver /\ NpFrame
        \/ NpRecvFails /\ NpFrame
        \/ WsDrop
        \/ \E u \in Users : HandleConnected(u) /\ ServerFrame
        \/ \E u \in Users : HandleMessage(u) /\ ServerFrame
        \/ \E u \in Users : Accept(u) /\ ServerFrame
        \/ \E u \in Users : TaskRecv(u) /\ ServerFrame
        \/ \E u \in Users : TaskRead(u) /\ ServerFrame
        \/ \E u \in Users : TaskReadFails(u) /\ ServerFrame
        \/ \E u \in Users : TaskSend(u) /\ ServerFrame
        \/ \E u \in Users : TaskRemove(u) /\ ServerFrame
        \/ \E u \in Users : TaskTimeout(u) /\ ServerFrame
        \/ \E u \in Users : UserConnect(u) /\ ServerFrame
        \/ \E u \in Users : UserSend(u) /\ ServerFrame
        \/ \E u \in Users : UserShutdown(u) /\ ServerFrame
        \/ \E u \in Users : UserClose(u) /\ ServerFrame
        \/ \E u \in Users : NpConnect(u) /\ NpFrame
        \/ \E u \in Users : NpHandleMessage(u) /\ NpFrame
        \/ \E u \in Users : NpTaskRecv(u) /\ NpFrame
        \/ \E u \in Users : NpTaskRead(u) /\ NpFrame
        \/ \E u \in Users : NpTaskSend(u) /\ NpFrame
        \/ \E u \in Users : NpTaskRemove(u) /\ NpFrame
        \/ \E u \in Users : LocalSend(u) /\ NpFrame
        \/ \E u \in Users : LocalShutdown(u) /\ NpFrame
        \/ \E u \in Users : LocalClose(u) /\ NpFrame

Spec == Init /\ [][Next]_vars

\* A step of handle_socket, and of np's loop over the messages.
HandlerStep == \/ OpenPort \/ OpenReply \/ Deliver \/ RecvFails \/ HandlerEnds
               \/ \E u \in Users : HandleConnected(u) \/ HandleMessage(u)

NpLoopStep == \/ NpOpened \/ NpReply \/ NpDeliver \/ NpRecvFails
              \/ \E u \in Users : NpConnect(u) \/ NpHandleMessage(u)

(***************************************************************************)
(* tokio runs every task that can go on, and select! picks among its ready *)
(* branches at random, so each task, and each branch of a select!, of the  *)
(* server and of np is weakly fair.  Two things are not: the timeout       *)
(* branch of a connection's task (once the client is released its channel  *)
(* is closed, recv is ready with None in every round, and each round       *)
(* starts the 50 ms afresh), and everything users, the local service and   *)
(* the network do.  (But the sockets take what is written to them: a user  *)
(* or a local service that reads at all reads on, as TaskRecv and          *)
(* NpTaskRecv say.)                                                        *)
(***************************************************************************)
Fairness ==
  /\ WF_vars(HandlerStep /\ ServerFrame)
  /\ WF_vars((SendConnect \/ Connected) /\ ServerFrame)
  /\ WF_vars(CloserFires /\ ServerFrame)
  /\ WF_vars(NpLoopStep /\ NpFrame)
  /\ \A u \in Users :
       /\ WF_vars(Accept(u) /\ ServerFrame)
       /\ WF_vars(TaskRecv(u) /\ ServerFrame) /\ WF_vars(TaskRead(u) /\ ServerFrame)
       /\ WF_vars((TaskSend(u) \/ TaskRemove(u)) /\ ServerFrame)
       /\ WF_vars(NpTaskRecv(u) /\ NpFrame) /\ WF_vars(NpTaskRead(u) /\ NpFrame)
       /\ WF_vars((NpTaskSend(u) \/ NpTaskRemove(u)) /\ NpFrame)

FairSpec == Spec /\ Fairness

-----------------------------------------------------------------------------
(* Safety                                                                  *)

IsRun(s) == \A i \in 1 .. Len(s) : s[i] = i

\* Both ends receive what the other sent, in order, without gaps and without
\* the data of another connection, whatever tasks, queues and locks do.
DataInOrder == \A u \in Users : /\ IsRun(userGot[u])
                                /\ Len(userGot[u]) <= localSent[u]
                                /\ IsRun(localGot[u])
                                /\ Len(localGot[u]) <= userSent[u]

\* While the websocket works, a connection is closed towards one end only
\* after everything the other end sent before closing has been delivered.
NoTruncation == wsUp => \A u \in Users :
  /\ (stask[u] = "done" /\ ~userClosed[u]) =>
       localClosed[u] /\ Len(userGot[u]) = localSent[u]
  /\ (ntask[u] = "done" /\ ~localClosed[u]) =>
       userClosed[u] /\ Len(localGot[u]) = userSent[u]

\* The session of np ends only with its websocket, never because data and a
\* close, or data and the connection's set-up, crossed: "Ensure we're
\* connected again" (tests/integration.rs), through the same client, after a
\* first connection was closed.
SessionSurvives == ~WsDrops => handler \notin {"closing", "gone"}

-----------------------------------------------------------------------------
(* Liveness                                                                *)

\* Once the Client is released the port is closed, whichever of a pending
\* connection and the closer the accepting task sees first.
ReleasedPortCloses ==
  ~ClientAlive ~> listener \in {"none", "ended", "closed"}

\* "Dropping the client should close the remote TCP port"
\* (tests/integration.rs).
DisconnectClosesPort == ~wsUp ~> listener \in {"none", "ended", "closed"}

\* What a user has sent reaches a local service that reads, unless the user
\* leaves or the session ends: the long payload of tests/integration.rs
\* arrives in full, whatever the other direction and other connections do.
UserDataArrives == \A u \in Users :
  (ntask[u] = "run" /\ userSent[u] = MaxUserData)
    ~> \/ Len(localGot[u]) = MaxUserData
       \/ userGone[u] \/ localClosed[u]
       \/ ~wsUp \/ handler = "gone"

(***************************************************************************)
(* Neither loop waits for ever for room in the channel of a connection,    *)
(* and no task keeps the websocket of a session that has ended.  The code  *)
(* guarantees neither (UserDataArrives and DisconnectClosesPort are        *)
(* violated where it fails); the properties below say that nothing else    *)
(* stands in their way.                                                    *)
(***************************************************************************)
Flowing == /\ []<>(handler # "blocked") /\ []<>(npLoop # "blocked")
           /\ []<>~(handler = "gone" /\ wsUp)

\* What a user has sent reaches the local service of its own connection, past
\* full channels, a full websocket, locks and the other connections.
FlowingDataArrives == Flowing => \A u \in Users :
  (ntask[u] = "run" /\ userSent[u] = MaxUserData)
    ~> \/ Len(localGot[u]) = MaxUserData
       \/ userGone[u] \/ localClosed[u] \/ ~wsUp

\* handle_socket notices a broken websocket and deregisters the client,
\* whatever it still has to hand over.
FlowingSessionEnds == Flowing => (~wsUp ~> handler = "gone")

\* When a user has closed, or only sends no more, the task of the connection
\* ends and its socket is given back, also after the Client was released: its
\* timeout then starves and only the socket still wakes it.
ClosedConnectionsEnd == Flowing => \A u \in Users :
  userClosed[u] ~> stask[u] \in {"none", "done"}

=============================================================================
