------------------------------- MODULE NpPort -------------------------------
(***************************************************************************)
(* np's half of a TCP port forwarding: the loop of run that receives and   *)
(* dispatches the server's messages (lib.rs, dispatch/), np's Client       *)
(* (client.rs) and one task per forwarded connection (client/port.rs).     *)
(*                                                                         *)
(* np holds its Client for as long as it runs, so the Weak references of   *)
(* its tasks always upgrade and the timeout branch of their select does    *)
(* nothing.  PortOpen has been sent: the model starts with the server      *)
(* handling it.                                                            *)
(***************************************************************************)
EXTENDS Wire

CONSTANTS NpCap,        \* capacity of the channel to a connection's task
          LocalEnds     \* what the local service does by itself: shut down its
                        \*   sending direction, close

ASSUME NpAssumption == /\ NpCap \in Nat \ {0}
                       /\ LocalEnds \subseteq {"shutdown", "close"}

VARIABLES
  npLoop,       \* run: recv, reply, blocked, reconnecting
  npMessage,    \* reply: what to send; blocked: what port_message hands over
  npOpen,       \* Client.port_forwardings has the port
  npWriters,    \* Client.port_writers
  toLocal,      \* the channel of a connection
  ntask,        \* task of a connection: none, run, sending, removing, done
  npOutgoing,   \* sending: the message
  localClosed,  \* the local service sends no more
  localGone,    \* and it reads no more either
  localSent,    \* chunks the local service has sent: 1 .. localSent
  npRead,       \* chunks the connection's task has read
  localGot      \* chunks the local service has received, in order

npVars == <<npLoop, npMessage, npOpen, npWriters, toLocal, ntask, npOutgoing,
            localClosed, localGone, localSent, npRead, localGot>>

npLoopVars == <<npLoop, npMessage, npOpen>>
npTaskVars == <<ntask, npOutgoing, npRead, localGot>>
localVars  == <<localClosed, localGone, localSent>>

NpTypeOK ==
  /\ npLoop \in {"recv", "reply", "blocked", "reconnecting"}
  /\ npLoop = "reply" => npMessage \in ClientMessages
  /\ npLoop = "blocked" => npMessage \in ServerMessages
  /\ npOpen \in BOOLEAN
  /\ npWriters \in SUBSET Users
  /\ \A u \in Users : toLocal[u] \in Seq(0 .. MaxUserData)
  /\ \A u \in Users : Len(toLocal[u]) <= NpCap
  /\ ntask \in [Users -> {"none", "run", "sending", "removing", "done"}]
  /\ localClosed \in [Users -> BOOLEAN] /\ localGone \in [Users -> BOOLEAN]
  /\ localSent \in [Users -> 0 .. MaxLocalData]
  /\ npRead \in [Users -> 0 .. MaxLocalData]
  /\ \A u \in Users : localGot[u] \in Seq(1 .. MaxUserData)

NpInit ==
  /\ npLoop = "recv"
  /\ npMessage = Msg("close", NoUser, 0)
  /\ npOpen = FALSE
  /\ npWriters = {}
  /\ toLocal = [u \in Users |-> <<>>]
  /\ ntask = [u \in Users |-> "none"]
  /\ npOutgoing = [u \in Users |-> Msg("close", u, 0)]
  /\ localClosed = [u \in Users |-> FALSE]
  /\ localGone = [u \in Users |-> FALSE]
  /\ localSent = [u \in Users |-> 0]
  /\ npRead = [u \in Users |-> 0]
  /\ localGot = [u \in Users |-> <<>>]

\* port_writers is read-locked by the port_message that waits for room.
NpWritersLocked == npLoop = "blocked"

-----------------------------------------------------------------------------
(* The loop of run                                                         *)

\* PortOpened: port_register, unless it reports an error.
NpOpened ==
  /\ npLoop = "recv"
  /\ FromServer("opened", NoUser)
  /\ npOpen' = (Head(s2c).n = 1)
  /\ UNCHANGED <<npLoop, npMessage, npWriters, toLocal, npTaskVars, localVars,
                 c2s>>

\* PortConnect: connect to the local service, register the writer and spawn
\* the task; an unknown port or a refused connection is an error.
NpConnect(u) ==
  /\ npLoop = "recv"
  /\ FromServer("connect", u)
  /\ npLoop' = "reply"
  /\ \/ /\ npOpen
        /\ npWriters' = npWriters \cup {u}
        /\ ntask' = [ntask EXCEPT ![u] = "run"]
        /\ npMessage' = Msg("connected", u, 1)
     \/ npMessage' = Msg("connected", u, 0) /\ UNCHANGED <<npWriters, ntask>>
  /\ UNCHANGED <<npOpen, toLocal, npOutgoing, npRead, localGot, localVars, c2s>>

\* ... and answer PortConnected; a failed send is only logged.
NpReply ==
  /\ npLoop = "reply"
  /\ SendToServer(npMessage) \/ (SendFails /\ UNCHANGED c2s)
  /\ npLoop' = "recv"
  /\ UNCHANGED <<npMessage, npOpen, npWriters, toLocal, npTaskVars, localVars,
                 s2c>>

NpHandleMessageTrySend(u) ==
  /\ npLoop = "recv"
  /\ \E k \in {"receive", "close"} : FromServer(k, u)
  /\ toLocal' = [toLocal EXCEPT ![u] =
                   IF u \in npWriters /\ Len(@) < NpCap
                   THEN Append(@, Head(s2c).n) ELSE @]
  /\ UNCHANGED <<npLoopVars, npWriters, npTaskVars, localVars, c2s>>

NpHandleMessageUnbounded(u) ==
  /\ npLoop = "recv"
  /\ \E k \in {"receive", "close"} : FromServer(k, u)
  /\ toLocal' = [toLocal EXCEPT ![u] =
                   IF u \in npWriters THEN Append(@, Head(s2c).n) ELSE @]
  /\ UNCHANGED <<npLoopVars, npWriters, npTaskVars, localVars, c2s>>

\* PortReceive and PortClose: hand the message to the channel of u, wait for
\* room in it, or drop it if u has none.
NpHandleMessage(u) ==
  /\ npLoop = "recv"
  /\ \E k \in {"receive", "close"} : FromServer(k, u)
  /\ \/ u \notin npWriters /\ UNCHANGED <<npLoop, npMessage, toLocal>>
     \/ /\ u \in npWriters /\ Len(toLocal[u]) < NpCap
        /\ toLocal' = [toLocal EXCEPT ![u] = Append(@, Head(s2c).n)]
        /\ UNCHANGED <<npLoop, npMessage>>
     \/ /\ u \in npWriters /\ Len(toLocal[u]) = NpCap
        /\ npLoop' = "blocked"
        /\ npMessage' = Head(s2c)
        /\ UNCHANGED toLocal
  /\ UNCHANGED <<npOpen, npWriters, npTaskVars, localVars, c2s>>

\* The channel has room again.
NpDeliver ==
  /\ npLoop = "blocked"
  /\ LET u == npMessage.user IN
       /\ Len(toLocal[u]) < NpCap
       /\ toLocal' = [toLocal EXCEPT ![u] = Append(@, npMessage.n)]
  /\ npLoop' = "recv"
  /\ UNCHANGED <<npMessage, npOpen, npWriters, npTaskVars, localVars, s2c, c2s>>

\* recv fails: leave the read loop.  What np does next belongs to another
\* websocket; the tasks of this one stay.
NpRecvFails ==
  /\ npLoop = "recv"
  /\ ~wsUp /\ s2c = <<>>
  /\ npLoop' = "reconnecting"
  /\ UNCHANGED <<npMessage, npOpen, npWriters, toLocal, npTaskVars, localVars,
                 s2c, c2s>>

-----------------------------------------------------------------------------
(* The task of a connection                                                *)

\* Branch messages.recv(): write to the local service, break on Close or
\* when the write fails (it may, once the local service reads no more).
NpTaskRecv(u) ==
  /\ ntask[u] = "run" /\ toLocal[u] # <<>>
  /\ toLocal' = [toLocal EXCEPT ![u] = Tail(@)]
  /\ \/ /\ Head(toLocal[u]) # 0
        /\ localGot' = [localGot EXCEPT ![u] =
                          IF localGone[u] THEN @ ELSE Append(@, Head(toLocal[u]))]
        /\ UNCHANGED ntask
     \/ /\ Head(toLocal[u]) = 0 \/ localGone[u]
        /\ ntask' = [ntask EXCEPT ![u] = "removing"]
        /\ UNCHANGED localGot
  /\ UNCHANGED <<npLoopVars, npWriters, npOutgoing, npRead, localVars, s2c, c2s>>

NpTaskReadDropsLast(u) ==
  /\ ntask[u] = "run"
  /\ npRead[u] < localSent[u] \/ localClosed[u]
  /\ ntask' = [ntask EXCEPT ![u] = "sending"]
  /\ npOutgoing' = [npOutgoing EXCEPT ![u] =
                      IF npRead[u] < localSent[u] /\ ~localClosed[u]
                      THEN Msg("receive", u, npRead[u] + 1)
                      ELSE Msg("close", u, 0)]
  /\ npRead' = [npRead EXCEPT ![u] = IF @ < localSent[u] THEN @ + 1 ELSE @]
  /\ UNCHANGED <<npLoopVars, npWriters, toLocal, localGot, localVars, s2c, c2s>>

\* Branch port_reader.read(): data or the end of the stream.  (A read error
\* is logged and the loop goes on.)
NpTaskRead(u) ==
  /\ ntask[u] = "run"
  /\ npRead[u] < localSent[u] \/ localClosed[u]
  /\ ntask' = [ntask EXCEPT ![u] = "sending"]
  /\ npOutgoing' = [npOutgoing EXCEPT ![u] =
                      IF npRead[u] < localSent[u]
                      THEN Msg("receive", u, npRead[u] + 1)
                      ELSE Msg("close", u, 0)]
  /\ npRead' = [npRead EXCEPT ![u] = IF @ < localSent[u] THEN @ + 1 ELSE @]
  /\ UNCHANGED <<npLoopVars, npWriters, toLocal, localGot, localVars, s2c, c2s>>

\* Send it; a failure or a PortClose ends the loop.
NpTaskSend(u) ==
  /\ ntask[u] = "sending"
  /\ \/ /\ SendToServer(npOutgoing[u])
        /\ ntask' = [ntask EXCEPT ![u] =
                       IF npOutgoing[u].kind = "close" THEN "removing" ELSE "run"]
     \/ /\ SendFails
        /\ ntask' = [ntask EXCEPT ![u] = "removing"]
        /\ UNCHANGED c2s
  /\ UNCHANGED <<npLoopVars, npWriters, toLocal, npOutgoing, npRead, localGot,
                 localVars, s2c>>

\* port_writer_remove, then the task ends and the local socket is closed.
NpTaskRemove(u) ==
  /\ ntask[u] = "removing" /\ ~NpWritersLocked
  /\ npWriters' = npWriters \ {u}
  /\ toLocal' = [toLocal EXCEPT ![u] = <<>>]
  /\ ntask' = [ntask EXCEPT ![u] = "done"]
  /\ UNCHANGED <<npLoopVars, npOutgoing, npRead, localGot, localVars, s2c, c2s>>

-----------------------------------------------------------------------------
(* The local service: the environment                                      *)

LocalSend(u) ==
  /\ ntask[u] \in {"run", "sending", "removing"} /\ ~localClosed[u]
  /\ localSent[u] < MaxLocalData
  /\ localSent' = [localSent EXCEPT ![u] = @ + 1]
  /\ UNCHANGED <<npLoopVars, npWriters, toLocal, npTaskVars, localClosed,
                 localGone, s2c, c2s>>

LocalShutdown(u) ==
  /\ "shutdown" \in LocalEnds
  /\ ntask[u] \in {"run", "sending", "removing"} /\ ~localClosed[u]
  /\ localClosed' = [localClosed EXCEPT ![u] = TRUE]
  /\ UNCHANGED <<npLoopVars, npWriters, toLocal, npTaskVars, localGone, localSent,
                 s2c, c2s>>

LocalClose(u) ==
  /\ "close" \in LocalEnds
  /\ ntask[u] \in {"run", "sending", "removing"} /\ ~localGone[u]
  /\ localClosed' = [localClosed EXCEPT ![u] = TRUE]
  /\ localGone' = [localGone EXCEPT ![u] = TRUE]
  /\ UNCHANGED <<npLoopVars, npWriters, toLocal, npTaskVars, localSent, s2c,
                 c2s>>

=============================================================================
