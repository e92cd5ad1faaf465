-------------------------------- MODULE Wire --------------------------------
(***************************************************************************)
(* The websocket between nport-server and one np client, as both use it:   *)
(* one FIFO per direction, bounded by what the network and the two sinks   *)
(* buffer (a send waits while its direction is full), and a flag that says *)
(* whether it still works.  A message is what libnp's payloads tell apart  *)
(* for port forwarding: its kind, the uuid of the forwarded connection     *)
(* (a member of Users: one uuid per accepted connection) and a number,     *)
(* which stands for the data of a PortReceive and for "no error" (1) or    *)
(* "error" (0) in a PortOpened or PortConnected.                           *)
(***************************************************************************)
EXTENDS Integers, Sequences, FiniteSets

CONSTANTS Users,        \* TCP connections users make to the forwarded port
          NoUser,       \* the uuid of messages that have none
          MaxUserData,  \* bound: chunks a user sends on a connection
          MaxLocalData, \* bound: chunks the local service sends
          WsCap         \* bound: messages in flight in one direction

ASSUME WireAssumption == /\ NoUser \notin Users
                         /\ MaxUserData \in Nat
                         /\ MaxLocalData \in Nat
                         /\ WsCap \in Nat \ {0}

VARIABLES s2c,   \* messages from the server to np
          c2s,   \* messages from np to the server
          wsUp   \* neither end nor the network has closed the websocket

Max(a, b) == IF a > b THEN a ELSE b

Data == 1 .. Max(1, Max(MaxUserData, MaxLocalData))

ServerMessages == [kind : {"opened"}, user : {NoUser}, n : 0 .. 1]
                    \cup [kind : {"connect", "close"}, user : Users, n : {0}]
                    \cup [kind : {"receive"}, user : Users, n : Data]

ClientMessages == [kind : {"connected"}, user : Users, n : 0 .. 1]
                    \cup [kind : {"close"}, user : Users, n : {0}]
                    \cup [kind : {"receive"}, user : Users, n : Data]

Msg(kind, user, n) == [kind |-> kind, user |-> user, n |-> n]

WireTypeOK == /\ s2c \in Seq(ServerMessages) /\ Len(s2c) <= WsCap
              /\ c2s \in Seq(ClientMessages) /\ Len(c2s) <= WsCap
              /\ wsUp \in BOOLEAN

WireInit == s2c = <<>> /\ c2s = <<>> /\ wsUp = TRUE

\* Client::send of the server, and of np.  On a broken websocket the send
\* returns an error (SendFails); on a full one it waits.
SendToNp(m) == wsUp /\ Len(s2c) < WsCap /\ s2c' = Append(s2c, m)

SendToServer(m) == wsUp /\ Len(c2s) < WsCap /\ c2s' = Append(c2s, m)

SendFails == ~wsUp

\* The next message of the server is of kind k, for user u; take it.
FromServer(k, u) == /\ s2c # <<>>
                    /\ Head(s2c).kind = k /\ Head(s2c).user = u
                    /\ s2c' = Tail(s2c)

FromNp(k, u) == /\ c2s # <<>>
                /\ Head(c2s).kind = k /\ Head(c2s).user = u
                /\ c2s' = Tail(c2s)
=============================================================================
