------------------------- MODULE HostnameOwnership --------------------------
(***************************************************************************)
(* What the hostname registry of nport-server promises, without locks or   *)
(* intermediate states: a hostname has at most one owner, it changes hands *)
(* only by being free in between, and a client that has gone owns nothing  *)
(* and never owns anything again.  Registry.tla is shown to implement it.  *)
(***************************************************************************)

CONSTANTS Clients,    \* the Client objects of the server, one per websocket
          Hostnames,  \* the full hostnames that can be forwarded
          NoClient    \* "no client", not a member of Clients: the hostname is free

VARIABLES owner,      \* owner[h]: the client h is forwarded to, or NoClient
          gone        \* the clients that have disconnected

vars == <<owner, gone>>

Init == /\ owner = [h \in Hostnames |-> NoClient]
        /\ gone = {}

\* A connected client takes a free hostname.
Acquire(c, h) == /\ c \notin gone
                 /\ owner[h] = NoClient
                 /\ owner' = [owner EXCEPT ![h] = c]
                 /\ UNCHANGED gone

\* A connected client gives back a hostname of its own.
Release(c, h) == /\ c \notin gone
                 /\ owner[h] = c
                 /\ owner' = [owner EXCEPT ![h] = NoClient]
                 /\ UNCHANGED gone

\* A client disconnects: everything it owned is free at once.
Leave(c) == /\ c \notin gone
            /\ gone' = gone \cup {c}
            /\ owner' = [h \in Hostnames |->
                           IF owner[h] = c THEN NoClient ELSE owner[h]]

Next == \E c \in Clients :
          \/ \E h \in Hostnames : Acquire(c, h) \/ Release(c, h)
          \/ Leave(c)

Spec == Init /\ [][Next]_vars
=============================================================================
