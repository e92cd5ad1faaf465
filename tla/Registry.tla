------------------------------ MODULE Registry ------------------------------
(***************************************************************************)
(* The client registry of nport-server (server/registry.rs), driven by the *)
(* task that serves each websocket (handlers/websockets.rs handle_socket,  *)
(* msghandlers/http.rs open and close) and read by the HTTP forwarding     *)
(* tasks (get_by_http_hostname).                                           *)
(*                                                                         *)
(* Every lock of the registry is a tokio RwLock taken for one statement,   *)
(* except that deregister keeps the write lock of `clients' while it waits *)
(* for the one of `claimed_http_hostnames', and that a lookup keeps the    *)
(* read lock of `clients' for its whole scan.  A step of this module is    *)
(* what happens under one acquisition; between two steps of a task every   *)
(* other task may run.                                                     *)
(*                                                                         *)
(* Abstractions: the Vec of clients is a set (position and swap_remove     *)
(* only matter through membership) that a scan visits in any order; a      *)
(* member of Clients is one Client object, so a reconnecting np is another *)
(* member; hostname validation is in module Naming; here every member of   *)
(* the constant Hostnames is acceptable.                                   *)
(***************************************************************************)
EXTENDS Integers, FiniteSets

CONSTANTS Clients,     \* Client objects, one per accepted websocket
          Hostnames,   \* full hostnames a client may ask for
          Lookups,     \* HTTP forwarding tasks that look a hostname up
          NoClient,    \* the result None of a lookup
          SendWelcome  \* Options.send_welcome_message

ASSUME RegistryAssumption == /\ NoClient \notin Clients
                             /\ IsFiniteSet(Clients)
                             /\ IsFiniteSet(Hostnames)
                             /\ Hostnames # {}
                             /\ SendWelcome \in BOOLEAN

VARIABLES
  claimed,        \* Registry.claimed_http_hostnames
  clients,        \* Registry.clients
  hostnames,      \* Client.hostnames of every client
  task,           \* where the handle_socket task of a client stands
  subject,        \* the hostname of the request that task is handling
  reply,          \* the last HttpOpened or HttpClosed sent to the client
  connections,    \* Stats.client_connections
  httpHostnames,  \* Stats.http_hostnames
  scan,           \* the lookups: "idle", "scanning" or "done"
  target,         \* the hostname a lookup looks for
  todo,           \* the clients its scan has not visited
  found,          \* what it returned
  seen            \* history: the owners target had during the scan

stats == <<connections, httpHostnames>>
tables == <<claimed, clients, hostnames, task, subject, reply>>
lookups == <<scan, target, todo, found>>
vars == <<tables, stats, lookups, seen>>

-----------------------------------------------------------------------------
(* State of the tasks                                                      *)

(***************************************************************************)
(*   new          the websocket is not accepted yet                        *)
(*   welcome      registered, about to send the welcome message            *)
(*   serving      waiting for the next message of the client               *)
(*   claiming     subject inserted in claimed, not yet in hostnames        *)
(*   opened       subject inserted in hostnames, about to count and reply  *)
(*   releasing    subject removed from hostnames, still in claimed         *)
(*   released     subject removed from claimed, about to count and reply   *)
(*   closing      left the message loop, about to deregister               *)
(*   unclaiming   in deregister, out of clients, holding their write lock  *)
(*   deregistered deregister returned, about to decrement the counter      *)
(*   gone         the task has ended                                       *)
(*   abandoned    the task has ended because the welcome could not be sent *)
(***************************************************************************)
TaskStates == {"new", "welcome", "serving", "claiming", "opened", "releasing",
               "released", "closing", "unclaiming", "deregistered", "gone",
               "abandoned"}

Replies == {"none", "opened", "in_use", "closed", "not_registered"}

Owners == Clients \cup {NoClient}

(***************************************************************************)
(* Type invariant.  That the two counters (an AtomicI64 in stats.rs) stay  *)
(* non-negative is part of it: every decrement follows its own increment.  *)
(***************************************************************************)
TypeOK == /\ claimed \in SUBSET Hostnames
          /\ clients \in SUBSET Clients
          /\ hostnames \in [Clients -> SUBSET Hostnames]
          /\ task \in [Clients -> TaskStates]
          /\ subject \in [Clients -> Hostnames]
          /\ reply \in [Clients -> Replies]
          /\ connections \in Nat
          /\ httpHostnames \in Nat
          /\ scan \in [Lookups -> {"idle", "scanning", "done"}]
          /\ target \in [Lookups -> Hostnames]
          /\ todo \in [Lookups -> SUBSET Clients]
          /\ found \in [Lookups -> Owners]
          /\ seen \in [Lookups -> SUBSET Owners]

-----------------------------------------------------------------------------
(* Locks and lookups                                                       *)

\* The client of cs that has h in its hostnames hs, or NoClient.
OwnerIn(cs, hs, h) == IF \E c \in cs : h \in hs[c]
                      THEN CHOOSE c \in cs : h \in hs[c]
                      ELSE NoClient

\* The registered client h is forwarded to: the one a scan would find.
OwnerOf(h) == OwnerIn(clients, hostnames, h)

\* Some task is in deregister between its two locks: it writes `clients'.
ClientsWriteLocked == \E c \in Clients : task[c] = "unclaiming"

\* Some lookup is in the middle of its scan: it reads `clients'.
ClientsReadLocked == \E l \in Lookups : scan[l] = "scanning"

\* History: a scan under way sees the owner its hostname has after the step.
Observe == seen' = [l \in Lookups |->
                      IF scan'[l] # "scanning" THEN seen[l]
                      ELSE (IF scan[l] = "scanning" THEN seen[l] ELSE {})
                             \cup {OwnerIn(clients', hostnames', target'[l])}]

Init == /\ claimed = {}
        /\ clients = {}
        /\ hostnames = [c \in Clients |-> {}]
        /\ task = [c \in Clients |-> "new"]
        /\ subject = [c \in Clients |-> CHOOSE h \in Hostnames : TRUE]
        /\ reply = [c \in Clients |-> "none"]
        /\ connections = 0
        /\ httpHostnames = 0
        /\ scan = [l \in Lookups |-> "idle"]
        /\ target = [l \in Lookups |-> CHOOSE h \in Hostnames : TRUE]
        /\ todo = [l \in Lookups |-> {}]
        /\ found = [l \in Lookups |-> NoClient]
        /\ seen = [l \in Lookups |-> {}]

\* The task of c goes on at s.
Goto(c, s) == task' = [task EXCEPT ![c] = s]

\* The task of c, standing at s, goes on at t.
Step(c, s, t) == task[c] = s /\ Goto(c, t)

\* The task of c answers r: it serves on, or leaves if the send fails.
Answer(c, r) == \/ reply' = [reply EXCEPT ![c] = r] /\ Goto(c, "serving")
                \/ UNCHANGED reply /\ Goto(c, "closing")

-----------------------------------------------------------------------------
(* handle_socket: start                                                    *)

\* register: push the client on `clients' under its write lock.
Register(c) ==
  /\ Step(c, "new", "welcome")
  /\ ~ClientsWriteLocked /\ ~ClientsReadLocked
  /\ clients' = clients \cup {c}
  /\ UNCHANGED <<claimed, hostnames, subject, reply, stats, lookups>> /\ Observe

\* send_welcome returns Ok (it sends nothing unless SendWelcome).
Welcome(c) ==
  /\ Step(c, "welcome", "serving")
  /\ connections' = connections + 1
  /\ UNCHANGED <<claimed, clients, hostnames, subject, reply, httpHostnames,
                 lookups>> /\ Observe

WelcomeFailsUncounting(c) ==
  /\ SendWelcome /\ Step(c, "welcome", "abandoned")
  /\ connections' = connections - 1
  /\ UNCHANGED <<claimed, clients, hostnames, subject, reply, httpHostnames,
                 lookups>> /\ Observe

\* send_welcome returns an error: handle_socket returns and nothing undoes
\* the registration, so c stays in `clients' for ever.
WelcomeFails(c) ==
  /\ SendWelcome /\ Step(c, "welcome", "abandoned")
  /\ UNCHANGED <<claimed, clients, hostnames, subject, reply, stats,
                 lookups>> /\ Observe

-----------------------------------------------------------------------------
(* HttpOpen                                                                *)

HttpOpenClaimUnchecked(c, h) ==
  /\ Step(c, "serving", "claiming")
  /\ claimed' = claimed \cup {h}
  /\ subject' = [subject EXCEPT ![c] = h]
  /\ UNCHANGED <<clients, hostnames, reply, stats, lookups>> /\ Observe

\* claim_http_hostname, first half: insert h in claimed_http_hostnames.
HttpOpenClaim(c, h) ==
  /\ Step(c, "serving", "claiming")
  /\ h \notin claimed
  /\ claimed' = claimed \cup {h}
  /\ subject' = [subject EXCEPT ![c] = h]
  /\ UNCHANGED <<clients, hostnames, reply, stats, lookups>> /\ Observe

HttpOpenInUseIgnored(c, h) ==
  /\ task[c] = "serving"
  /\ h \in claimed
  /\ subject' = [subject EXCEPT ![c] = h]
  /\ Answer(c, "opened")
  /\ UNCHANGED <<claimed, clients, hostnames, stats, lookups>> /\ Observe

\* claim_http_hostname returns false: answer InUse.
HttpOpenInUse(c, h) ==
  /\ task[c] = "serving"
  /\ h \in claimed
  /\ subject' = [subject EXCEPT ![c] = h]
  /\ Answer(c, "in_use")
  /\ UNCHANGED <<claimed, clients, hostnames, stats, lookups>> /\ Observe

\* claim_http_hostname, second half: add_http_hostname.
ClaimAdd(c) ==
  /\ Step(c, "claiming", "opened")
  /\ hostnames' = [hostnames EXCEPT ![c] = @ \cup {subject[c]}]
  /\ UNCHANGED <<claimed, clients, subject, reply, stats, lookups>> /\ Observe

\* Count the hostname and answer HttpOpened.
Opened(c) ==
  /\ task[c] = "opened"
  /\ httpHostnames' = httpHostnames + 1
  /\ Answer(c, "opened")
  /\ UNCHANGED <<claimed, clients, hostnames, subject, connections, lookups>>
  /\ Observe

-----------------------------------------------------------------------------
(* HttpClose                                                               *)

\* release_http_hostname, first half: remove_http_hostname.
HttpCloseRemove(c, h) ==
  /\ Step(c, "serving", "releasing")
  /\ h \in hostnames[c]
  /\ hostnames' = [hostnames EXCEPT ![c] = @ \ {h}]
  /\ subject' = [subject EXCEPT ![c] = h]
  /\ UNCHANGED <<claimed, clients, reply, stats, lookups>> /\ Observe

\* release_http_hostname returns false: answer NotRegistered.
HttpCloseNotRegistered(c, h) ==
  /\ task[c] = "serving"
  /\ h \notin hostnames[c]
  /\ subject' = [subject EXCEPT ![c] = h]
  /\ Answer(c, "not_registered")
  /\ UNCHANGED <<claimed, clients, hostnames, stats, lookups>> /\ Observe

CloseUnclaimForgotten(c) ==
  /\ Step(c, "releasing", "released")
  /\ UNCHANGED <<claimed, clients, hostnames, subject, reply, stats,
                 lookups>> /\ Observe

\* release_http_hostname, second half: remove h from claimed_http_hostnames.
CloseUnclaim(c) ==
  /\ Step(c, "releasing", "released")
  /\ claimed' = claimed \ {subject[c]}
  /\ UNCHANGED <<clients, hostnames, subject, reply, stats, lookups>> /\ Observe

\* Uncount the hostname and answer HttpClosed.
Closed(c) ==
  /\ task[c] = "released"
  /\ httpHostnames' = httpHostnames - 1
  /\ Answer(c, "closed")
  /\ UNCHANGED <<claimed, clients, hostnames, subject, connections, lookups>>
  /\ Observe

-----------------------------------------------------------------------------
(* handle_socket: end                                                      *)

\* recv or another handler fails: the task leaves its message loop.
Disconnect(c) ==
  /\ Step(c, "serving", "closing")
  /\ UNCHANGED <<claimed, clients, hostnames, subject, reply, stats,
                 lookups>> /\ Observe

DeregisterUnclaimsFirst(c) ==
  /\ Step(c, "closing", "unclaiming")
  /\ ~ClientsWriteLocked /\ ~ClientsReadLocked
  /\ claimed' = claimed \ hostnames[c]
  /\ UNCHANGED <<clients, hostnames, subject, reply, stats, lookups>> /\ Observe

\* deregister, first half: take the write lock of `clients', remove c.  (The
\* branch where `position' does not find c is never taken: LifeCycle in
\* RegistryProofs.)
DeregisterRemove(c) ==
  /\ Step(c, "closing", "unclaiming")
  /\ ~ClientsWriteLocked /\ ~ClientsReadLocked
  /\ c \in clients
  /\ clients' = clients \ {c}
  /\ UNCHANGED <<claimed, hostnames, subject, reply, stats, lookups>> /\ Observe

DeregisterUnclaimRelocks(c) ==
  /\ Step(c, "unclaiming", "deregistered")
  /\ ~ClientsWriteLocked
  /\ claimed' = claimed \ hostnames[c]
  /\ UNCHANGED <<clients, hostnames, subject, reply, stats, lookups>> /\ Observe

\* deregister, second half: unclaim what c had, then drop both locks.  The
\* counter of HTTP hostnames is left alone.
DeregisterUnclaim(c) ==
  /\ Step(c, "unclaiming", "deregistered")
  /\ claimed' = claimed \ hostnames[c]
  /\ UNCHANGED <<clients, hostnames, subject, reply, stats, lookups>> /\ Observe

DisconnectedUncounted(c) ==
  /\ Step(c, "deregistered", "gone")
  /\ UNCHANGED <<claimed, clients, hostnames, subject, reply, stats,
                 lookups>> /\ Observe

\* handle_socket ends.
Disconnected(c) ==
  /\ Step(c, "deregistered", "gone")
  /\ connections' = connections - 1
  /\ UNCHANGED <<claimed, clients, hostnames, subject, reply, httpHostnames,
                 lookups>> /\ Observe

-----------------------------------------------------------------------------
(* get_by_http_hostname                                                    *)

\* Take the read lock of `clients'.
StartLookup(l, h) ==
  /\ scan[l] # "scanning"
  /\ ~ClientsWriteLocked
  /\ scan' = [scan EXCEPT ![l] = "scanning"]
  /\ target' = [target EXCEPT ![l] = h]
  /\ todo' = [todo EXCEPT ![l] = clients]
  /\ UNCHANGED <<tables, stats, found>> /\ Observe

VisitFirstOnly(l) == \E c \in todo[l] :
  /\ scan[l] = "scanning"
  /\ scan' = [scan EXCEPT ![l] = "done"]
  /\ found' = [found EXCEPT ![l] = IF target[l] \in hostnames[c] THEN c
                                   ELSE NoClient]
  /\ UNCHANGED <<tables, stats, target, todo>> /\ Observe

\* has_http_hostname of the next client: return it if it has the hostname.
VisitClient(l) == \E c \in todo[l] :
  /\ scan[l] = "scanning"
  /\ \/ /\ target[l] \in hostnames[c]
        /\ scan' = [scan EXCEPT ![l] = "done"]
        /\ found' = [found EXCEPT ![l] = c]
        /\ todo' = [todo EXCEPT ![l] = {}]
     \/ /\ target[l] \notin hostnames[c]
        /\ todo' = [todo EXCEPT ![l] = @ \ {c}]
        /\ UNCHANGED <<scan, found>>
  /\ UNCHANGED <<tables, stats, target>> /\ Observe

\* Every client was visited: the lookup returns None.
FinishMiss(l) ==
  /\ scan[l] = "scanning"
  /\ todo[l] = {}
  /\ scan' = [scan EXCEPT ![l] = "done"]
  /\ found' = [found EXCEPT ![l] = NoClient]
  /\ UNCHANGED <<tables, stats, target, todo>> /\ Observe

-----------------------------------------------------------------------------

Start(c) == Register(c) \/ Welcome(c) \/ WelcomeFails(c)

HttpOpen(c) == \/ \E h \in Hostnames : HttpOpenClaim(c, h) \/ HttpOpenInUse(c, h)
               \/ ClaimAdd(c)
               \/ Opened(c)

HttpClose(c) == \/ \E h \in Hostnames : \/ HttpCloseRemove(c, h)
                                        \/ HttpCloseNotRegistered(c, h)
                \/ CloseUnclaim(c)
                \/ Closed(c)

End(c) == \/ Disconnect(c)
          \/ DeregisterRemove(c)
          \/ DeregisterUnclaim(c)
          \/ Disconnected(c)

Lookup(l) == \/ \E h \in Hostnames : StartLookup(l, h)
             \/ VisitClient(l)
             \/ FinishMiss(l)

Next == \/ \E c \in Clients : Start(c) \/ HttpOpen(c) \/ HttpClose(c) \/ End(c)
        \/ \E l \in Lookups : Lookup(l)

(***************************************************************************)
(* Steps that wait for nothing but a lock held for one statement are       *)
(* weakly fair: tokio runs every ready task.  Taking the write lock of     *)
(* `clients' is strongly fair, because tokio's RwLock queues its waiters   *)
(* in order, so that a writer is not overtaken by readers for ever.        *)
(* Nothing is assumed of sends, of clients, or of new lookups.             *)
(***************************************************************************)
Fairness ==
  /\ \A c \in Clients : /\ SF_vars(DeregisterRemove(c))
                        /\ WF_vars(DeregisterUnclaim(c))
                        /\ WF_vars(Disconnected(c))
  /\ \A l \in Lookups : WF_vars(VisitClient(l)) /\ WF_vars(FinishMiss(l))

Spec == Init /\ [][Next]_vars

FairSpec == Spec /\ Fairness

-----------------------------------------------------------------------------
(* Properties                                                              *)

(***************************************************************************)
(* What c has a right to: its hostnames, and the one it is half way        *)
(* through claiming or releasing.  Deregistering ends every right.         *)
(***************************************************************************)
Held(c) == IF task[c] \in {"deregistered", "gone"} THEN {}
           ELSE IF task[c] \in {"claiming", "releasing"}
                THEN hostnames[c] \cup {subject[c]}
                ELSE hostnames[c]

\* No two connected clients ever hold one hostname, in whatever order their
\* HttpOpen, HttpClose and deregister steps interleave.
NoTwoOwners == \A c, d \in Clients : c # d => Held(c) \cap Held(d) = {}

\* claimed_http_hostnames holds exactly what connected clients hold: no
\* hostname stays InUse for ever once its owner is gone, and none is offered
\* to a second client while the first still has it.
NoOrphanClaims == claimed = UNION {Held(c) : c \in Clients}

\* What a client was last told is still so while it waits for the next
\* request: after HttpOpened requests are forwarded to it, after HttpClosed
\* (or NotRegistered) they are not.
RepliesHold == \A c \in Clients : task[c] = "serving" =>
  /\ reply[c] = "opened" => OwnerOf(subject[c]) = c
  /\ reply[c] \in {"closed", "not_registered"} => OwnerOf(subject[c]) # c

\* Stats.client_connections counts the tasks between its inc and its dec.
ConnectionsExact ==
  connections = Cardinality({c \in Clients :
                    task[c] \notin {"new", "welcome", "gone", "abandoned"}})

\* A lookup is linearizable: its result, a client or None, is the owner the
\* hostname had at some moment of the scan, although the clients visited
\* change their hostnames while it runs.
LookupLinearizable == \A l \in Lookups :
  scan[l] = "done" => found[l] \in seen[l]

\* Every client that leaves its loop is deregistered and its task ends.
ClosingLeaves == \A c \in Clients :
  (task[c] = "closing") ~> (task[c] = "gone" /\ c \notin clients)

\* The registry implements the abstract ownership of hostnames.
Ownership == INSTANCE HostnameOwnership WITH
               owner <- [h \in Hostnames |-> OwnerOf(h)],
               gone <- {c \in Clients :
                          task[c] \in {"unclaiming", "deregistered", "gone"}}

\* Through all its intermediate states the registry behaves as one atomic
\* table of owners.
ImplementsOwnership == Ownership!Spec

=============================================================================
