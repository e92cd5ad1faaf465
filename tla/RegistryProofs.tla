--------------------------- MODULE RegistryProofs ---------------------------
(***************************************************************************)
(* Proofs about Registry, for any number of clients, hostnames and         *)
(* lookups.                                                                *)
(***************************************************************************)
EXTENDS Registry, TLAPS, FiniteSetTheorems

-----------------------------------------------------------------------------
(* The inductive invariant                                                 *)

\* Type of everything but the counters and the lookups.
TableType == /\ claimed \in SUBSET Hostnames
             /\ clients \in SUBSET Clients
             /\ hostnames \in [Clients -> SUBSET Hostnames]
             /\ task \in [Clients -> TaskStates]
             /\ subject \in [Clients -> Hostnames]
             /\ reply \in [Clients -> Replies]

\* A client is in `clients' from register until deregister removes it, or
\* for ever when the welcome could not be sent.
Registered == {"welcome", "serving", "claiming", "opened", "releasing",
               "released", "closing", "abandoned"}

LifeCycle == \A c \in Clients :
  /\ c \in clients <=> task[c] \in Registered
  /\ task[c] \in {"new", "welcome", "abandoned"} => hostnames[c] = {}

\* Where the hostname of the request being handled is.
SubjectPlace == \A c \in Clients :
  /\ task[c] = "opened" => subject[c] \in hostnames[c]
  /\ task[c] \in {"claiming", "releasing", "released"} =>
       subject[c] \notin hostnames[c]

TableInv == /\ TableType
            /\ LifeCycle
            /\ SubjectPlace
            /\ NoTwoOwners
            /\ NoOrphanClaims

TableStep == \E c \in Clients : Start(c) \/ HttpOpen(c) \/ HttpClose(c) \/ End(c)

\* The empty registry of Registry::default satisfies the table invariant.
LEMMA InitTable == Init => TableInv
  <1> SUFFICES ASSUME Init PROVE TableInv
    OBVIOUS
  <1> USE RegistryAssumption DEF Init
  <1>1. TableType
    BY DEF TableType, TaskStates, Replies
  <1>2. \A c \in Clients : Held(c) = {}
    BY DEF Held
  <1>3. LifeCycle /\ SubjectPlace
    BY DEF LifeCycle, SubjectPlace, Registered
  <1>4. NoTwoOwners /\ NoOrphanClaims
    BY <1>2 DEF NoTwoOwners, NoOrphanClaims
  <1> QED
    BY <1>1, <1>3, <1>4 DEF TableInv

\* Every action keeps the types of the tables.
LEMMA TableTypeStep == TableType /\ TableStep => TableType'
  <1> SUFFICES ASSUME TableType, NEW c \in Clients,
                      Start(c) \/ HttpOpen(c) \/ HttpClose(c) \/ End(c)
               PROVE  TableType'
    BY DEF TableStep
  <1> USE DEF TableType, TaskStates, Replies, Goto, Step, Answer
  <1>1. CASE Start(c)
    BY <1>1 DEF Start, Register, Welcome, WelcomeFails
  <1>2. CASE HttpOpen(c)
    BY <1>2 DEF HttpOpen, HttpOpenClaim, HttpOpenInUse, ClaimAdd, Opened
  <1>3. CASE HttpClose(c)
    BY <1>3 DEF HttpClose, HttpCloseRemove, HttpCloseNotRegistered,
                CloseUnclaim, Closed
  <1>4. CASE End(c)
    BY <1>4 DEF End, Disconnect, DeregisterRemove, DeregisterUnclaim,
                Disconnected
  <1> QED
    BY <1>1, <1>2, <1>3, <1>4

\* Every action keeps the life cycle and the place of the subject.
LEMMA LifeCycleStep ==
  TableType /\ LifeCycle /\ SubjectPlace /\ NoOrphanClaims /\ TableStep
    => LifeCycle' /\ SubjectPlace'
  <1> SUFFICES ASSUME TableType, LifeCycle, SubjectPlace, NoOrphanClaims,
                      NEW c \in Clients,
                      Start(c) \/ HttpOpen(c) \/ HttpClose(c) \/ End(c)
               PROVE  LifeCycle' /\ SubjectPlace'
    BY DEF TableStep
  <1> USE DEF TableType, LifeCycle, SubjectPlace, Registered, Goto, Step, Answer
  <1>1. CASE Start(c)
    BY <1>1 DEF Start, Register, Welcome, WelcomeFails
  <1>2. CASE HttpOpen(c)
    <2>1. hostnames[c] \subseteq claimed \/ task[c] # "serving"
      BY DEF NoOrphanClaims, Held
    <2> QED
      BY <1>2, <2>1 DEF HttpOpen, HttpOpenClaim, HttpOpenInUse, ClaimAdd, Opened
  <1>3. CASE HttpClose(c)
    BY <1>3 DEF HttpClose, HttpCloseRemove, HttpCloseNotRegistered,
                CloseUnclaim, Closed
  <1>4. CASE End(c)
    BY <1>4 DEF End, Disconnect, DeregisterRemove, DeregisterUnclaim,
                Disconnected
  <1> QED
    BY <1>1, <1>2, <1>3, <1>4

(***************************************************************************)
(* What a step does to the rights of the clients: it leaves them alone     *)
(* together with `claimed', or it adds or takes away the same hostnames    *)
(* from both.                                                              *)
(***************************************************************************)
RightsStay == /\ claimed' = claimed
              /\ \A d \in Clients : Held(d)' = Held(d)

RightsGain(c, h) == /\ h \notin claimed
                    /\ claimed' = claimed \cup {h}
                    /\ Held(c)' = Held(c) \cup {h}
                    /\ \A d \in Clients \ {c} : Held(d)' = Held(d)

RightsLose(c, S) == /\ S \subseteq Held(c)
                    /\ claimed' = claimed \ S
                    /\ Held(c)' = Held(c) \ S
                    /\ \A d \in Clients \ {c} : Held(d)' = Held(d)

\* Every step of a task grants one client a hostname nobody has claimed, takes
\* some away together with their claims, or leaves all rights alone.
LEMMA RightsStep ==
  ASSUME TableInv, NEW c \in Clients,
         Start(c) \/ HttpOpen(c) \/ HttpClose(c) \/ End(c)
  PROVE  \/ RightsStay
         \/ \E h \in Hostnames : RightsGain(c, h)
         \/ \E S \in SUBSET Hostnames : RightsLose(c, S)
  <1> USE DEF TableInv, TableType, Goto, Step, Answer
  <1>1. CASE Start(c)
    <2>1. RightsStay
      BY <1>1 DEF Start, Register, Welcome, WelcomeFails, RightsStay, Held
    <2> QED
      BY <2>1
  <1>2. CASE HttpOpen(c)
    <2>1. ASSUME NEW h \in Hostnames, HttpOpenClaim(c, h)
          PROVE  RightsGain(c, h)
      BY <2>1 DEF HttpOpenClaim, RightsGain, Held
    <2>2. ASSUME NEW h \in Hostnames, HttpOpenInUse(c, h)
          PROVE  RightsStay
      BY <2>2 DEF HttpOpenInUse, RightsStay, Held
    <2>3. CASE ClaimAdd(c)
      BY <2>3 DEF ClaimAdd, RightsStay, Held
    <2>4. CASE Opened(c)
      BY <2>4 DEF Opened, RightsStay, Held
    <2> QED
      BY <1>2, <2>1, <2>2, <2>3, <2>4 DEF HttpOpen
  <1>3. CASE HttpClose(c)
    <2>1. ASSUME NEW h \in Hostnames, HttpCloseRemove(c, h)
          PROVE  RightsStay
      BY <2>1 DEF HttpCloseRemove, RightsStay, Held
    <2>2. ASSUME NEW h \in Hostnames, HttpCloseNotRegistered(c, h)
          PROVE  RightsStay
      BY <2>2 DEF HttpCloseNotRegistered, RightsStay, Held
    <2>3. CASE CloseUnclaim(c)
      <3>1. RightsLose(c, {subject[c]})
        BY <2>3 DEF CloseUnclaim, RightsLose, Held, SubjectPlace
      <3> QED
        BY <3>1
    <2>4. CASE Closed(c)
      BY <2>4 DEF Closed, RightsStay, Held
    <2> QED
      BY <1>3, <2>1, <2>2, <2>3, <2>4 DEF HttpClose
  <1>4. CASE End(c)
    <2>1. CASE DeregisterUnclaim(c)
      <3>1. RightsLose(c, hostnames[c])
        BY <2>1 DEF DeregisterUnclaim, RightsLose, Held
      <3> QED
        BY <3>1
    <2>2. CASE Disconnect(c) \/ DeregisterRemove(c) \/ Disconnected(c)
      BY <2>2 DEF Disconnect, DeregisterRemove, Disconnected, RightsStay, Held
    <2> QED
      BY <1>4, <2>1, <2>2 DEF End
  <1> QED
    BY <1>1, <1>2, <1>3, <1>4

\* Whichever of the three a step does, rights stay disjoint and claimed.
LEMMA RightsKept ==
  ASSUME TableInv, NEW c \in Clients,
         \/ RightsStay
         \/ \E h \in Hostnames : RightsGain(c, h)
         \/ \E S \in SUBSET Hostnames : RightsLose(c, S)
  PROVE  NoTwoOwners' /\ NoOrphanClaims'
  <1>0. /\ \A d, e \in Clients : d # e => Held(d) \cap Held(e) = {}
        /\ \A h : h \in claimed <=> \E d \in Clients : h \in Held(d)
    BY DEF TableInv, NoTwoOwners, NoOrphanClaims
  <1>1. SUFFICES
          /\ \A d, e \in Clients : d # e => Held(d)' \cap Held(e)' = {}
          /\ \A h : h \in claimed' <=> \E d \in Clients : h \in Held(d)'
    BY DEF NoTwoOwners, NoOrphanClaims
  <1>2. CASE RightsStay
    BY <1>0, <1>2 DEF RightsStay
  <1>3. ASSUME NEW h \in Hostnames, RightsGain(c, h)
        PROVE  /\ \A d, e \in Clients : d # e => Held(d)' \cap Held(e)' = {}
               /\ \A k : k \in claimed' <=> \E d \in Clients : k \in Held(d)'
    BY <1>0, <1>3 DEF RightsGain
  <1>4. ASSUME NEW S \in SUBSET Hostnames, RightsLose(c, S)
        PROVE  /\ \A d, e \in Clients : d # e => Held(d)' \cap Held(e)' = {}
               /\ \A k : k \in claimed' <=> \E d \in Clients : k \in Held(d)'
    BY <1>0, <1>4 DEF RightsLose
  <1> QED
    BY <1>2, <1>3, <1>4

\* The table invariant is inductive: register, claim, release, deregister and
\* the lookups keep it.
LEMMA NextTable == TableInv /\ [Next]_vars => TableInv'
  <1> SUFFICES ASSUME TableInv, [Next]_vars PROVE TableInv'
    OBVIOUS
  <1>1. CASE TableStep
    <2>1. TableType' /\ LifeCycle' /\ SubjectPlace'
      BY <1>1, TableTypeStep, LifeCycleStep DEF TableInv
    <2>2. NoTwoOwners' /\ NoOrphanClaims'
      BY <1>1, RightsStep, RightsKept DEF TableStep
    <2> QED
      BY <2>1, <2>2 DEF TableInv
  <1>2. CASE UNCHANGED <<claimed, clients, hostnames, task, subject, reply>>
    BY <1>2 DEF TableInv, TableType, LifeCycle, SubjectPlace, NoTwoOwners,
                NoOrphanClaims, Held
  <1>3. ASSUME NEW l \in Lookups, Lookup(l)
        PROVE  UNCHANGED <<claimed, clients, hostnames, task, subject, reply>>
    BY <1>3 DEF Lookup, StartLookup, VisitClient, FinishMiss, tables
  <1> QED
    BY <1>1, <1>2, <1>3 DEF Next, TableStep, vars, tables

\* In every reachable state the two tables of registry.rs have their types,
\* every client is where its task says, rights are exclusive and the claims
\* are exact: the invariant the other results rest on.
THEOREM TableCorrect == Spec => []TableInv
  <1> QED
    BY InitTable, NextTable, PTL DEF Spec

(***************************************************************************)
(* No hostname ever has two owners, whatever the number of clients and     *)
(* hostnames (claim_http_hostname, release_http_hostname, deregister).     *)
(***************************************************************************)
THEOREM HostnamesExclusive == Spec => []NoTwoOwners
  <1>1. TableInv => NoTwoOwners
    BY DEF TableInv
  <1> QED
    BY <1>1, TableCorrect, PTL

(***************************************************************************)
(* claimed_http_hostnames never keeps a hostname of a client that has been *)
(* deregistered and never lacks one of a client that has not.              *)
(***************************************************************************)
THEOREM ClaimsExact == Spec => []NoOrphanClaims
  <1>1. TableInv => NoOrphanClaims
    BY DEF TableInv
  <1> QED
    BY <1>1, TableCorrect, PTL

-----------------------------------------------------------------------------
(* The counters of Stats                                                   *)

\* The tasks between the inc and the dec of client_connections.
Connected == {c \in Clients :
                task[c] \notin {"new", "welcome", "gone", "abandoned"}}

\* The hostnames of c that were counted by open and not uncounted by close.
Counted(c) == IF task[c] = "opened" THEN hostnames[c] \ {subject[c]}
              ELSE IF task[c] \in {"releasing", "released"}
                   THEN hostnames[c] \cup {subject[c]}
                   ELSE hostnames[c]

\* The pairs counted in http_hostnames.  Clients that left without closing
\* are among them (the TODO of deregister): this is what the decrement of
\* close relies on not to go below zero, not what the gauge should say.
CountedPairs == {p \in Clients \X Hostnames : p[2] \in Counted(p[1])}

HostnamesCounted == httpHostnames = Cardinality(CountedPairs)

CountersInv == /\ connections \in Nat
               /\ httpHostnames \in Nat
               /\ ConnectionsExact
               /\ HostnamesCounted

\* The sets the two counters of stats.rs count are finite.
LEMMA CountedFinite == IsFiniteSet(Connected) /\ IsFiniteSet(CountedPairs)
  <1>1. IsFiniteSet(Connected)
    BY RegistryAssumption, FS_Subset DEF Connected
  <1>2. IsFiniteSet(Clients \X Hostnames)
    BY RegistryAssumption, FS_Product
  <1>3. IsFiniteSet(CountedPairs)
    <2>1. CountedPairs \subseteq Clients \X Hostnames
      BY DEF CountedPairs
    <2> QED
      BY <1>2, <2>1, FS_Subset
  <1> QED
    BY <1>1, <1>3

\* Adding and removing one element, in the form the steps below use.
LEMMA CardAdd ==
  \A S, x : IsFiniteSet(S) /\ x \notin S =>
            Cardinality(S \cup {x}) = Cardinality(S) + 1
  BY FS_AddElement

\* Removing one element from a finite set.
LEMMA CardRemove ==
  \A S, x : IsFiniteSet(S) /\ x \in S =>
            /\ Cardinality(S \ {x}) = Cardinality(S) - 1
            /\ Cardinality(S \ {x}) \in Nat
  BY FS_RemoveElement, FS_CardinalityType

\* Both counters start at zero with nothing to count.
LEMMA InitCounters == Init => CountersInv
  <1> SUFFICES ASSUME Init PROVE CountersInv
    OBVIOUS
  <1>1. Connected = {}
    BY DEF Init, Connected
  <1>2. CountedPairs = {}
    BY DEF Init, CountedPairs, Counted
  <1> QED
    BY <1>1, <1>2, FS_EmptySet
       DEF Init, CountersInv, ConnectionsExact, HostnamesCounted, Connected,
           CountedPairs

\* client_connections follows its set of tasks through every step.
LEMMA ConnectionsStep ==
  ASSUME TableInv, CountersInv, [Next]_vars
  PROVE  connections' \in Nat /\ ConnectionsExact'
  <1> USE DEF TableInv, TableType
  <1>0. connections \in Nat /\ connections = Cardinality(Connected)
    BY DEF CountersInv, ConnectionsExact, Connected
  <1>1. SUFFICES connections' = Cardinality(Connected') /\ connections' \in Nat
    BY DEF ConnectionsExact, Connected
  <1>2. ASSUME NEW c \in Clients, Welcome(c)
        PROVE  connections' = Cardinality(Connected') /\ connections' \in Nat
    <2>1. Connected' = Connected \cup {c} /\ c \notin Connected
      BY <1>2 DEF Welcome, Goto, Step, Connected
    <2>2. Cardinality(Connected') = Cardinality(Connected) + 1
      BY <2>1, CountedFinite, CardAdd
    <2> QED
      BY <1>0, <1>2, <2>2 DEF Welcome
  <1>3. ASSUME NEW c \in Clients, Disconnected(c)
        PROVE  connections' = Cardinality(Connected') /\ connections' \in Nat
    <2>1. Connected' = Connected \ {c} /\ c \in Connected
      BY <1>3 DEF Disconnected, Goto, Step, Connected
    <2>2. Cardinality(Connected') = Cardinality(Connected) - 1
      BY <2>1, CountedFinite, CardRemove
    <2>3. Cardinality(Connected') \in Nat
      BY <2>1, CountedFinite, CardRemove
    <2> QED
      BY <1>0, <1>3, <2>2, <2>3 DEF Disconnected
  <1>4. CASE connections' = connections /\ Connected' = Connected
    BY <1>0, <1>4
  <1>5. ASSUME NEW c \in Clients,
               Start(c) \/ HttpOpen(c) \/ HttpClose(c) \/ End(c),
               ~Welcome(c), ~Disconnected(c)
        PROVE  connections' = connections /\ Connected' = Connected
    <2> USE DEF Goto, Step, Answer, Connected, stats
    <2>1. CASE Start(c)
      BY <1>5, <2>1 DEF Start, Register, WelcomeFails
    <2>2. CASE HttpOpen(c)
      BY <2>2 DEF HttpOpen, HttpOpenClaim, HttpOpenInUse, ClaimAdd, Opened
    <2>3. CASE HttpClose(c)
      BY <2>3 DEF HttpClose, HttpCloseRemove, HttpCloseNotRegistered,
                  CloseUnclaim, Closed
    <2>4. CASE End(c)
      BY <1>5, <2>4 DEF End, Disconnect, DeregisterRemove, DeregisterUnclaim
    <2> QED
      BY <1>5, <2>1, <2>2, <2>3, <2>4
  <1>6. ASSUME (\E l \in Lookups : Lookup(l)) \/ UNCHANGED vars
        PROVE  connections' = connections /\ Connected' = Connected
    BY <1>6 DEF Lookup, StartLookup, VisitClient, FinishMiss, Connected, vars,
                stats, tables
  <1> QED
    BY <1>2, <1>3, <1>4, <1>5, <1>6 DEF Next

\* http_hostnames follows its set of pairs through every step.
LEMMA HttpHostnamesStep ==
  ASSUME TableInv, CountersInv, [Next]_vars
  PROVE  httpHostnames' \in Nat /\ HostnamesCounted'
  <1> USE DEF TableInv, TableType
  <1>0. httpHostnames \in Nat /\ httpHostnames = Cardinality(CountedPairs)
    BY DEF CountersInv, HostnamesCounted, CountedPairs
  <1>1. SUFFICES /\ httpHostnames' = Cardinality(CountedPairs')
                 /\ httpHostnames' \in Nat
    BY DEF HostnamesCounted, CountedPairs
  <1>2. ASSUME NEW c \in Clients, Opened(c)
        PROVE  /\ httpHostnames' = Cardinality(CountedPairs')
               /\ httpHostnames' \in Nat
    <2>1. /\ Counted(c)' = Counted(c) \cup {subject[c]}
          /\ subject[c] \notin Counted(c)
          /\ \A d \in Clients \ {c} : Counted(d)' = Counted(d)
      BY <1>2 DEF Opened, Answer, Goto, Step, Counted, SubjectPlace
    <2>2. /\ CountedPairs' = CountedPairs \cup {<<c, subject[c]>>}
          /\ <<c, subject[c]>> \notin CountedPairs
      BY <2>1 DEF CountedPairs
    <2>3. Cardinality(CountedPairs') = Cardinality(CountedPairs) + 1
      BY <2>2, CountedFinite, CardAdd
    <2> QED
      BY <1>0, <1>2, <2>3 DEF Opened
  <1>3. ASSUME NEW c \in Clients, Closed(c)
        PROVE  /\ httpHostnames' = Cardinality(CountedPairs')
               /\ httpHostnames' \in Nat
    <2>1. /\ Counted(c)' = Counted(c) \ {subject[c]}
          /\ subject[c] \in Counted(c)
          /\ \A d \in Clients \ {c} : Counted(d)' = Counted(d)
      BY <1>3 DEF Closed, Answer, Goto, Step, Counted, SubjectPlace
    <2>2. /\ CountedPairs' = CountedPairs \ {<<c, subject[c]>>}
          /\ <<c, subject[c]>> \in CountedPairs
      BY <2>1 DEF CountedPairs
    <2>3. Cardinality(CountedPairs') = Cardinality(CountedPairs) - 1
      BY <2>2, CountedFinite, CardRemove
    <2>4. Cardinality(CountedPairs') \in Nat
      BY <2>2, CountedFinite, CardRemove
    <2> QED
      BY <1>0, <1>3, <2>3, <2>4 DEF Closed
  <1>4. ASSUME httpHostnames' = httpHostnames,
               \A d \in Clients : Counted(d)' = Counted(d)
        PROVE  /\ httpHostnames' = Cardinality(CountedPairs')
               /\ httpHostnames' \in Nat
    <2>1. CountedPairs' = CountedPairs
      BY <1>4 DEF CountedPairs
    <2> QED
      BY <1>0, <1>4, <2>1
  <1>5. ASSUME NEW c \in Clients,
               Start(c) \/ HttpOpen(c) \/ HttpClose(c) \/ End(c),
               ~Opened(c), ~Closed(c)
        PROVE  /\ httpHostnames' = httpHostnames
               /\ \A d \in Clients : Counted(d)' = Counted(d)
    <2> USE DEF Goto, Step, Answer, Counted, stats
    <2>1. CASE Start(c)
      BY <2>1 DEF Start, Register, Welcome, WelcomeFails
    <2>2. CASE HttpOpen(c)
      <3>1. CASE \E h \in Hostnames : HttpOpenClaim(c, h) \/ HttpOpenInUse(c, h)
        BY <3>1 DEF HttpOpenClaim, HttpOpenInUse
      <3>2. CASE ClaimAdd(c)
        <4>1. hostnames'[c] \ {subject[c]} = hostnames[c]
          BY <3>2 DEF ClaimAdd, SubjectPlace
        <4> QED
          BY <3>2, <4>1 DEF ClaimAdd
      <3> QED
        BY <1>5, <2>2, <3>1, <3>2 DEF HttpOpen
    <2>3. CASE HttpClose(c)
      <3>1. ASSUME NEW h \in Hostnames, HttpCloseRemove(c, h)
            PROVE  \A d \in Clients : Counted(d)' = Counted(d)
        <4>1. hostnames'[c] \cup {h} = hostnames[c]
          BY <3>1 DEF HttpCloseRemove
        <4> QED
          BY <3>1, <4>1 DEF HttpCloseRemove
      <3>2. CASE \E h \in Hostnames : HttpCloseNotRegistered(c, h)
        BY <3>2 DEF HttpCloseNotRegistered
      <3>3. CASE CloseUnclaim(c)
        BY <3>3 DEF CloseUnclaim
      <3> QED
        BY <1>5, <2>3, <3>1, <3>2, <3>3 DEF HttpClose, HttpCloseRemove
    <2>4. CASE End(c)
      BY <2>4 DEF End, Disconnect, DeregisterRemove, DeregisterUnclaim,
                  Disconnected
    <2> QED
      BY <1>5, <2>1, <2>2, <2>3, <2>4
  <1>6. ASSUME (\E l \in Lookups : Lookup(l)) \/ UNCHANGED vars
        PROVE  /\ httpHostnames' = httpHostnames
               /\ \A d \in Clients : Counted(d)' = Counted(d)
    BY <1>6 DEF Lookup, StartLookup, VisitClient, FinishMiss, Counted, vars,
                stats, tables
  <1> QED
    BY <1>2, <1>3, <1>4, <1>5, <1>6 DEF Next

\* Both counters follow their sets: inductive together with TableInv.
LEMMA Counters == Spec => []CountersInv
  <1>1. TableInv /\ CountersInv /\ [Next]_vars => CountersInv'
    BY ConnectionsStep, HttpHostnamesStep DEF CountersInv
  <1> QED
    BY InitCounters, TableCorrect, <1>1, PTL DEF Spec

(***************************************************************************)
(* The counter of connections is exact in every reachable state: each      *)
(* handle_socket that got past its welcome is counted until it ends.       *)
(***************************************************************************)
THEOREM CountersCorrect == Spec => []ConnectionsExact
  <1>1. CountersInv => ConnectionsExact
    BY DEF CountersInv
  <1> QED
    BY Counters, <1>1, PTL

-----------------------------------------------------------------------------
(* Owners                                                                  *)

\* What OwnerOf is, without CHOOSE: the registered clients that have h are
\* its owner and nobody else.
OwnerChar == \A h \in Hostnames :
  /\ OwnerOf(h) \in Owners
  /\ \A c \in clients : h \in hostnames[c] <=> OwnerOf(h) = c
  /\ OwnerOf(h) # NoClient => OwnerOf(h) \in clients

\* Under the table invariant the owner of a hostname, which a scan of
\* get_by_http_hostname finds, is the only client that has it.
LEMMA OwnerUnique == TableInv => OwnerChar
  <1> SUFFICES ASSUME TableInv, NEW h \in Hostnames
               PROVE  /\ OwnerOf(h) \in Owners
                      /\ \A c \in clients : h \in hostnames[c] <=> OwnerOf(h) = c
                      /\ OwnerOf(h) # NoClient => OwnerOf(h) \in clients
    BY DEF OwnerChar
  <1>0. clients \subseteq Clients /\ NoClient \notin Clients
    BY RegistryAssumption DEF TableInv, TableType
  <1>1. \A c, d \in clients : h \in hostnames[c] /\ h \in hostnames[d] => c = d
    <2>1. \A c \in clients : hostnames[c] \subseteq Held(c)
      BY <1>0 DEF TableInv, TableType, LifeCycle, Registered, Held
    <2> QED
      BY <1>0, <2>1 DEF TableInv, NoTwoOwners
  <1>2. CASE \E c \in clients : h \in hostnames[c]
    <2>1. OwnerOf(h) \in clients /\ h \in hostnames[OwnerOf(h)]
      BY <1>2 DEF OwnerOf, OwnerIn
    <2> QED
      BY <1>0, <1>1, <2>1 DEF Owners
  <1>3. CASE ~\E c \in clients : h \in hostnames[c]
    <2>1. OwnerOf(h) = NoClient
      BY <1>3 DEF OwnerOf, OwnerIn
    <2> QED
      BY <1>0, <1>3, <2>1 DEF Owners
  <1> QED
    BY <1>2, <1>3

\* The same before and after a step.
LEMMA OwnerUniqueNext == TableInv /\ [Next]_vars => OwnerChar /\ OwnerChar'
  <1>1. TableInv' => OwnerChar'
    BY OwnerUnique, PTL
  <1> QED
    BY <1>1, OwnerUnique, NextTable

\* The clients that have left, in the refinement mapping of Ownership.
Left == {c \in Clients : task[c] \in {"unclaiming", "deregistered", "gone"}}

OwnersStay == Left' = Left /\ \A h \in Hostnames : OwnerOf(h)' = OwnerOf(h)

OwnerChanges(c, g, old, new) ==
  /\ Left' = Left
  /\ c \notin Left
  /\ OwnerOf(g) = old
  /\ OwnerOf(g)' = new
  /\ \A h \in Hostnames \ {g} : OwnerOf(h)' = OwnerOf(h)

OwnerLeaves(c) ==
  /\ c \notin Left
  /\ Left' = Left \cup {c}
  /\ \A h \in Hostnames :
       OwnerOf(h)' = IF OwnerOf(h) = c THEN NoClient ELSE OwnerOf(h)

\* Only three actions change owners: the second half of a claim, the first
\* half of a release and the first half of deregister.
LEMMA OwnersStep ==
  ASSUME TableInv, [Next]_vars
  PROVE  \/ OwnersStay
         \/ \E c \in Clients, g \in Hostnames :
              \/ OwnerChanges(c, g, NoClient, c)
              \/ OwnerChanges(c, g, c, NoClient)
         \/ \E c \in Clients : OwnerLeaves(c)
  <1> DEFINE Goal == \/ OwnersStay
                     \/ \E c \in Clients, g \in Hostnames :
                          \/ OwnerChanges(c, g, NoClient, c)
                          \/ OwnerChanges(c, g, c, NoClient)
                     \/ \E c \in Clients : OwnerLeaves(c)
  <1>0. OwnerChar /\ OwnerChar' /\ TableInv'
    BY OwnerUniqueNext, NextTable
  <1> USE RegistryAssumption DEF TableInv, TableType
  <1>1. ASSUME UNCHANGED <<clients, hostnames>>, Left' = Left PROVE Goal
    BY <1>1 DEF OwnersStay, OwnerOf, OwnerIn
  <1>2. ASSUME NEW c \in Clients, ClaimAdd(c) PROVE Goal
    <2>1. Left' = Left /\ c \notin Left /\ c \in clients /\ clients' = clients
      BY <1>2 DEF ClaimAdd, Goto, Step, Left, LifeCycle, Registered
    <2>2. /\ hostnames'[c] = hostnames[c] \cup {subject[c]}
          /\ \A d \in Clients \ {c} : hostnames'[d] = hostnames[d]
      BY <1>2 DEF ClaimAdd
    <2>3. OwnerOf(subject[c]) = NoClient
      <3>1. \A d \in clients : subject[c] \notin hostnames[d]
        BY <1>2 DEF ClaimAdd, Step, NoTwoOwners, Held, LifeCycle, Registered,
                    SubjectPlace
      <3> QED
        BY <1>0, <3>1 DEF OwnerChar
    <2>4. OwnerOf(subject[c])' = c
      BY <1>0, <2>1, <2>2, <1>2 DEF OwnerChar, ClaimAdd
    <2>5. \A h \in Hostnames \ {subject[c]} : OwnerOf(h)' = OwnerOf(h)
      BY <1>0, <2>1, <2>2 DEF OwnerChar, Owners
    <2>6. OwnerChanges(c, subject[c], NoClient, c)
      BY <2>1, <2>3, <2>4, <2>5 DEF OwnerChanges
    <2> QED
      BY <2>6
  <1>3. ASSUME NEW c \in Clients, NEW g \in Hostnames, HttpCloseRemove(c, g)
        PROVE  Goal
    <2>1. Left' = Left /\ c \notin Left /\ c \in clients /\ clients' = clients
      BY <1>3 DEF HttpCloseRemove, Goto, Step, Left, LifeCycle, Registered
    <2>2. /\ hostnames'[c] = hostnames[c] \ {g}
          /\ g \in hostnames[c]
          /\ \A d \in Clients \ {c} : hostnames'[d] = hostnames[d]
      BY <1>3 DEF HttpCloseRemove
    <2>3. OwnerOf(g) = c
      BY <1>0, <2>1, <2>2 DEF OwnerChar
    <2>4. OwnerOf(g)' = NoClient
      BY <1>0, <2>1, <2>2, <2>3 DEF OwnerChar, Owners
    <2>5. \A h \in Hostnames \ {g} : OwnerOf(h)' = OwnerOf(h)
      BY <1>0, <2>1, <2>2 DEF OwnerChar, Owners
    <2>6. OwnerChanges(c, g, c, NoClient)
      BY <2>1, <2>3, <2>4, <2>5 DEF OwnerChanges
    <2> QED
      BY <2>6
  <1>4. ASSUME NEW c \in Clients, DeregisterRemove(c) PROVE Goal
    <2>1. /\ c \notin Left /\ Left' = Left \cup {c}
          /\ c \in clients /\ clients' = clients \ {c}
          /\ hostnames' = hostnames
      BY <1>4 DEF DeregisterRemove, Goto, Step, Left
    <2>2. \A h \in Hostnames :
            OwnerOf(h)' = IF OwnerOf(h) = c THEN NoClient ELSE OwnerOf(h)
      BY <1>0, <2>1 DEF OwnerChar, Owners
    <2>3. OwnerLeaves(c)
      BY <2>1, <2>2 DEF OwnerLeaves
    <2> QED
      BY <2>3
  <1>5. ASSUME NEW c \in Clients, Register(c) PROVE Goal
    <2>1. /\ Left' = Left /\ clients' = clients \cup {c}
          /\ hostnames' = hostnames /\ hostnames[c] = {}
      BY <1>5 DEF Register, Goto, Step, Left, LifeCycle
    <2>2. \A h \in Hostnames : OwnerOf(h)' = OwnerOf(h)
      BY <1>0, <2>1 DEF OwnerChar, Owners
    <2> QED
      BY <2>1, <2>2 DEF OwnersStay
  <1>6. ASSUME NEW c \in Clients,
               Start(c) \/ HttpOpen(c) \/ HttpClose(c) \/ End(c),
               ~ClaimAdd(c), ~\E h \in Hostnames : HttpCloseRemove(c, h),
               ~DeregisterRemove(c), ~Register(c)
        PROVE  UNCHANGED <<clients, hostnames>> /\ Left' = Left
    <2> USE DEF Goto, Step, Answer, Left
    <2>1. CASE Start(c)
      BY <1>6, <2>1 DEF Start, Welcome, WelcomeFails
    <2>2. CASE HttpOpen(c)
      BY <1>6, <2>2 DEF HttpOpen, HttpOpenClaim, HttpOpenInUse, Opened
    <2>3. CASE HttpClose(c)
      BY <1>6, <2>3 DEF HttpClose, HttpCloseNotRegistered, CloseUnclaim, Closed
    <2>4. CASE End(c)
      BY <1>6, <2>4 DEF End, Disconnect, DeregisterUnclaim, Disconnected
    <2> QED
      BY <1>6, <2>1, <2>2, <2>3, <2>4
  <1>7. ASSUME (\E l \in Lookups : Lookup(l)) \/ UNCHANGED vars
        PROVE  UNCHANGED <<clients, hostnames>> /\ Left' = Left
    BY <1>7 DEF Lookup, StartLookup, VisitClient, FinishMiss, Left, vars, tables
  <1> QED
    BY <1>1, <1>2, <1>3, <1>4, <1>5, <1>6, <1>7 DEF Next

(***************************************************************************)
(* The registry implements HostnameOwnership: however the tasks interleave *)
(* between the locks of registry.rs, hostnames change hands atomically.    *)
(***************************************************************************)
THEOREM RegistryImplementsOwnership == Spec => ImplementsOwnership
  <1>1. Init => Ownership!Init
    BY RegistryAssumption DEF Init, Ownership!Init, OwnerOf, OwnerIn
  <1>2. TableInv /\ [Next]_vars => [Ownership!Next]_(Ownership!vars)
    <2> SUFFICES ASSUME TableInv, [Next]_vars
                 PROVE  [Ownership!Next]_(Ownership!vars)
      OBVIOUS
    <2>1. CASE OwnersStay
      BY <2>1 DEF OwnersStay, Left, Ownership!vars
    <2>2. ASSUME NEW c \in Clients, NEW g \in Hostnames,
                 OwnerChanges(c, g, NoClient, c)
          PROVE  Ownership!Acquire(c, g)
      BY <2>2 DEF OwnerChanges, Left, Ownership!Acquire
    <2>3. ASSUME NEW c \in Clients, NEW g \in Hostnames,
                 OwnerChanges(c, g, c, NoClient)
          PROVE  Ownership!Release(c, g)
      BY <2>3 DEF OwnerChanges, Left, Ownership!Release
    <2>4. ASSUME NEW c \in Clients, OwnerLeaves(c)
          PROVE  Ownership!Leave(c)
      BY <2>4 DEF OwnerLeaves, Left, Ownership!Leave
    <2> QED
      BY <2>1, <2>2, <2>3, <2>4, OwnersStep DEF Ownership!Next
  <1> QED
    BY <1>1, <1>2, TableCorrect, PTL DEF Spec, ImplementsOwnership, Ownership!Spec

-----------------------------------------------------------------------------
(* Replies                                                                 *)

\* What a client was told, in terms of its own hostnames.
ToldInv == \A c \in Clients :
  /\ task[c] \in {"new", "welcome"} => reply[c] = "none"
  /\ task[c] = "serving" =>
       /\ reply[c] = "opened" => subject[c] \in hostnames[c]
       /\ reply[c] \in {"closed", "not_registered"} =>
            subject[c] \notin hostnames[c]

\* What open and close told a client stays true of its own hostnames until
\* its next request.
LEMMA NextTold == TableInv /\ ToldInv /\ [Next]_vars => ToldInv'
  <1> SUFFICES ASSUME TableInv, ToldInv, [Next]_vars PROVE ToldInv'
    OBVIOUS
  <1> USE DEF TableInv, TableType, ToldInv, Goto, Step, Answer
  <1>1. ASSUME NEW c \in Clients, Start(c) PROVE ToldInv'
    BY <1>1 DEF Start, Register, Welcome, WelcomeFails
  <1>2. ASSUME NEW c \in Clients, HttpOpen(c) PROVE ToldInv'
    BY <1>2 DEF HttpOpen, HttpOpenClaim, HttpOpenInUse, ClaimAdd, Opened,
                SubjectPlace
  <1>3. ASSUME NEW c \in Clients, HttpClose(c) PROVE ToldInv'
    BY <1>3 DEF HttpClose, HttpCloseRemove, HttpCloseNotRegistered,
                CloseUnclaim, Closed, SubjectPlace
  <1>4. ASSUME NEW c \in Clients, End(c) PROVE ToldInv'
    BY <1>4 DEF End, Disconnect, DeregisterRemove, DeregisterUnclaim,
                Disconnected
  <1>5. CASE (\E l \in Lookups : Lookup(l)) \/ UNCHANGED vars
    BY <1>5 DEF Lookup, StartLookup, VisitClient, FinishMiss, vars, tables
  <1> QED
    BY <1>1, <1>2, <1>3, <1>4, <1>5 DEF Next

(***************************************************************************)
(* A client that was told its hostname is open is the one requests are     *)
(* forwarded to until it asks for something else, and one that was told it *)
(* is closed is not (msghandlers/http.rs open and close).                  *)
(***************************************************************************)
THEOREM RepliesCorrect == Spec => []RepliesHold
  <1>1. Init => ToldInv
    BY DEF Init, ToldInv
  <1>2. TableInv /\ ToldInv => RepliesHold
    <2> SUFFICES ASSUME TableInv, ToldInv, NEW c \in Clients,
                        task[c] = "serving"
                 PROVE  /\ reply[c] = "opened" => OwnerOf(subject[c]) = c
                        /\ reply[c] \in {"closed", "not_registered"} =>
                             OwnerOf(subject[c]) # c
      BY DEF RepliesHold
    <2>1. OwnerChar
      BY OwnerUnique
    <2>2. c \in clients /\ subject[c] \in Hostnames
      BY DEF TableInv, TableType, LifeCycle, Registered
    <2> QED
      BY <2>1, <2>2 DEF OwnerChar, ToldInv
  <1> QED
    BY <1>1, <1>2, NextTold, TableCorrect, PTL DEF Spec

-----------------------------------------------------------------------------
(* Lookups                                                                 *)

LookupType == /\ scan \in [Lookups -> {"idle", "scanning", "done"}]
              /\ target \in [Lookups -> Hostnames]
              /\ todo \in [Lookups -> SUBSET Clients]
              /\ found \in [Lookups -> Owners]
              /\ seen \in [Lookups -> SUBSET Owners]

(***************************************************************************)
(* The heart of linearizability: while a scan runs, the owner its hostname *)
(* has now is still to be visited, unless the hostname has been free since *)
(* the scan began (an owner can only change by the hostname being free).   *)
(***************************************************************************)
ScanInv == \A l \in Lookups :
  /\ scan[l] = "scanning" =>
       /\ todo[l] \subseteq clients
       /\ OwnerOf(target[l]) \in seen[l]
       /\ NoClient \in seen[l] \/ OwnerOf(target[l]) \in todo[l]
  /\ scan[l] = "done" => found[l] \in seen[l]

LookupInv == LookupType /\ ScanInv

\* Before its first scan a lookup has nothing to account for.
LEMMA InitLookup == Init => LookupInv
  BY RegistryAssumption DEF Init, LookupInv, LookupType, ScanInv, Owners

\* A step of a task: the scans under way only observe it.
LEMMA TaskKeepsScans ==
  ASSUME TableInv, LookupInv, [Next]_vars, TableStep
  PROVE  LookupInv'
  <1>1. UNCHANGED lookups /\ Observe
    BY DEF TableStep, Start, Register, Welcome, WelcomeFails, HttpOpen,
           HttpOpenClaim, HttpOpenInUse, ClaimAdd, Opened, HttpClose,
           HttpCloseRemove, HttpCloseNotRegistered, CloseUnclaim, Closed, End,
           Disconnect, DeregisterRemove, DeregisterUnclaim, Disconnected
  <1>2. (\E l \in Lookups : scan[l] = "scanning") => clients \subseteq clients'
    BY DEF ClientsReadLocked, TableStep, Start, Register, Welcome,
           WelcomeFails, HttpOpen, HttpOpenClaim, HttpOpenInUse, ClaimAdd,
           Opened, HttpClose, HttpCloseRemove, HttpCloseNotRegistered,
           CloseUnclaim, Closed, End, Disconnect, DeregisterRemove,
           DeregisterUnclaim, Disconnected
  <1>3. OwnerChar /\ OwnerChar'
    BY OwnerUniqueNext
  <1>4. \A h \in Hostnames : \/ OwnerOf(h)' = OwnerOf(h)
                             \/ OwnerOf(h) = NoClient
                             \/ OwnerOf(h)' = NoClient
    BY OwnersStep DEF OwnersStay, OwnerChanges, OwnerLeaves
  <1>5. \A l \in Lookups :
          seen'[l] = IF scan[l] = "scanning"
                     THEN seen[l] \cup {OwnerOf(target[l])'} ELSE seen[l]
    BY <1>1 DEF Observe, OwnerOf, lookups
  <1>6. LookupType'
    <2>1. \A l \in Lookups : target[l] \in Hostnames
      BY DEF LookupInv, LookupType
    <2>2. \A l \in Lookups : OwnerOf(target[l])' \in Owners
      BY <1>3, <2>1, <1>1 DEF OwnerChar, lookups
    <2>3. seen' \in [Lookups -> SUBSET Owners]
      <3>1. seen' = [l \in Lookups |-> seen'[l]]
        BY <1>1 DEF Observe
      <3>2. \A l \in Lookups : seen'[l] \in SUBSET Owners
        BY <1>5, <2>2 DEF LookupInv, LookupType
      <3> QED
        BY <3>1, <3>2
    <2> QED
      BY <1>1, <2>3 DEF LookupInv, LookupType, lookups
  <1>7. ScanInv'
    <2> SUFFICES ASSUME NEW l \in Lookups
                 PROVE  /\ scan'[l] = "scanning" =>
                             /\ todo'[l] \subseteq clients'
                             /\ OwnerOf(target[l])' \in seen'[l]
                             /\ \/ NoClient \in seen'[l]
                                \/ OwnerOf(target[l])' \in todo'[l]
                        /\ scan'[l] = "done" => found'[l] \in seen'[l]
      BY <1>1 DEF ScanInv, lookups
    <2>1. PICK h \in Hostnames : h = target[l] /\ h = target'[l]
      BY <1>1 DEF LookupInv, LookupType, lookups
    <2>2. /\ OwnerOf(h) = OwnerOf(target[l])
          /\ OwnerOf(h)' = OwnerOf(target[l])'
      BY <2>1 DEF OwnerOf
    <2>3. /\ scan'[l] = scan[l] /\ todo'[l] = todo[l] /\ found'[l] = found[l]
      BY <1>1 DEF lookups
    <2>4. CASE scan[l] = "scanning"
      <3>1. seen'[l] = seen[l] \cup {OwnerOf(h)'}
        BY <1>5, <2>2, <2>4
      <3>2. /\ todo[l] \subseteq clients'
            /\ OwnerOf(h) \in seen[l]
            /\ NoClient \in seen[l] \/ OwnerOf(h) \in todo[l]
        BY <1>2, <2>2, <2>4 DEF LookupInv, ScanInv
      <3> QED
        BY <1>4, <2>2, <2>3, <2>4, <3>1, <3>2
    <2>5. CASE scan[l] # "scanning"
      BY <1>5, <2>3, <2>5 DEF LookupInv, ScanInv
    <2> QED
      BY <2>4, <2>5
  <1> QED
    BY <1>6, <1>7 DEF LookupInv

\* A step of a lookup: the owners do not move, one client is ticked off.
LEMMA LookupKeepsScans ==
  ASSUME TableInv, LookupInv, [Next]_vars, NEW k \in Lookups, Lookup(k)
  PROVE  LookupInv'
  <1>1. OwnerChar
    BY OwnerUnique
  <1>2. UNCHANGED <<clients, hostnames>> /\ Observe
    BY DEF Lookup, StartLookup, VisitClient, FinishMiss, tables
  <1>3. \A h : OwnerOf(h)' = OwnerOf(h)
    BY <1>2 DEF OwnerOf, OwnerIn
  <1>4. seen' = [l \in Lookups |->
                   IF scan'[l] # "scanning" THEN seen[l]
                   ELSE (IF scan[l] = "scanning" THEN seen[l] ELSE {})
                          \cup {OwnerOf(target'[l])}]
    BY <1>2 DEF Observe, OwnerOf
  <1>5. SUFFICES
          /\ LookupType'
          /\ \A l \in Lookups :
               /\ scan'[l] = "scanning" =>
                    /\ todo'[l] \subseteq clients
                    /\ OwnerOf(target'[l]) \in seen'[l]
                    /\ NoClient \in seen'[l] \/ OwnerOf(target'[l]) \in todo'[l]
               /\ scan'[l] = "done" => found'[l] \in seen'[l]
    BY <1>2, <1>3 DEF LookupInv, ScanInv, OwnerOf
  <1>6. clients \subseteq Clients
    BY DEF TableInv, TableType
  <1> USE DEF LookupInv, LookupType, ScanInv, OwnerChar, Owners
  <1>7. CASE \E h \in Hostnames : StartLookup(k, h)
    BY <1>1, <1>4, <1>6, <1>7 DEF StartLookup
  <1>8. CASE VisitClient(k)
    BY <1>1, <1>4, <1>6, <1>8 DEF VisitClient
  <1>9. CASE FinishMiss(k)
    BY <1>1, <1>4, <1>6, <1>9 DEF FinishMiss
  <1> QED
    BY <1>7, <1>8, <1>9 DEF Lookup

\* The account every scan keeps of the owners it saw is inductive.
LEMMA NextLookup == TableInv /\ LookupInv /\ [Next]_vars => LookupInv'
  <1> SUFFICES ASSUME TableInv, LookupInv, [Next]_vars PROVE LookupInv'
    OBVIOUS
  <1>1. CASE UNCHANGED vars
    BY <1>1 DEF LookupInv, LookupType, ScanInv, OwnerOf, vars, tables, lookups
  <1> QED
    BY <1>1, TaskKeepsScans, LookupKeepsScans DEF Next, TableStep

(***************************************************************************)
(* get_by_http_hostname is linearizable for any number of clients: its     *)
(* result was the owner at some moment between its start and its end.      *)
(***************************************************************************)
THEOREM LookupsCorrect == Spec => []LookupLinearizable
  <1>1. LookupInv => LookupLinearizable
    BY DEF LookupInv, ScanInv, LookupLinearizable
  <1> QED
    BY <1>1, InitLookup, NextLookup, TableCorrect, PTL DEF Spec

(***************************************************************************)
(* Type correctness; the counters never become negative.                   *)
(***************************************************************************)
THEOREM TypeCorrect == Spec => []TypeOK
  <1>1. TableInv /\ CountersInv /\ LookupInv => TypeOK
    BY DEF TableInv, TableType, CountersInv, LookupInv, LookupType, TypeOK
  <1>2. TableInv /\ CountersInv /\ [Next]_vars => CountersInv'
    BY ConnectionsStep, HttpHostnamesStep DEF CountersInv
  <1> QED
    BY <1>1, <1>2, InitCounters, InitLookup, NextLookup, TableCorrect, PTL
       DEF Spec

=============================================================================
