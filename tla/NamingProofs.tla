---------------------------- MODULE NamingProofs ----------------------------
(***************************************************************************)
(* Proofs about Naming, for any number of clients, any tunnels in their    *)
(* settings and any configuration of the server that ServersAssumption     *)
(* allows.                                                                 *)
(*                                                                         *)
(* The invariant says what a name or port has gone through when np learns  *)
(* of it: it is in the server's tables, no other client has it, it routes  *)
(* to the forwarding handler, and the answer on its way to np, and then    *)
(* np's own table, say the same of it as the server's.                     *)
(***************************************************************************)
EXTENDS Naming, SequenceTheorems, TLAPS

\* The parts of the state that never change, and the shape of the others.
Settings ==
  /\ server \in Servers
  /\ tunnel \in [Clients -> {t \in Tunnels : ParseOk(t.local) /\ ParseOk(t.remote)}]
  /\ DOMAIN hostnames = Clients /\ DOMAIN reply = Clients /\ DOMAIN registered = Clients
  /\ port \in [Clients -> Ports]

\* A hostname the chooser of build_app gives to the forwarding handler.
Routed(h) == h \in Names /\ Lower(h) = h /\ h # ApiHostname /\ h # server.domain

\* Every claimed hostname is, and is claimed once.
Claimed == \A c \in Clients : \A h \in hostnames[c] :
  Routed(h) /\ \A d \in Clients : h \in hostnames[d] => d = c

\* The port of c is the one its settings ask for, and not privileged.
PortFits(c) == port[c] \in Unprivileged /\ tunnel[c].remote.port \in {0, port[c]}

\* An answer on its way agrees with the tables of the server.
Answered(c) == reply[c] # NoReply =>
  /\ reply[c].kind = tunnel[c].kind /\ reply[c].local = Local(c)
  /\ reply[c].error = "none" =>
       /\ reply[c].kind = "http" => reply[c].remote.host \in hostnames[c]
       /\ reply[c].kind = "tcp" =>
            PortFits(c) /\ reply[c].remote = FromHostAndPort(TcpHostname, port[c])

\* And so does what np has made of it.
Remembered(c) == registered[c] # Nothing =>
  /\ registered[c].kind = tunnel[c].kind
  /\ registered[c].local = FromAddress(Local(c))
  /\ registered[c].kind = "http" => registered[c].key.host \in hostnames[c]
  /\ registered[c].kind = "tcp" => PortFits(c) /\ registered[c].key = ConnectKey(c)

Inv == Settings /\ Claimed /\ \A c \in Clients : Answered(c) /\ Remembered(c)

-----------------------------------------------------------------------------
(* Names                                                                   *)

\* LabelsAssumption, of one label.
LEMMA LowerTwice ==
  ASSUME NEW l \in DOMAIN LowerOf
  PROVE  LowerOf[LowerOf[l]] = LowerOf[l]
BY LabelsAssumption

\* Lower keeps a name a name, label by label, and once is enough.
LEMMA LowerFacts ==
  ASSUME NEW n \in Seq(DOMAIN LowerOf)
  PROVE  /\ Lower(n) \in Seq(DOMAIN LowerOf) /\ Len(Lower(n)) = Len(n)
         /\ \A i \in 1 .. Len(n) : Lower(n)[i] = LowerOf[n[i]]
         /\ Lower(Lower(n)) = Lower(n)
<1>1. /\ DOMAIN n = 1 .. Len(n) /\ Len(n) \in Nat
      /\ \A i \in 1 .. Len(n) : n[i] \in DOMAIN LowerOf
  OBVIOUS
<1>2. Lower(n) = [i \in 1 .. Len(n) |-> LowerOf[n[i]]]
  BY <1>1 DEF Lower
<1>3. Lower(n) \in [1 .. Len(n) -> DOMAIN LowerOf]
  BY <1>1, <1>2, LabelsAssumption
<1>4. Lower(n) \in Seq(DOMAIN LowerOf) /\ Len(Lower(n)) = Len(n) /\ DOMAIN Lower(n) = 1 .. Len(n)
  BY <1>1, <1>3
<1>5. Lower(Lower(n)) = [i \in 1 .. Len(n) |-> LowerOf[Lower(n)[i]]]
  BY <1>4 DEF Lower
<1>6. \A i \in 1 .. Len(n) : LowerOf[Lower(n)[i]] = Lower(n)[i]
  <2>1. \A l \in DOMAIN LowerOf : LowerOf[LowerOf[l]] = LowerOf[l]
    BY LowerTwice
  <2>2. \A i \in 1 .. Len(n) : Lower(n)[i] = LowerOf[n[i]]
    BY <1>2
  <2> QED
    BY <1>1, <2>1, <2>2
<1>7. Lower(Lower(n)) = [i \in 1 .. Len(n) |-> Lower(n)[i]]
  BY <1>5, <1>6
<1> QED
  BY <1>2, <1>4, <1>7

\* A name is in lower case when each of its labels is.
LEMMA IsLower ==
  ASSUME NEW n \in Seq(DOMAIN LowerOf)
  PROVE  Lower(n) = n <=> \A i \in 1 .. Len(n) : LowerOf[n[i]] = n[i]
<1>1. DOMAIN n = 1 .. Len(n) /\ n = [i \in 1 .. Len(n) |-> n[i]]
  OBVIOUS
<1>2. Lower(n) = [i \in 1 .. Len(n) |-> LowerOf[n[i]]]
  BY <1>1 DEF Lower
<1> QED
  BY <1>1, <1>2

\* One label before a name.
LEMMA ConcatFacts ==
  ASSUME NEW S, NEW s \in Seq(S), Len(s) = 1, NEW t \in Seq(S)
  PROVE  /\ s \o t \in Seq(S) /\ Len(s \o t) = 1 + Len(t) /\ (s \o t)[1] = s[1]
         /\ \A i \in 1 .. Len(t) : (s \o t)[i + 1] = t[i]
<1> DEFINE r == s \o t
<1>1. /\ r \in Seq(S) /\ Len(r) = Len(s) + Len(t)
      /\ \A i \in 1 .. Len(s) + Len(t) : r[i] = IF i <= Len(s) THEN s[i] ELSE t[i - Len(s)]
  BY ConcatProperties, Zenon
<1>2. PICK l \in Nat : l = Len(t)
  OBVIOUS
<1> HIDE DEF r
<1>3. \A i \in 1 .. 1 + l : r[i] = IF i <= 1 THEN s[i] ELSE t[i - 1]
  BY <1>1, <1>2
<1>4. r[1] = s[1]
  <2>1. 1 \in 1 .. 1 + l
    BY <1>2
  <2> QED
    BY <1>3, <2>1
<1>5. ASSUME NEW i \in 1 .. l
      PROVE  r[i + 1] = t[i]
  <2>1. i + 1 \in 1 .. 1 + l /\ ~(i + 1 <= 1) /\ (i + 1) - 1 = i
    BY <1>2
  <2> QED
    BY <1>3, <2>1
<1>6. /\ r \in Seq(S) /\ Len(r) = 1 + Len(t) /\ r[1] = s[1]
      /\ \A i \in 1 .. Len(t) : r[i + 1] = t[i]
  BY <1>1, <1>2, <1>4, <1>5
<1> QED
  BY <1>6 DEF r

\* StripDomain leaves a prefix of at least one label.
LEMMA NormalizedFacts ==
  ASSUME server \in Servers, NEW requested \in Names
  PROVE  /\ NormalizedClientSubdomain(requested) \in Names
         /\ Lower(NormalizedClientSubdomain(requested)) = NormalizedClientSubdomain(requested)
<1> DEFINE name == Lower(requested)
           rest == Len(name) - Len(server.domain)
<1>1. requested \in Seq(DOMAIN LowerOf) /\ Len(requested) > 0
  BY DEF Names
<1>2. name \in Seq(DOMAIN LowerOf) /\ Len(name) > 0 /\ Lower(name) = name
  BY <1>1, LowerFacts
<1>3. Len(server.domain) \in Nat
  BY ServersAssumption DEF Names
<1> HIDE DEF name
<1>4. CASE rest > 0 /\ SubSeq(name, rest + 1, Len(name)) = server.domain
  <2> DEFINE s == SubSeq(name, 1, rest)
  <2>1. rest \in 1 .. Len(name)
    BY <1>2, <1>3, <1>4
  <2>2. /\ s \in Seq(DOMAIN LowerOf) /\ Len(s) = rest
        /\ \A i \in 1 .. rest : i \in 1 .. Len(name) /\ s[i] = name[i]
    <3>1. Len(name) \in Nat /\ rest \in Nat /\ rest <= Len(name)
      BY <1>2, <2>1
    <3> HIDE DEF rest
    <3>2. s \in Seq(DOMAIN LowerOf) /\ Len(s) = rest
      BY <1>2, <3>1
    <3> QED
      BY <1>2, <3>1, <3>2
  <2>3. NormalizedClientSubdomain(requested) = s
    BY <1>4 DEF NormalizedClientSubdomain, StripDomain, name
  <2> HIDE DEF s, rest
  <2>4. \A i \in 1 .. Len(name) : LowerOf[name[i]] = name[i]
    BY <1>2, IsLower
  <2>5. Lower(s) = s
    BY <2>2, <2>4, IsLower
  <2>6. s # <<>>
    BY <2>1, <2>2
  <2> QED
    BY <2>2, <2>3, <2>5, <2>6 DEF Names
<1>5. CASE ~(rest > 0 /\ SubSeq(name, rest + 1, Len(name)) = server.domain)
  <2>1. NormalizedClientSubdomain(requested) = name
    BY <1>5 DEF NormalizedClientSubdomain, StripDomain, name
  <2> QED
    BY <1>2, <2>1 DEF Names
<1> QED
  BY <1>4, <1>5

\* One valid label in lower case that is not the API's is a subdomain whose
\* full name routes to the forwarding handler, whatever the domain.
LEMMA FullNameRouted ==
  ASSUME server \in Servers, NEW s \in Names, Len(s) = 1, s[1] \in ValidLabels,
         Lower(s) = s, s # Api
  PROVE  Routed(FullName(s))
<1> DEFINE d == server.domain
<1>1. /\ d \in Seq(DOMAIN LowerOf) /\ Len(d) \in Nat \ {0} /\ Lower(d) = d
      /\ Api \in Seq(DOMAIN LowerOf) /\ Len(Api) \in Nat \ {0}
      /\ s \in Seq(DOMAIN LowerOf)
  <2>1. server.api \in Seq(DOMAIN LowerOf) /\ Len(server.api) \in Nat \ {0}
    BY ServersAssumption DEF Names
  <2>2. Api \in Seq(DOMAIN LowerOf) /\ Len(Api) \in Nat \ {0}
    BY <2>1, LowerFacts DEF Api
  <2> QED
    BY <2>2, ServersAssumption DEF Names
<1> HIDE DEF d
<1>2. s # Empty
  <2>1. Empty[1] = ""
    BY DEF Empty
  <2> QED
    BY <2>1, LabelsAssumption
<1>3. CASE d = Empty
  <2>1. FullName(s) = s
    BY <1>3 DEF FullName, d
  <2>2. s # ApiHostname
    <3>1. CASE Api = Empty
      BY <1>2, <1>3, <3>1 DEF ApiHostname, NewHostname, d
    <3>2. CASE Api # Empty
      <4>1. ApiHostname = Api \o d
        BY <3>2 DEF ApiHostname, NewHostname, d
      <4>2. PICK k \in Nat \ {0}, l \in Nat \ {0} : k = Len(Api) /\ l = Len(d)
        BY <1>1
      <4>3. Len(Api \o d) = k + l
        BY <1>1, <4>2
      <4>4. k + l # 1
        OBVIOUS
      <4> QED
        BY <4>1, <4>3, <4>4
    <3> QED
      BY <3>1, <3>2
  <2> QED
    BY <1>2, <1>3, <2>1, <2>2 DEF Routed, d
<1>4. CASE d # Empty
  <2> DEFINE full == s \o d
  <2>1. FullName(s) = full
    BY <1>4 DEF FullName, d
  <2>2. /\ full \in Seq(DOMAIN LowerOf) /\ Len(full) = 1 + Len(d) /\ full[1] = s[1]
        /\ \A i \in 1 .. Len(d) : full[i + 1] = d[i]
    BY <1>1, ConcatFacts
  <2>3. full # d /\ full # <<>>
    BY <1>1, <2>2
  <2>4. full # ApiHostname
    <3>1. CASE Api = Empty
      BY <2>3, <3>1 DEF ApiHostname, NewHostname, d
    <3>2. CASE Api # Empty
      <4>1. ApiHostname = Api \o d
        BY <3>2 DEF ApiHostname, NewHostname, d
      <4>2. SUFFICES ASSUME full = Api \o d
                     PROVE  FALSE
        BY <4>1
      <4> QED
        BY <1>1, <4>2, ConcatSimplifications
    <3> QED
      BY <3>1, <3>2
  <2> HIDE DEF full
  <2>5. Lower(full) = full
    <3>1. \A i \in 1 .. Len(d) : LowerOf[d[i]] = d[i]
      BY <1>1, IsLower
    <3>2. LowerOf[s[1]] = s[1]
      <4>1. 1 \in 1 .. Len(s)
        OBVIOUS
      <4> QED
        BY <1>1, <4>1, IsLower
    <3>3. ASSUME NEW i \in 1 .. Len(full)
          PROVE  LowerOf[full[i]] = full[i]
      <4>1. CASE i = 1
        BY <2>2, <3>2, <4>1
      <4>2. CASE i # 1
        <5>1. PICK l \in Nat : l = Len(d) /\ 1 + l = Len(full)
          BY <1>1, <2>2
        <5>2. i \in 1 .. 1 + l
          BY <5>1
        <5>3. i - 1 \in 1 .. l /\ (i - 1) + 1 = i
          BY <4>2, <5>2
        <5> QED
          BY <2>2, <3>1, <5>1, <5>3
      <4> QED
        BY <4>1, <4>2
    <3> QED
      BY <2>2, <3>3, IsLower
  <2> QED
    BY <2>1, <2>2, <2>3, <2>4, <2>5 DEF Routed, d, Names
<1> QED
  BY <1>3, <1>4

\* Every name the handler of HttpOpen can come to routes: one asked for that
\* passes validation, and one that is generated.
LEMMA ForwardingRouted ==
  ASSUME server \in Servers, NEW requested \in Names,
         ForwardingError(requested) = "none", NEW s \in Subdomains(requested)
  PROVE  Routed(FullName(s))
<1>1. CASE requested = Empty
  BY <1>1, GeneratedAssumption, FullNameRouted DEF Subdomains, Api
<1>2. CASE requested # Empty
  <2>1. /\ s = NormalizedClientSubdomain(requested)
        /\ s \in Names /\ Lower(s) = s
    BY <1>2, NormalizedFacts DEF Subdomains
  <2>2. IsValid(s) /\ ~(Len(s) > 1) /\ ~IsSubdomainUsed(s)
    BY <1>2, <2>1 DEF ForwardingError
  <2>3. Len(s) = 1 /\ s[1] \in ValidLabels
    <3>1. s \in Seq(DOMAIN LowerOf) /\ s # <<>>
      BY <2>1 DEF Names
    <3>2. Len(s) \in Nat \ {0} /\ DOMAIN s = 1 .. Len(s)
      BY <3>1
    <3>3. Len(s) = 1 /\ 1 \in DOMAIN s
      BY <2>2, <3>2
    <3> QED
      BY <2>2, <3>3 DEF IsValid
  <2>4. s # Api
    BY <2>1, <2>2 DEF IsSubdomainUsed
  <2> QED
    BY <2>1, <2>3, <2>4, FullNameRouted
<1> QED
  BY <1>1, <1>2

-----------------------------------------------------------------------------
(* Addresses                                                               *)

\* Sixteen bits go through the 32-bit port of the protocol as they are.
LEMMA SixteenBits == \A p \in Ports : p % (MaxPort + 1) = p
<1>1. MaxPort \in Nat
  BY SMT DEF MaxPort
<1>2. \A p \in Ports : p \in Nat /\ p < MaxPort + 1
  BY <1>1, SMT DEF Ports
<1>3. ASSUME NEW m \in Nat, NEW p \in Nat, p < m + 1
      PROVE  p % (m + 1) = p
  BY <1>3, SMT
<1> QED
  BY <1>1, <1>2, <1>3

\* A port is 0, privileged or not.
LEMMA PortFacts ==
  /\ 0 \in Ports /\ Unprivileged \subseteq Ports /\ 0 \notin Unprivileged
  /\ \A p \in Ports : p = 0 \/ p \in 1 .. 1023 \/ p \in Unprivileged
<1>1. MaxPort \in Nat
  BY SMT DEF MaxPort
<1> QED
  BY <1>1, SMT DEF Ports, Unprivileged

\* Parse keeps the port, and a host unless it is this machine; np connects to
\* the address of the settings.
LEMMA LocalReached ==
  ASSUME NEW text, ParseOk(text)
  PROVE  /\ Parse(text).port = text.port /\ text.port \in Ports
         /\ SameAddr(text, Display(FromAddress(Parse(text))))
<1>1. text.port \in Ports /\ text.port % (MaxPort + 1) = text.port
  BY SixteenBits DEF ParseOk
<1>2. Parse(text).port = text.port
  BY DEF Parse, FromHostAndPort, Addr
<1>3. /\ Display(FromAddress(Parse(text))).port = text.port
      /\ Display(FromAddress(Parse(text))).host =
           IF Parse(text).host = NoHost THEN Default ELSE Parse(text).host
  BY <1>1, <1>2 DEF Display, FromAddress, Addr
<1>4. \/ Parse(text).host = NoHost
           /\ text.host \in LoopbackNames \cup {Empty, Localhost, NoHost}
      \/ Parse(text).host # NoHost /\ Parse(text).host = text.host
  BY DEF Parse, FromHostAndPort, Addr
<1> QED
  BY <1>1, <1>2, <1>3, <1>4 DEF SameAddr

-----------------------------------------------------------------------------
(* The steps                                                               *)

\* The configuration and the settings stay, and what is read from them.
LEMMA SettingsStay ==
  ASSUME UNCHANGED <<server, tunnel>>
  PROVE  /\ TcpHostname' = TcpHostname
         /\ \A h : Routed(h)' <=> Routed(h)
         /\ \A c : Local(c)' = Local(c)
<1>1. Api' = Api /\ Tcp' = Tcp
  BY DEF Api, Tcp
<1>2. ApiHostname' = ApiHostname /\ TcpHostname' = TcpHostname
  BY <1>1 DEF ApiHostname, TcpHostname, NewHostname
<1> QED
  BY <1>2 DEF Routed, Local

\* What is said of a client stays when nothing of it changes.
LEMMA OtherClient ==
  ASSUME Inv, UNCHANGED <<server, tunnel>>, NEW d \in Clients,
         hostnames'[d] = hostnames[d], port'[d] = port[d],
         reply'[d] = reply[d], registered'[d] = registered[d]
  PROVE  Answered(d)' /\ Remembered(d)'
<1>1. Answered(d) /\ Remembered(d)
  BY DEF Inv
<1>2. TcpHostname' = TcpHostname /\ Local(d)' = Local(d)
  BY SettingsStay
<1>3. PortFits(d)' <=> PortFits(d)
  BY DEF PortFits
<1>4. ConnectKey(d)' = ConnectKey(d)
  BY <1>2 DEF ConnectKey
<1> QED
  BY <1>1, <1>2, <1>3, <1>4 DEF Answered, Remembered

\* HttpOpen: the name that is claimed routes, and nobody else has it.
LEMMA HttpOpenStep == ASSUME Inv, NEW c \in Clients, HttpOpen(c)
                      PROVE  Inv'
<1> DEFINE requested == tunnel[c].remote.host
<1>1. /\ UNCHANGED <<server, tunnel, port, registered>>
      /\ tunnel[c].kind = "http" /\ Unopened(c)
  BY DEF HttpOpen
<1>2. /\ server \in Servers /\ tunnel[c] \in Tunnels /\ requested \in Names
      /\ DOMAIN hostnames = Clients /\ DOMAIN reply = Clients
  BY <1>1, TunnelsAssumption DEF Inv, Settings
<1>3. /\ TcpHostname' = TcpHostname /\ Local(c)' = Local(c)
      /\ \A h : Routed(h)' <=> Routed(h)
  BY <1>1, SettingsStay
<1>4. CASE \E e : /\ e # "none" /\ UNCHANGED hostnames
                  /\ \E h : reply' = [reply EXCEPT ![c] = Message(c, h, 0, e)]
  <2>1. PICK e, h : /\ e # "none" /\ UNCHANGED hostnames
                    /\ reply' = [reply EXCEPT ![c] = Message(c, h, 0, e)]
    BY <1>4
  <2>2. Settings'
    BY <1>1, <2>1 DEF Inv, Settings
  <2>3. Claimed'
    BY <1>3, <2>1 DEF Inv, Claimed
  <2>4. reply'[c].kind = tunnel[c].kind /\ reply'[c].local = Local(c) /\ reply'[c].error = e
    BY <1>2, <2>1 DEF Message
  <2>5. Answered(c)'
    BY <1>1, <1>3, <2>1, <2>4 DEF Answered
  <2>6. Remembered(c)'
    BY <1>1 DEF Remembered, Unopened
  <2>7. \A d \in Clients : d # c => Answered(d)' /\ Remembered(d)'
    BY <1>1, <1>2, <2>1, OtherClient
  <2> QED
    BY <2>2, <2>3, <2>5, <2>6, <2>7 DEF Inv
<1>5. CASE \E h : /\ Routed(h) /\ \A x \in Clients : h \notin hostnames[x]
                  /\ hostnames' = [hostnames EXCEPT ![c] = {h}]
                  /\ reply' = [reply EXCEPT ![c] = Message(c, h, 0, "none")]
  <2>1. PICK h : /\ Routed(h) /\ \A x \in Clients : h \notin hostnames[x]
                 /\ hostnames' = [hostnames EXCEPT ![c] = {h}]
                 /\ reply' = [reply EXCEPT ![c] = Message(c, h, 0, "none")]
    BY <1>5
  <2>2. /\ hostnames'[c] = {h}
        /\ \A d \in Clients : d # c => hostnames'[d] = hostnames[d] /\ reply'[d] = reply[d]
    BY <1>2, <2>1
  <2>3. Settings'
    BY <1>1, <2>1 DEF Inv, Settings
  <2>4. Claimed'
    BY <1>3, <2>1, <2>2 DEF Inv, Claimed
  <2>5. /\ reply'[c].kind = tunnel[c].kind /\ reply'[c].local = Local(c)
        /\ reply'[c].remote.host = h
    BY <1>2, <2>1 DEF Message, Addr
  <2>6. Answered(c)'
    BY <1>1, <1>3, <2>2, <2>5 DEF Answered
  <2>7. Remembered(c)'
    BY <1>1 DEF Remembered, Unopened
  <2>8. \A d \in Clients : d # c => Answered(d)' /\ Remembered(d)'
    BY <1>1, <2>2, OtherClient
  <2> QED
    BY <2>3, <2>4, <2>6, <2>7, <2>8 DEF Inv
<1>6. CASE ForwardingError(requested) # "none"
  <2>1. /\ UNCHANGED hostnames
        /\ reply' = [reply EXCEPT ![c] = Message(c, requested, 0, ForwardingError(requested))]
    BY <1>6 DEF HttpOpen
  <2> QED
    BY <1>4, <1>6, <2>1
<1>7. CASE ForwardingError(requested) = "none"
  <2>1. PICK s \in Subdomains(requested) :
          LET in_use == \E x \in Clients : FullName(s) \in hostnames[x]
          IN /\ hostnames' = IF in_use THEN hostnames
                             ELSE [hostnames EXCEPT ![c] = {FullName(s)}]
             /\ reply' = [reply EXCEPT ![c] =
                  Message(c, FullName(s), 0, IF in_use THEN "InUse" ELSE "none")]
    BY <1>7 DEF HttpOpen
  <2>2. Routed(FullName(s))
    BY <1>2, <1>7, ForwardingRouted
  <2>3. CASE \E x \in Clients : FullName(s) \in hostnames[x]
    <3>1. /\ UNCHANGED hostnames
          /\ reply' = [reply EXCEPT ![c] = Message(c, FullName(s), 0, "InUse")]
      BY <2>1, <2>3
    <3> QED
      BY <1>4, <3>1
  <2>4. CASE ~ \E x \in Clients : FullName(s) \in hostnames[x]
    <3>1. /\ hostnames' = [hostnames EXCEPT ![c] = {FullName(s)}]
          /\ reply' = [reply EXCEPT ![c] = Message(c, FullName(s), 0, "none")]
      BY <2>1, <2>4
    <3> QED
      BY <1>5, <2>2, <2>4, <3>1
  <2> QED
    BY <2>3, <2>4
<1> QED
  BY <1>6, <1>7

\* PortOpen: a port that is opened is the one asked for, or ephemeral.
LEMMA PortOpenStep == ASSUME Inv, NEW c \in Clients, PortOpen(c)
                      PROVE  Inv'
<1> DEFINE remote == Parse(tunnel[c].remote)
           asked  == FromAddress(remote)
           ports  == IF asked.port = 0 THEN Ephemeral ELSE {asked.port}
           error  == PortError(remote)
<1>1. /\ UNCHANGED <<server, tunnel, hostnames, registered>>
      /\ tunnel[c].kind = "tcp" /\ Unopened(c)
  BY DEF PortOpen
<1>2. /\ ParseOk(tunnel[c].remote)
      /\ DOMAIN reply = Clients /\ port \in [Clients -> Ports]
  BY DEF Inv, Settings
<1>3. /\ TcpHostname' = TcpHostname /\ Local(c)' = Local(c)
      /\ \A h : Routed(h)' <=> Routed(h)
  BY <1>1, SettingsStay
<1>4. PICK p \in {0} \cup IF error = "none" THEN ports \ {port[x] : x \in Clients} ELSE {} :
        LET opened == OpenedAddr(asked, p)
        IN /\ port' = [port EXCEPT ![c] = p]
           /\ reply' = [reply EXCEPT ![c] =
                Message(c, opened.host, opened.port,
                        IF error = "none" /\ p = 0 THEN "InUse" ELSE error)]
  BY DEF PortOpen
<1>5. remote.port = tunnel[c].remote.port /\ remote.port \in Ports
  BY <1>2, LocalReached
<1>6. asked.port = remote.port
  BY <1>5, SixteenBits DEF FromAddress, Addr
<1>7. p \in Ports
  <2>1. p = 0 \/ p \in ports
    BY <1>4
  <2>2. ports \subseteq Ports
    BY <1>5, <1>6, PortsAssumption, PortFacts
  <2> QED
    BY <2>1, <2>2, PortFacts
<1>8. ASSUME error = "none", p # 0
      PROVE  p \in Unprivileged /\ tunnel[c].remote.port \in {0, p}
  <2>1. p \in ports
    BY <1>4, <1>8
  <2> HIDE DEF remote, asked
  <2>2. remote.port \notin 1 .. 1023
    <3>1. remote.port \in 1 .. 1023 => PortError(remote) = "PortNotAllowed"
      BY Zenon DEF PortError
    <3> QED
      BY <1>8, <3>1
  <2> HIDE DEF error
  <2>3. CASE asked.port = 0
    BY <1>5, <1>6, <2>1, <2>3, PortsAssumption
  <2>4. CASE asked.port # 0
    <3>1. p = asked.port
      BY <2>1, <2>4
    <3>2. asked.port \in Unprivileged
      <4>1. asked.port \in Ports
        BY <1>5, <1>6
      <4>2. asked.port = 0 \/ asked.port \in 1 .. 1023 \/ asked.port \in Unprivileged
        BY <4>1, PortFacts
      <4>3. asked.port \notin 1 .. 1023
        BY <1>6, <2>2
      <4> QED
        BY <2>4, <4>2, <4>3
    <3> QED
      BY <1>5, <1>6, <3>1, <3>2
  <2> QED
    BY <2>3, <2>4
<1>9. /\ port'[c] = p /\ port' \in [Clients -> Ports]
      /\ \A d \in Clients : d # c => port'[d] = port[d] /\ reply'[d] = reply[d]
  BY <1>2, <1>4, <1>7
<1>10. Settings'
  BY <1>1, <1>4, <1>9 DEF Inv, Settings
<1>11. Claimed'
  BY <1>1, <1>3 DEF Inv, Claimed
<1> HIDE DEF remote, asked, ports, error
<1>12. /\ reply'[c].kind = "tcp" /\ reply'[c].local = Local(c)
       /\ reply'[c].remote = Addr(OpenedAddr(asked, p).host, OpenedAddr(asked, p).port)
       /\ reply'[c].error = IF error = "none" /\ p = 0 THEN "InUse" ELSE error
  BY <1>1, <1>2, <1>4 DEF Message
<1>13. reply'[c].error = "none" => error = "none" /\ p # 0
  BY <1>12
<1>14. p # 0 => reply'[c].remote = FromHostAndPort(TcpHostname, p)
  BY <1>12 DEF OpenedAddr, FromHostAndPort, Addr
<1>15. Answered(c)'
  BY <1>1, <1>3, <1>8, <1>9, <1>12, <1>13, <1>14 DEF Answered, PortFits
<1>16. Remembered(c)'
  BY <1>1 DEF Remembered, Unopened
<1>17. \A d \in Clients : d # c => Answered(d)' /\ Remembered(d)'
  BY <1>1, <1>9, OtherClient
<1> QED
  BY <1>10, <1>11, <1>15, <1>16, <1>17 DEF Inv

\* http_register and port_register: np's table says what the answer says.
LEMMA OpenedStep == ASSUME Inv, NEW c \in Clients, Opened(c)
                    PROVE  Inv'
<1>1. /\ reply[c] # NoReply /\ reply' = [reply EXCEPT ![c] = NoReply]
      /\ UNCHANGED <<server, tunnel, hostnames, port>>
      /\ registered' = IF reply[c].error # "none" THEN registered
                       ELSE [registered EXCEPT ![c] =
                               [kind |-> reply[c].kind, local |-> FromAddress(reply[c].local),
                                key |-> IF reply[c].kind = "http" THEN reply[c].remote
                                        ELSE Display(FromAddress(reply[c].remote))]]
  BY DEF Opened
<1>2. DOMAIN reply = Clients /\ DOMAIN registered = Clients
  BY DEF Inv, Settings
<1>3. /\ TcpHostname' = TcpHostname /\ Local(c)' = Local(c)
      /\ \A h : Routed(h)' <=> Routed(h)
  BY <1>1, SettingsStay
<1>4. Settings'
  BY <1>1 DEF Inv, Settings
<1>5. Claimed'
  BY <1>1, <1>3 DEF Inv, Claimed
<1>6. reply'[c] = NoReply
  BY <1>1, <1>2
<1>7. Answered(c)'
  BY <1>6 DEF Answered
<1>8. Answered(c) /\ Remembered(c)
  BY DEF Inv
<1>9. ConnectKey(c)' = ConnectKey(c) /\ (PortFits(c)' <=> PortFits(c))
  BY <1>1, <1>3 DEF ConnectKey, PortFits
<1>10. Remembered(c)'
  <2>1. CASE reply[c].error # "none"
    BY <1>1, <1>3, <1>8, <1>9, <2>1 DEF Remembered
  <2>2. CASE reply[c].error = "none"
    <3>1. /\ registered'[c].kind = reply[c].kind
          /\ registered'[c].local = FromAddress(reply[c].local)
          /\ registered'[c].key = IF reply[c].kind = "http" THEN reply[c].remote
                                  ELSE Display(FromAddress(reply[c].remote))
      BY <1>1, <1>2, <2>2
    <3>2. registered'[c].kind = "http" => registered'[c].key.host \in hostnames'[c]
      BY <1>1, <1>8, <2>2, <3>1 DEF Answered
    <3>3. registered'[c].kind = "tcp" =>
            PortFits(c) /\ registered'[c].key = ConnectKey(c)
      BY <1>1, <1>8, <2>2, <3>1 DEF Answered, ConnectKey
    <3> QED
      BY <1>1, <1>3, <1>8, <1>9, <3>1, <3>2, <3>3 DEF Remembered, Answered
  <2> QED
    BY <2>1, <2>2
<1>11. \A d \in Clients : d # c => Answered(d)' /\ Remembered(d)'
  BY <1>1, <1>2, OtherClient
<1> QED
  BY <1>4, <1>5, <1>7, <1>10, <1>11 DEF Inv

\* The end of a session takes its names, its port and np's tables away.
LEMMA DisconnectStep == ASSUME Inv, NEW c \in Clients, Disconnect(c)
                        PROVE  Inv'
<1>1. /\ UNCHANGED <<server, tunnel>>
      /\ hostnames' = [hostnames EXCEPT ![c] = {}] /\ port' = [port EXCEPT ![c] = 0]
      /\ reply' = [reply EXCEPT ![c] = NoReply]
      /\ registered' = [registered EXCEPT ![c] = Nothing]
  BY DEF Disconnect
<1>2. /\ DOMAIN hostnames = Clients /\ DOMAIN reply = Clients /\ DOMAIN registered = Clients
      /\ port \in [Clients -> Ports]
  BY DEF Inv, Settings
<1>3. \A h : Routed(h)' <=> Routed(h)
  BY <1>1, SettingsStay
<1>4. /\ hostnames'[c] = {} /\ reply'[c] = NoReply /\ registered'[c] = Nothing
      /\ \A d \in Clients : d # c => /\ hostnames'[d] = hostnames[d] /\ port'[d] = port[d]
                                     /\ reply'[d] = reply[d] /\ registered'[d] = registered[d]
  BY <1>1, <1>2
<1>5. Settings'
  <2>1. port' \in [Clients -> Ports]
    BY <1>1, <1>2, PortFacts
  <2> QED
    BY <1>1, <1>2, <2>1 DEF Inv, Settings
<1>6. Claimed'
  BY <1>3, <1>4 DEF Inv, Claimed
<1>7. Answered(c)' /\ Remembered(c)'
  BY <1>4 DEF Answered, Remembered
<1>8. \A d \in Clients : d # c => Answered(d)' /\ Remembered(d)'
  BY <1>1, <1>4, OtherClient
<1> QED
  BY <1>5, <1>6, <1>7, <1>8 DEF Inv

-----------------------------------------------------------------------------
(* The theorems                                                            *)

\* The invariant holds in every reachable state: a name or port that np was
\* told of is in the tables of the server, routes to the forwarding handler,
\* and belongs to no other client.
THEOREM Invariant == Spec => []Inv
<1>1. Init => Inv
  <2> SUFFICES ASSUME Init
               PROVE  Inv
    OBVIOUS
  <2>1. Settings
    BY PortFacts DEF Init, Settings
  <2>2. \A c \in Clients : hostnames[c] = {} /\ reply[c] = NoReply /\ registered[c] = Nothing
    BY DEF Init
  <2> QED
    BY <2>1, <2>2 DEF Inv, Claimed, Answered, Remembered
<1>2. Inv /\ [Next]_vars => Inv'
  <2> SUFFICES ASSUME Inv, [Next]_vars
               PROVE  Inv'
    OBVIOUS
  <2>1. CASE \E c \in Clients : HttpOpen(c)
    BY <2>1, HttpOpenStep
  <2>2. CASE \E c \in Clients : PortOpen(c)
    BY <2>2, PortOpenStep
  <2>3. CASE \E c \in Clients : Opened(c)
    BY <2>3, OpenedStep
  <2>4. CASE \E c \in Clients : Disconnect(c)
    BY <2>4, DisconnectStep
  <2>5. CASE UNCHANGED vars
    <3>1. /\ UNCHANGED <<server, tunnel>>
          /\ UNCHANGED <<hostnames, port, reply, registered>>
      BY <2>5 DEF vars
    <3>2. \A c \in Clients : Answered(c)' /\ Remembered(c)'
      BY <3>1, OtherClient
    <3>3. Claimed'
      BY <3>1, SettingsStay DEF Inv, Claimed
    <3> QED
      BY <3>1, <3>2, <3>3 DEF Inv, Settings
  <2> QED
    BY <2>1, <2>2, <2>3, <2>4, <2>5 DEF Next
<1> QED
  BY <1>1, <1>2, PTL DEF Spec

\* Types; the ports in the messages have 16 bits.
THEOREM TypeCorrect == Spec => []TypeOK
<1>1. Inv => TypeOK
  <2> SUFFICES ASSUME Inv
               PROVE  TypeOK
    OBVIOUS
  <2>1. server \in Servers /\ tunnel \in [Clients -> Tunnels] /\ port \in [Clients -> Ports]
    BY DEF Inv, Settings
  <2>2. ASSUME NEW c \in Clients
        PROVE  /\ \A h \in hostnames[c] : Len(h) \in Nat
               /\ reply[c].kind \in {"none", "http", "tcp"}
               /\ reply[c] # NoReply => reply[c].local.port \in Ports
               /\ registered[c].kind \in {"none", "http", "tcp"}
    <3>1. tunnel[c].kind \in {"http", "tcp"} /\ ParseOk(tunnel[c].local)
      BY TunnelsAssumption DEF Inv, Settings
    <3>2. Local(c).port \in Ports
      BY <3>1, LocalReached DEF Local
    <3>3. Answered(c) /\ Remembered(c)
      BY DEF Inv
    <3>4. NoReply.kind = "none" /\ Nothing.kind = "none"
      BY DEF NoReply, Nothing
    <3>5. \A h \in hostnames[c] : Len(h) \in Nat
      BY DEF Inv, Claimed, Routed, Names
    <3> QED
      BY <3>1, <3>2, <3>3, <3>4, <3>5 DEF Answered, Remembered
  <2> QED
    BY <2>1, <2>2 DEF TypeOK
<1> QED
  BY <1>1, Invariant, PTL

\* A hostname np has registered works, however the settings spell it: every
\* request to it goes to the forwarding handler, to this client and no other,
\* and from np to the local address of the settings.
THEOREM HttpWorks == Spec => []HttpReaches
<1>1. Inv => HttpReaches
  <2> SUFFICES ASSUME Inv, NEW c \in Clients, registered[c].kind = "http"
               PROVE  LET name == registered[c].key.host
                          host == [name |-> Lower(name), port |-> 0]
                      IN /\ \A path \in SitePaths \cup {ConnectPath}, tls \in BOOLEAN :
                              Handler(host, path, tls) = "forward"
                         /\ Forwarded(host) = {c}
                         /\ \/ registered[c].local.host \in V6Names
                            \/ SameAddr(tunnel[c].local, HttpTarget(registered[c].local))
    BY DEF HttpReaches
  <2> DEFINE name == registered[c].key.host
             host == [name |-> Lower(name), port |-> 0]
  <2>1. /\ name \in hostnames[c] /\ registered[c].local = FromAddress(Local(c))
        /\ ParseOk(tunnel[c].local)
    <3>1. registered[c] # Nothing
      BY DEF Nothing
    <3> QED
      BY <3>1 DEF Inv, Remembered, Settings
  <2>2. Routed(name) /\ \A d \in Clients : name \in hostnames[d] => d = c
    BY <2>1 DEF Inv, Claimed
  <2> HIDE DEF name
  <2>3. host.name = name /\ host.port = 0
    BY <2>2 DEF Routed
  <2> HIDE DEF host
  <2>4. \A path, tls : Handler(host, path, tls) = "forward"
    BY <2>2, <2>3 DEF Handler, HostName, Routed
  <2>5. Forwarded(host) = {c}
    BY <2>1, <2>2, <2>3 DEF Forwarded
  <2>6. \/ registered[c].local.host \in V6Names
        \/ SameAddr(tunnel[c].local, HttpTarget(registered[c].local))
    BY <2>1, LocalReached DEF HttpTarget, Local
  <2> QED
    BY <2>4, <2>5, <2>6 DEF host, name
<1> QED
  BY <1>1, Invariant, PTL

\* A port np has registered works: np knows the origin of the connections the
\* server announces, the port is the one asked for and not privileged, and np
\* connects to the local address of the settings.
THEOREM TcpWorks == Spec => []TcpReaches
<1>1. Inv => TcpReaches
  <2> SUFFICES ASSUME Inv, NEW c \in Clients, registered[c].kind = "tcp"
               PROVE  /\ registered[c].key = ConnectKey(c)
                      /\ port[c] \in Unprivileged
                      /\ tunnel[c].remote.port \in {0, port[c]}
                      /\ SameAddr(tunnel[c].local, Display(registered[c].local))
    BY DEF TcpReaches
  <2>1. registered[c] # Nothing
    BY DEF Nothing
  <2>2. /\ registered[c].key = ConnectKey(c) /\ PortFits(c)
        /\ registered[c].local = FromAddress(Local(c)) /\ ParseOk(tunnel[c].local)
    BY <2>1 DEF Inv, Remembered, Settings
  <2>3. SameAddr(tunnel[c].local, Display(registered[c].local))
    BY <2>2, LocalReached DEF Local
  <2> QED
    BY <2>2, <2>3 DEF PortFits
<1> QED
  BY <1>1, Invariant, PTL
=============================================================================
