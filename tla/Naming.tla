------------------------------- MODULE Naming -------------------------------
(***************************************************************************)
(* Names and addresses on their way through the system: what np reads from *)
(* its settings and asks for, what the server makes of it (config.rs,      *)
(* hostname.rs, msghandlers), the keys under which both ends remember the  *)
(* tunnel, and how a user's request or connection finds its way back to    *)
(* the local address (implementation.rs, websockets.rs, port_server.rs,    *)
(* libnp).  The tables behind the names are module Registry's; here every  *)
(* message is handled in one step.                                         *)
(*                                                                         *)
(* A name is the sequence of its labels: the empty string is <<"">>, and   *)
(* .example.com is <<"", "example", "com">>.  An address is a host and a   *)
(* port; NoHost is the None of Option.                                     *)
(***************************************************************************)
EXTENDS Integers, Sequences

CONSTANTS Clients,      \* np instances, each with one tunnel
          Servers,      \* configurations of the server
          Tunnels,      \* tunnels in the settings of np
          LowerOf,      \* the lower case of each label
          ValidLabels,  \* letters, digits and inner hyphens, at most 63
          Generated,    \* names::Generator
          Ephemeral,    \* ports the system gives out
          LoopbackNames, V6Names  \* loopback addresses; IPv6 addresses

MaxPort      == 65535   \* u16
Ports        == 0 .. MaxPort
Unprivileged == 1024 .. MaxPort

ASSUME PortsAssumption == Ephemeral \subseteq Unprivileged

\* What lower case and validation do to a label.
ASSUME LabelsAssumption ==
  /\ \A l \in DOMAIN LowerOf : /\ LowerOf[l] \in DOMAIN LowerOf
                               /\ LowerOf[LowerOf[l]] = LowerOf[l]
  /\ ValidLabels \subseteq DOMAIN LowerOf \ {""}

Empty     == <<"">>
NoHost    == <<>>
Localhost == <<"localhost">>
Default   == <<"127", "0", "0", "1">>   \* DEFAULT_ADDR_HOST

Lower(name) == [i \in DOMAIN name |-> LowerOf[name[i]]]

\* The names that occur: of labels that have a lower case, at least one.
Names == Seq(DOMAIN LowerOf) \ {<<>>}

\* The operator writes the domain in lower case: Hostnames::new lowers the
\* subdomains of the API and of TCP, and not the domain.
ASSUME ServersAssumption == \A s \in Servers :
  s.domain \in Names /\ Lower(s.domain) = s.domain /\ s.api \in Names

ASSUME TunnelsAssumption == \A t \in Tunnels :
  t.kind \in {"http", "tcp"} /\ (t.kind = "http" => t.remote.host \in Names)

\* names::Generator makes one valid label in lower case.  Nothing checks it
\* against the subdomain of the API, which therefore must not look like it.
ASSUME GeneratedAssumption == \A g \in Generated :
  /\ g \in Names /\ Len(g) = 1 /\ g[1] \in ValidLabels /\ Lower(g) = g
  /\ \A s \in Servers : g # Lower(s.api)

VARIABLES
  server,      \* Config, as far as names are concerned; never changes
  tunnel,      \* the tunnel of each client; never changes
  hostnames,   \* Client.hostnames at the server
  port,        \* the port the server listens on for a client, or 0
  reply,       \* HttpOpened or PortOpened on its way to np, or NoReply
  registered   \* http_forwardings and port_forwardings of np: at most one

vars == <<server, tunnel, hostnames, port, reply, registered>>

-----------------------------------------------------------------------------
(* Addresses: libnp                                                        *)

Addr(host, p) == [host |-> host, port |-> p]

FromHostAndPort(host, p) ==
  Addr(IF host \in LoopbackNames \cup {Empty, Localhost} THEN NoHost ELSE host, p)

\* to_address widens the port to 32 bits, from_address cuts it to 16.
FromAddress(address) == Addr(address.host, address.port % (MaxPort + 1))

ParseWide(text) == text.port \in Nat

\* A number or host:port in the settings; a port is 16 bits or an error.
ParseOk(text) == text.port \in Ports

Parse(text) == IF text.host = NoHost THEN Addr(NoHost, text.port)
                                     ELSE FromHostAndPort(text.host, text.port)

\* Display, and with it port_origin and the address np connects to.
Display(a) == Addr(IF a.host = NoHost THEN Default ELSE a.host, a.port)

\* The address of a local HTTP request: as Display, but an IPv6 host gets no
\* brackets and the URI does not parse.
HttpTarget(a) == IF a.host \in V6Names THEN "invalid URI" ELSE Display(a)

-----------------------------------------------------------------------------
(* Names: config.rs, hostname.rs, common.rs                                *)

NewHostname(host) == IF host = Empty THEN server.domain ELSE host \o server.domain

Api == Lower(server.api)
Tcp == Lower(server.tcp)
ApiHostname == NewHostname(Api)
TcpHostname == NewHostname(Tcp)

IsNeverUsed(subdomain) == FALSE

IsSubdomainUsed(subdomain) == Lower(subdomain) \in {Api, Tcp}

IsSubdomainBlocked(subdomain) ==
  \E item \in server.blocklist : Lower(item) = Lower(subdomain)

\* The name without a suffix "." and the domain.
StripDomain(name) ==
  LET rest == Len(name) - Len(server.domain)
  IN IF rest > 0 /\ SubSeq(name, rest + 1, Len(name)) = server.domain
     THEN SubSeq(name, 1, rest) ELSE name

NormalizedClientSubdomain(subdomain) == StripDomain(Lower(subdomain))

IsValid(name) == \A i \in DOMAIN name : name[i] \in ValidLabels

\* subdomain_for_forwarding: its error, or the subdomains it may come to.
ForwardingError(requested) ==
  LET name == NormalizedClientSubdomain(requested)
  IN IF requested = Empty THEN "none"
     ELSE IF ~IsValid(name) \/ Len(name) > 1 THEN "Invalid"
     ELSE IF IsSubdomainUsed(name) \/ IsSubdomainBlocked(name) THEN "Disallowed"
     ELSE "none"

Subdomains(requested) == IF requested = Empty THEN Generated
                         ELSE {NormalizedClientSubdomain(requested)}

FullName(subdomain) == IF server.domain = Empty THEN subdomain
                                                ELSE subdomain \o server.domain

\* validate_open of a PortOpen.  The domain is stripped from the request and
\* not from tcp_hostname: where that is a subdomain, every host is refused.
PortError(remote) ==
  IF remote.port \in 1 .. 1023 THEN "PortNotAllowed"
  ELSE IF /\ remote.host # NoHost
          /\ NormalizedClientSubdomain(remote.host) # TcpHostname
       THEN "HostNotAllowed"
  ELSE "none"

-----------------------------------------------------------------------------
(* Opening a tunnel                                                        *)

NoReply  == [kind |-> "none"]
Nothing  == [kind |-> "none"]

Local(c) == Parse(tunnel[c].local)

\* HttpOpened and PortOpened: name and port of the remote end, local address.
Message(c, host, p, error) ==
  [kind |-> tunnel[c].kind, remote |-> Addr(host, p), local |-> Local(c),
   error |-> error]

Init ==
  /\ server \in Servers
  /\ tunnel \in [Clients -> {t \in Tunnels : ParseOk(t.local) /\ ParseOk(t.remote)}]
  /\ hostnames = [c \in Clients |-> {}]
  /\ port = [c \in Clients |-> 0]
  /\ reply = [c \in Clients |-> NoReply]
  /\ registered = [c \in Clients |-> Nothing]

\* The tunnel of c is neither open nor being opened.  (np asks once in a
\* session: a session in which it was refused ends unnoticed here.)
Unopened(c) == reply[c] = NoReply /\ registered[c] = Nothing
               /\ hostnames[c] = {} /\ port[c] = 0

\* HttpOpen and its handler.  The hostname of the settings is sent as it is.
HttpOpen(c) ==
  /\ Unopened(c) /\ tunnel[c].kind = "http"
  /\ LET requested == tunnel[c].remote.host
         error     == ForwardingError(requested)
     IN \/ /\ error # "none"
           /\ reply' = [reply EXCEPT ![c] = Message(c, requested, 0, error)]
           /\ UNCHANGED hostnames
        \/ /\ error = "none"
           /\ \E subdomain \in Subdomains(requested) :
                LET name   == FullName(subdomain)
                    in_use == \E x \in Clients : name \in hostnames[x]
                IN /\ hostnames' = IF in_use THEN hostnames
                                   ELSE [hostnames EXCEPT ![c] = {name}]
                   /\ reply' = [reply EXCEPT ![c] =
                        Message(c, name, 0, IF in_use THEN "InUse" ELSE "none")]
  /\ UNCHANGED <<server, tunnel, port, registered>>

OpenedAsAsked(asked, p) == FromHostAndPort(TcpHostname, asked.port)

\* The address in PortOpened: of the listener, or what was asked for when
\* there is none.
OpenedAddr(asked, p) == FromHostAndPort(TcpHostname, IF p = 0 THEN asked.port ELSE p)

\* PortOpen, its handler and port_server::server: p is the port it listens
\* on, 0 when the open is refused or the bind fails.
PortOpen(c) ==
  /\ Unopened(c) /\ tunnel[c].kind = "tcp"
  /\ LET remote == Parse(tunnel[c].remote)
         asked  == FromAddress(remote)
         taken  == {port[x] : x \in Clients}
         ports  == IF asked.port = 0 THEN Ephemeral ELSE {asked.port}
         error  == PortError(remote)
     IN \E p \in {0} \cup IF error = "none" THEN ports \ taken ELSE {} :
          LET opened == OpenedAddr(asked, p)
          IN /\ port' = [port EXCEPT ![c] = p]
             /\ reply' = [reply EXCEPT ![c] =
                  Message(c, opened.host, opened.port,
                          IF error = "none" /\ p = 0 THEN "InUse" ELSE error)]
  /\ UNCHANGED <<server, tunnel, hostnames, registered>>

\* http_register and port_register: the key is the hostname or the origin.
Opened(c) ==
  LET m == reply[c]
  IN /\ m # NoReply
     /\ reply' = [reply EXCEPT ![c] = NoReply]
     /\ registered' = IF m.error # "none" THEN registered
                      ELSE [registered EXCEPT ![c] =
                              [kind |-> m.kind, local |-> FromAddress(m.local),
                               key |-> IF m.kind = "http" THEN m.remote
                                       ELSE Display(FromAddress(m.remote))]]
     /\ UNCHANGED <<server, tunnel, hostnames, port>>

\* The session ends; np comes back without it.
Disconnect(c) ==
  /\ ~Unopened(c)
  /\ hostnames' = [hostnames EXCEPT ![c] = {}]
  /\ port' = [port EXCEPT ![c] = 0]
  /\ reply' = [reply EXCEPT ![c] = NoReply]
  /\ registered' = [registered EXCEPT ![c] = Nothing]
  /\ UNCHANGED <<server, tunnel>>

Next == \E c \in Clients : HttpOpen(c) \/ PortOpen(c) \/ Opened(c) \/ Disconnect(c)

Spec == Init /\ [][Next]_vars

-----------------------------------------------------------------------------
(* Using it                                                                *)

\* A Host header is a name and a port, 0 where it has none.
SitePaths == {"/", "/stats", "/build_info.json"}
ConnectPath == "/v1/connect"

WithPort(host) == IF host.port = 0 THEN host.name ELSE <<"name:port">>

\* The chooser splits the port off.
HostName(host) == host.name

\* The chooser of build_app and the routes of the router it chooses; tls: the
\* request came in over HTTPS (via_tls).
Handler(host, path, tls) ==
  LET name    == HostName(host)
      toTls   == server.httpsPort > 0 /\ ~tls   \* to_tls_middleware
  IN IF name = ApiHostname /\ path = ConnectPath
     THEN IF toTls THEN "redirect" ELSE "websocket"
     ELSE IF name = server.domain
     THEN IF path \notin SitePaths THEN "static"
          ELSE IF toTls THEN "redirect" ELSE "site"
     ELSE "forward"

\* Where to_tls_middleware redirects: always to the main hostname.
RedirectTo == [name |-> server.domain,
               port |-> IF server.httpsPort = 443 THEN 0 ELSE server.httpsPort]

\* forward and enqueue_request: the client whose hostname is the Host header
\* as it stands, a port included.
Forwarded(host) == {c \in Clients : host.port = 0 /\ host.name \in hostnames[c]}

\* serve_socket: the address in PortConnect, and the key np looks up.
ConnectKey(c) == Display(FromAddress(FromHostAndPort(TcpHostname, port[c])))

\* The addresses of the settings and of np's connection are the same, all
\* loopback addresses being one.
SameAddr(text, a) == /\ a.port = text.port
                     /\ \/ a.host = text.host
                        \/ a.host = Default
                           /\ text.host \in LoopbackNames \cup {Empty, Localhost, NoHost}

-----------------------------------------------------------------------------
(* Properties                                                              *)

\* Types of the state; the ports in np's messages have 16 bits.
TypeOK ==
  /\ server \in Servers /\ tunnel \in [Clients -> Tunnels]
  /\ \A c \in Clients : /\ \A h \in hostnames[c] : Len(h) \in Nat
                        /\ reply[c].kind \in {"none", "http", "tcp"}
                        /\ reply[c] # NoReply => reply[c].local.port \in Ports
                        /\ registered[c].kind \in {"none", "http", "tcp"}
  /\ port \in [Clients -> Ports]

\* A hostname np has registered works: a request to it, on every path, goes
\* to the forwarding handler and not to the site or the API, is looked up to
\* this client and no other, and ends at the local address of the settings;
\* whatever the spelling of the name in the settings.  (Two exceptions: a Host
\* header with a port, and local HTTP addresses that are IPv6.)
HttpReaches ==
  \A c \in Clients : registered[c].kind = "http" =>
    LET name == registered[c].key.host
        host == [name |-> Lower(name), port |-> 0]
    IN /\ \A path \in SitePaths \cup {ConnectPath}, tls \in BOOLEAN :
            Handler(host, path, tls) = "forward"
       /\ Forwarded(host) = {c}
       /\ \/ registered[c].local.host \in V6Names
          \/ SameAddr(tunnel[c].local, HttpTarget(registered[c].local))

\* A port np has registered works: the origin of the connections the server
\* announces is the one np remembers, the port is the one the settings ask
\* for, through the 32-bit port of the protocol, and never a privileged one,
\* and np connects to the local address of the settings.
TcpReaches ==
  \A c \in Clients : registered[c].kind = "tcp" =>
    /\ registered[c].key = ConnectKey(c)
    /\ port[c] \in Unprivileged
    /\ tunnel[c].remote.port \in {0, port[c]}
    /\ SameAddr(tunnel[c].local, Display(registered[c].local))

\* A page of the site asked for over HTTP is served at the end of its
\* redirect, on whatever HTTPS port: no redirect to a redirect, or to the
\* forwarding handler.
RedirectsLand ==
  \A path \in SitePaths, p \in {0, 8080} :
    LET first == Handler([name |-> server.domain, port |-> p], path, FALSE)
    IN first = "redirect" => Handler(RedirectTo, path, TRUE) = "site"
=============================================================================
