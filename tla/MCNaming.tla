------------------------------ MODULE MCNaming ------------------------------
EXTENDS Naming

Labels == {"", "nport", "io", "api", "Api", "tcp", "www", "WWW", "app", "App",
           "app_1", "rusty-nail-1", "10", "0", "1", "7", "127", "2001:db8::1",
           "::1", "localhost"}

MCLowerOf == [l \in Labels |-> IF l = "Api" THEN "api"
                               ELSE IF l = "App" THEN "app"
                               ELSE IF l = "WWW" THEN "www" ELSE l]

MCValidLabels == Labels \ {"", "app_1", "2001:db8::1", "::1"}

Io == <<"nport", "io">>

MCServers ==
  {[domain |-> d, api |-> a, tcp |-> t, blocklist |-> b, httpsPort |-> p] :
     d \in {Io}, a \in {Empty, <<"Api">>}, t \in {Empty, <<"tcp">>},
     b \in {{<<"www">>}}, p \in {443, 8443}}
  \cup {[domain |-> Empty, api |-> Empty, tcp |-> Empty, blocklist |-> {},
         httpsPort |-> 0]}

V6   == <<"2001:db8::1">>
Lan  == <<"10", "0", "0", "7">>
Text(host, p) == [host |-> host, port |-> p]

HttpTunnel(host, local) == [kind |-> "http", remote |-> Text(host, 0), local |-> local]
TcpTunnel(remote, local) == [kind |-> "tcp", remote |-> remote, local |-> local]

MCTunnels ==
  {HttpTunnel(h, Text(NoHost, 3000)) :
     h \in {Empty, <<"app">>, <<"App">>, <<"app_1">>, <<"api">>, <<"tcp">>,
            <<"WWW">>, <<"app">> \o Io, <<"App">> \o Io, Io, Empty \o Io,
            <<"app", "api">>}}
  \cup {HttpTunnel(<<"app">>, l) : l \in {Text(V6, 3000), Text(Lan, 3000),
                                          Text(<<"::1">>, 3000), Text(NoHost, 65536)}}
  \cup {TcpTunnel(Text(h, p), Text(Lan, 3000)) :
          h \in {NoHost, Io, <<"tcp">> \o Io, Localhost}, p \in {0, 80, 9999}}
  \cup {TcpTunnel(Text(NoHost, 65536), Text(V6, 3000)),
        TcpTunnel(Text(NoHost, 65535), Text(V6, 3000))}

MCGenerated == {<<"rusty-nail-1">>}
MCLoopbackNames == {<<"127", "0", "0", "1">>, <<"::1">>}
MCV6Names == {V6, <<"::1">>}
=============================================================================
