---------------------------- MODULE HttpForward -----------------------------
(***************************************************************************)
(* An HTTP request forwarded through nport: the task that serves a user's  *)
(* request (handlers/websockets.rs forward, enqueue_request,               *)
(* forward_request), the task of the client's websocket (handle_socket,    *)
(* msghandlers/http.rs, client.rs) and np, which handles one message at a  *)
(* time (lib.rs run, dispatch/http.rs request).                            *)
(*                                                                         *)
(* One client, one hostname, one websocket: the hostname is `owned' from   *)
(* its claim to the client's deregistration (module Registry shows that a  *)
(* lookup returns what the registry held at some moment of it, so it is    *)
(* one step here).  A member of Requests is one request of a user and the  *)
(* uuid it is given.  Headers and bodies are left out: what a response     *)
(* tells apart is the request it belongs to and whether it is data or an   *)
(* error.                                                                  *)
(***************************************************************************)
EXTENDS Integers, Sequences, FiniteSets

CONSTANTS Requests,   \* requests of users for the hostname
          ViaTls,     \* those that arrived on the HTTPS port
          NoRequest,  \* np is handling no request
          WsCap       \* bound: messages in flight in one direction

ASSUME HttpAssumption == /\ ViaTls \subseteq Requests
                         /\ NoRequest \notin Requests
                         /\ WsCap \in Nat \ {0}

VARIABLES
  handler,   \* handle_socket: open, opened, recv, closing, gone
  owned,     \* the registry forwards the hostname to this client
  rtask,     \* task of a request: new, found, sending, waiting, replied,
             \*   aborted (the user went away and the task was dropped)
  pending,   \* Client.http_requests
  answer,    \* what the oneshot of a request holds: none, data, error
  status,    \* the status the user got, 200 for whatever np answered, or 0
  s2c,       \* messages from the server to np
  c2s,       \* messages from np to the server
  wsUp,      \* neither end nor the network has closed the websocket
  npLoop,    \* run: recv, fetching, reply, reconnecting
  npOpen,    \* Client.http_forwardings of np has the hostname
  npRequest, \* the request np is handling
  npPayload, \* reply: data or error
  fetched    \* history: what became of the request at np: none, data, error

serverVars == <<handler, owned, rtask, pending, answer, status>>
npVars     == <<npLoop, npOpen, npRequest, npPayload, fetched>>
wsVars     == <<s2c, c2s, wsUp>>
vars       == <<serverVars, npVars, wsVars>>

HttpOpened == [kind |-> "opened", req |-> NoRequest, scheme |-> "none"]

\* The scheme np is told (server.proto: "Scheme used for the request"; the
\* code has the two the wrong way round).
SchemeOf(r) == IF r \in ViaTls THEN "http" ELSE "https"

HttpRequest(r) == [kind |-> "request", req |-> r, scheme |-> SchemeOf(r)]

Requested == [kind : {"request"}, req : Requests, scheme : {"http", "https"}]

Responses == [req : Requests, payload : {"data", "error"}]

TypeOK ==
  /\ handler \in {"open", "opened", "recv", "closing", "gone"}
  /\ owned \in BOOLEAN
  /\ rtask \in [Requests -> {"new", "found", "sending", "waiting", "replied",
                             "aborted"}]
  /\ pending \in SUBSET Requests
  /\ answer \in [Requests -> {"none", "data", "error"}]
  /\ status \in [Requests -> {0, 200, 404, 500, 502, 504}]
  /\ s2c \in Seq({HttpOpened} \cup Requested) /\ Len(s2c) <= WsCap
  /\ c2s \in Seq(Responses) /\ Len(c2s) <= WsCap
  /\ wsUp \in BOOLEAN
  /\ npLoop \in {"recv", "fetching", "reply", "reconnecting"}
  /\ npOpen \in BOOLEAN
  /\ npRequest \in Requests \cup {NoRequest}
  /\ npLoop \in {"fetching", "reply"} => npRequest \in Requests
  /\ npPayload \in {"data", "error"}
  /\ fetched \in [Requests -> {"none", "data", "error"}]

Init ==
  /\ handler = "open"
  /\ owned = FALSE
  /\ rtask = [r \in Requests |-> "new"]
  /\ pending = {}
  /\ answer = [r \in Requests |-> "none"]
  /\ status = [r \in Requests |-> 0]
  /\ s2c = <<>> /\ c2s = <<>> /\ wsUp = TRUE
  /\ npLoop = "recv"
  /\ npOpen = FALSE
  /\ npRequest = NoRequest
  /\ npPayload = "data"
  /\ fetched = [r \in Requests |-> "none"]

\* A strong reference to the Client exists: handle_socket has one, and so
\* has a request from the lookup until its HttpRequest is sent.  When there
\* is none the websocket is closed and http_requests is dropped with the
\* oneshot senders in it.
Alive(h, rt) == h # "gone" \/ \E r \in Requests : rt[r] \in {"found", "sending"}

ClientAlive == Alive(handler, rtask)

\* Client::send: on a broken websocket it fails, on a full one it waits.
Send(m) == wsUp /\ Len(s2c) < WsCap /\ s2c' = Append(s2c, m)

SendFails == ~wsUp /\ UNCHANGED s2c

\* The rest of a step of the server.
ServerFrame == wsUp' = (wsUp /\ Alive(handler', rtask')) /\ UNCHANGED npVars

-----------------------------------------------------------------------------
(* handle_socket                                                           *)

\* http::open: claim the hostname; from now on requests find the client.
Open ==
  /\ handler = "open"
  /\ handler' = "opened"
  /\ owned' = TRUE
  /\ UNCHANGED <<rtask, pending, answer, status, s2c, c2s>> /\ ServerFrame

\* http::open: tell np.
OpenReply ==
  /\ handler = "opened"
  /\ \/ Send(HttpOpened) /\ handler' = "recv"
     \/ SendFails /\ handler' = "closing"
  /\ UNCHANGED <<owned, rtask, pending, answer, status, c2s>> /\ ServerFrame

HandleResponseAnyPending ==
  /\ handler = "recv" /\ c2s # <<>>
  /\ c2s' = Tail(c2s)
  /\ \/ \E r \in pending :
          /\ pending' = pending \ {r}
          /\ answer' = [answer EXCEPT ![r] = Head(c2s).payload]
          /\ UNCHANGED handler
     \/ pending = {} /\ handler' = "closing" /\ UNCHANGED <<pending, answer>>
  /\ UNCHANGED <<owned, rtask, status, s2c>> /\ ServerFrame

\* http::response: hand the response to the task that waits for it, if it
\* still does (the result of the oneshot's send is ignored); a response for
\* no known request ends the session.
HandleResponse ==
  /\ handler = "recv" /\ c2s # <<>>
  /\ c2s' = Tail(c2s)
  /\ LET r == Head(c2s).req IN
       \/ /\ r \in pending
          /\ pending' = pending \ {r}
          /\ answer' = [answer EXCEPT ![r] =
                          IF rtask[r] = "waiting" THEN Head(c2s).payload ELSE @]
          /\ UNCHANGED handler
       \/ /\ r \notin pending
          /\ handler' = "closing"
          /\ UNCHANGED <<pending, answer>>
  /\ UNCHANGED <<owned, rtask, status, s2c>> /\ ServerFrame

\* recv fails: the websocket is closed and everything received is handled.
RecvFails ==
  /\ handler = "recv" /\ ~wsUp /\ c2s = <<>>
  /\ handler' = "closing"
  /\ UNCHANGED <<owned, rtask, pending, answer, status, s2c, c2s>>
  /\ ServerFrame

\* deregister; handle_socket ends and drops its reference.
HandlerEnds ==
  /\ handler = "closing"
  /\ handler' = "gone"
  /\ owned' = FALSE
  /\ UNCHANGED <<rtask, pending, answer, status, s2c, c2s>> /\ ServerFrame

-----------------------------------------------------------------------------
(* The task of a request                                                   *)

Reply(r, code) == /\ rtask' = [rtask EXCEPT ![r] = "replied"]
                  /\ status' = [status EXCEPT ![r] = code]

\* enqueue_request: get_by_http_hostname; 404 if nobody owns the hostname.
LookUp(r) ==
  /\ rtask[r] = "new"
  /\ \/ owned /\ rtask' = [rtask EXCEPT ![r] = "found"] /\ UNCHANGED status
     \/ ~owned /\ Reply(r, 404)
  /\ UNCHANGED <<handler, owned, pending, answer, s2c, c2s>> /\ ServerFrame

\* enqueue_request: register_http_request.
RegisterRequest(r) ==
  /\ rtask[r] = "found"
  /\ rtask' = [rtask EXCEPT ![r] = "sending"]
  /\ pending' = pending \cup {r}
  /\ UNCHANGED <<handler, owned, answer, status, s2c, c2s>> /\ ServerFrame

SendRequestRetries(r) ==
  /\ rtask[r] = "sending"
  /\ \/ Send(HttpRequest(r)) /\ rtask' = [rtask EXCEPT ![r] = "waiting"]
     \/ SendFails /\ rtask' = [rtask EXCEPT ![r] = "found"]
  /\ UNCHANGED <<handler, owned, pending, answer, status, c2s>> /\ ServerFrame

\* enqueue_request: send the HttpRequest.  A failure is a 404 as well, and
\* leaves the entry in http_requests.
SendRequest(r) ==
  /\ rtask[r] = "sending"
  /\ \/ /\ Send(HttpRequest(r))
        /\ rtask' = [rtask EXCEPT ![r] = "waiting"]
        /\ UNCHANGED status
     \/ SendFails /\ Reply(r, 404)
  /\ UNCHANGED <<handler, owned, pending, answer, c2s>> /\ ServerFrame

\* forward_request: status_code of what the oneshot delivered.
StatusOf(payload) == IF payload = "data" THEN 200 ELSE 502

\* forward_request: the oneshot has the response.
Answered(r) ==
  /\ rtask[r] = "waiting" /\ answer[r] # "none"
  /\ Reply(r, StatusOf(answer[r]))
  /\ UNCHANGED <<handler, owned, pending, answer, s2c, c2s>> /\ ServerFrame

TimeoutForgets(r) ==
  /\ rtask[r] = "waiting" /\ answer[r] = "none"
  /\ Reply(r, 504)
  /\ pending' = pending \ {r}
  /\ UNCHANGED <<handler, owned, answer, s2c, c2s>> /\ ServerFrame

TimeoutRetries(r) ==
  /\ rtask[r] = "waiting" /\ answer[r] = "none"
  /\ rtask' = [rtask EXCEPT ![r] = "sending"]
  /\ UNCHANGED <<handler, owned, pending, answer, status, s2c, c2s>>
  /\ ServerFrame

\* forward_request: client_request_timeout_secs have passed.  (An answer that
\* is there is seen first.)  The entry in http_requests stays.
Timeout(r) ==
  /\ rtask[r] = "waiting" /\ answer[r] = "none"
  /\ Reply(r, 504)
  /\ UNCHANGED <<handler, owned, pending, answer, s2c, c2s>> /\ ServerFrame

\* forward_request: the sender of the oneshot was dropped with the Client.
SenderDropped(r) ==
  /\ rtask[r] = "waiting" /\ answer[r] = "none"
  /\ ~ClientAlive
  /\ Reply(r, 500)
  /\ UNCHANGED <<handler, owned, pending, answer, s2c, c2s>> /\ ServerFrame

\* The user goes away and the task is dropped wherever it waits.
Abort(r) ==
  /\ rtask[r] \in {"found", "sending", "waiting"}
  /\ rtask' = [rtask EXCEPT ![r] = "aborted"]
  /\ UNCHANGED <<handler, owned, pending, answer, status, s2c, c2s>>
  /\ ServerFrame

-----------------------------------------------------------------------------
(* np                                                                      *)

\* What np finds out about request r, and that it is about to answer so.
Settle(r, payload) == /\ npLoop' = "reply"
                      /\ npPayload' = payload
                      /\ fetched' = [fetched EXCEPT ![r] = payload]

\* HttpOpened: http_register.
NpOpened ==
  /\ npLoop = "recv" /\ s2c # <<>> /\ Head(s2c).kind = "opened"
  /\ s2c' = Tail(s2c)
  /\ npOpen' = TRUE
  /\ UNCHANGED <<npLoop, npRequest, npPayload, fetched, serverVars, c2s, wsUp>>

NpTakesRequestUnset ==
  /\ npLoop = "recv" /\ s2c # <<>> /\ Head(s2c).kind = "request"
  /\ s2c' = Tail(s2c)
  /\ npOpen /\ npLoop' = "fetching"
  /\ UNCHANGED <<npRequest, npPayload, fetched, npOpen, serverVars, c2s, wsUp>>

\* HttpRequest: ask the local service, unless the hostname is not known yet.
NpTakesRequest ==
  /\ npLoop = "recv" /\ s2c # <<>> /\ Head(s2c).kind = "request"
  /\ s2c' = Tail(s2c)
  /\ npRequest' = Head(s2c).req
  /\ \/ npOpen /\ npLoop' = "fetching" /\ UNCHANGED <<npPayload, fetched>>
     \/ ~npOpen /\ Settle(Head(s2c).req, "error")
  /\ UNCHANGED <<npOpen, serverVars, c2s, wsUp>>

\* send_request returns: a response, or one of the errors.
NpFetched ==
  /\ npLoop = "fetching"
  /\ \E p \in {"data", "error"} : Settle(npRequest, p)
  /\ UNCHANGED <<npOpen, npRequest, serverVars, wsVars>>

\* request: send the HttpResponse; a failure is logged by run.
NpReplies ==
  /\ npLoop = "reply"
  /\ \/ /\ wsUp /\ Len(c2s) < WsCap
        /\ c2s' = Append(c2s, [req |-> npRequest, payload |-> npPayload])
     \/ ~wsUp /\ UNCHANGED c2s
  /\ npLoop' = "recv"
  /\ UNCHANGED <<npOpen, npRequest, npPayload, fetched, serverVars, s2c, wsUp>>

\* recv fails: np leaves the read loop; what it does next belongs to another
\* websocket.
NpRecvFails ==
  /\ npLoop = "recv" /\ ~wsUp /\ s2c = <<>>
  /\ npLoop' = "reconnecting"
  /\ UNCHANGED <<npOpen, npRequest, npPayload, fetched, serverVars, wsVars>>

-----------------------------------------------------------------------------

\* The websocket breaks; of what was in flight only a part arrives.
WsDrop == /\ wsUp
          /\ wsUp' = FALSE
          /\ \E i \in 0 .. Len(s2c) : s2c' = SubSeq(s2c, 1, i)
          /\ \E i \in 0 .. Len(c2s) : c2s' = SubSeq(c2s, 1, i)
          /\ UNCHANGED <<serverVars, npVars>>

HandlerNext == Open \/ OpenReply \/ HandleResponse \/ RecvFails \/ HandlerEnds

RequestNext(r) == \/ LookUp(r) \/ RegisterRequest(r) \/ SendRequest(r)
                  \/ Answered(r) \/ Timeout(r) \/ SenderDropped(r) \/ Abort(r)

NpNext == NpOpened \/ NpTakesRequest \/ NpFetched \/ NpReplies \/ NpRecvFails

Next == HandlerNext \/ NpNext \/ WsDrop \/ \E r \in Requests : RequestNext(r)

Spec == Init /\ [][Next]_vars

(***************************************************************************)
(* tokio runs every task that can go on and its timers fire.  Nothing is   *)
(* assumed of users, of the network, or of the local service, which may    *)
(* never answer (np sets no timeout on its request).                       *)
(***************************************************************************)
Fairness ==
  /\ WF_vars(Open) /\ WF_vars(OpenReply) /\ WF_vars(HandleResponse)
  /\ WF_vars(RecvFails) /\ WF_vars(HandlerEnds)
  /\ WF_vars(NpOpened) /\ WF_vars(NpTakesRequest) /\ WF_vars(NpReplies)
  /\ WF_vars(NpRecvFails)
  /\ \A r \in Requests : /\ WF_vars(RegisterRequest(r)) /\ WF_vars(SendRequest(r))
                         /\ WF_vars(Answered(r)) /\ WF_vars(Timeout(r))
                         /\ WF_vars(SenderDropped(r))

FairSpec == Spec /\ Fairness

-----------------------------------------------------------------------------
(* Properties                                                              *)

\* What the user is told is what happened to this very request: 200 is its
\* own response from the local service, 502 np's own report of an error, and
\* after a 404 the local service never sees the request, so that it can be
\* repeated.  Late, crossed and unwanted answers make no difference.
AnswersTruthful == \A r \in Requests :
  /\ status[r] = 200 => fetched[r] = "data"
  /\ status[r] = 502 => fetched[r] = "error"
  /\ status[r] = 404 => fetched[r] = "none"

\* The session ends only with its websocket: a response that comes after the
\* timeout, or after its user has gone, still finds its entry in
\* http_requests and never ends handle_socket with NoRequest.
LateResponsesHarmless == handler \in {"closing", "gone"} => ~wsUp

\* np executes a request at most once, whatever times out or is aborted.
ExecutedOnce ==
  [][\A r \in Requests : fetched[r] # "none" => fetched'[r] = fetched[r]]_vars

\* "How many seconds to wait for a client before we reply to a forwarding
\* requests with 504 status code" (config.rs): a request that finds a client
\* is answered, even if np or its local service never is.
EveryRequestAnswered == \A r \in Requests :
  (rtask[r] = "found") ~> (rtask[r] \in {"replied", "aborted"})

\* The server waits to tell np that the hostname is open, np waits to answer
\* the requests that came before, and each is the only one to make room for
\* the other.
BothFull == /\ handler = "opened" /\ Len(s2c) = WsCap
            /\ npLoop = "reply" /\ Len(c2s) = WsCap /\ wsUp

\* If the local service always answers, so does the server, with a websocket
\* that is full or breaks at any moment, users who leave and answers nobody
\* waits for any more; but for requests in front of HttpOpened that fill the
\* websocket in both directions.
AnsweredIfServed == []<>(npLoop # "fetching") => \A r \in Requests :
  (rtask[r] = "found") ~> (rtask[r] \in {"replied", "aborted"} \/ BothFull)

=============================================================================
