------------------------- MODULE HttpForwardProofs --------------------------
(***************************************************************************)
(* Proofs about HttpForward, for any set of requests and any capacity of   *)
(* the websocket.  The three safety properties rest on one invariant that  *)
(* follows a request on its way: in at most one of the two directions of   *)
(* the websocket or at np, at most once, and from the moment it is sent    *)
(* until its response is handled with an entry in http_requests.           *)
(***************************************************************************)
EXTENDS HttpForward, TLAPS

\* The HttpRequest of r has been handed to the websocket.
Sent(r) == rtask[r] \in {"waiting", "replied", "aborted"}

\* A request np or the server still has to deal with: its entry is there and
\* its user was not told that nobody is there.
InFlight(r) == r \in pending /\ Sent(r) /\ status[r] # 404

\* On its way to np: once, unknown to np.
ToNp == \A i \in 1 .. Len(s2c) : s2c[i].kind = "request" =>
  /\ InFlight(s2c[i].req)
  /\ fetched[s2c[i].req] = "none"
  /\ npLoop = "fetching" => npRequest # s2c[i].req
  /\ \A j \in 1 .. Len(s2c) :
       s2c[j].kind = "request" /\ s2c[j].req = s2c[i].req => j = i

\* At np.
AtNp == /\ npLoop \in {"fetching", "reply"} => InFlight(npRequest)
        /\ npLoop = "fetching" => fetched[npRequest] = "none"
        /\ npLoop = "reply" => fetched[npRequest] = npPayload

\* On its way back: once, with what np found out.
FromNp == \A i \in 1 .. Len(c2s) :
  /\ InFlight(c2s[i].req)
  /\ fetched[c2s[i].req] = c2s[i].payload
  /\ npLoop = "reply" => npRequest # c2s[i].req
  /\ \A j \in 1 .. Len(c2s) : c2s[j].req = c2s[i].req => j = i

\* The task of a request knows only what np found out.
Tasks == \A r \in Requests :
  /\ status[r] # 0 => rtask[r] = "replied"
  /\ rtask[r] \in {"new", "found", "sending"} => fetched[r] = "none"
  /\ rtask[r] = "sending" => r \in pending
  /\ answer[r] # "none" => fetched[r] = answer[r]

Inv == /\ TypeOK
       /\ ToNp
       /\ AtNp
       /\ FromNp
       /\ Tasks
       /\ AnswersTruthful
       /\ LateResponsesHarmless

-----------------------------------------------------------------------------
(* Sequences, as the websocket uses them                                   *)

\* Receiving the first message, element by element.
LEMMA TailFacts ==
  ASSUME NEW S, NEW s \in Seq(S), s # <<>>
  PROVE  /\ Tail(s) \in Seq(S)
         /\ Len(s) \in Nat \ {0}
         /\ Len(Tail(s)) = Len(s) - 1
         /\ Head(s) = s[1] /\ s[1] \in S
         /\ \A i \in 1 .. Len(Tail(s)) : Tail(s)[i] = s[i + 1]
  OBVIOUS

\* Sending a message, element by element.
LEMMA AppendFacts ==
  ASSUME NEW S, NEW s \in Seq(S), NEW m \in S
  PROVE  /\ Append(s, m) \in Seq(S)
         /\ Len(s) \in Nat
         /\ Len(Append(s, m)) = Len(s) + 1
         /\ \A i \in 1 .. Len(s) : Append(s, m)[i] = s[i]
         /\ Append(s, m)[Len(s) + 1] = m
  OBVIOUS

\* What a broken websocket still delivers, element by element.
LEMMA PrefixFacts ==
  ASSUME NEW S, NEW s \in Seq(S), NEW n \in 0 .. Len(s)
  PROVE  /\ SubSeq(s, 1, n) \in Seq(S)
         /\ Len(s) \in Nat
         /\ Len(SubSeq(s, 1, n)) = n
         /\ \A i \in 1 .. n : SubSeq(s, 1, n)[i] = s[i]
  OBVIOUS

-----------------------------------------------------------------------------
(* The invariant                                                           *)

\* The messages of the server to np.
ServerMessages == {HttpOpened} \cup Requested

\* The invariant holds before the client has sent anything.
LEMMA InitInv == Init => Inv
  <1> SUFFICES ASSUME Init PROVE Inv
    OBVIOUS
  <1> USE DEF Init
  <1>1. TypeOK
    <2>1. <<>> \in Seq(ServerMessages) /\ <<>> \in Seq(Responses) /\ Len(<<>>) <= WsCap
      BY HttpAssumption
    <2> QED
      BY <2>1, HttpAssumption DEF TypeOK, ServerMessages
  <1>2. ToNp /\ FromNp /\ AtNp
    BY DEF ToNp, FromNp, AtNp
  <1>3. Tasks /\ AnswersTruthful /\ LateResponsesHarmless
    BY DEF Tasks, AnswersTruthful, LateResponsesHarmless
  <1> QED
    BY <1>1, <1>2, <1>3 DEF Inv

\* What the elements of the two directions are.
LEMMA Elements ==
  ASSUME TypeOK
  PROVE  /\ \A i \in 1 .. Len(s2c) : s2c[i].kind = "request" => s2c[i].req \in Requests
         /\ \A i \in 1 .. Len(c2s) : /\ c2s[i].req \in Requests
                                    /\ c2s[i].payload \in {"data", "error"}
  <1>1. \A i \in 1 .. Len(s2c) : s2c[i] \in ServerMessages
    BY DEF TypeOK, ServerMessages
  <1>2. \A i \in 1 .. Len(c2s) : c2s[i] \in Responses
    BY DEF TypeOK
  <1>3. \A m \in ServerMessages : m.kind = "request" => m.req \in Requests
    BY DEF ServerMessages, HttpOpened, Requested
  <1>4. \A m \in Responses : m.req \in Requests /\ m.payload \in {"data", "error"}
    BY DEF Responses
  <1> QED
    BY <1>1, <1>2, <1>3, <1>4

\* A step that neither sends nor receives and leaves np alone: what is on
\* its way stays where it is, provided its entry and its user's status do.
LEMMA FrameStep ==
  ASSUME Inv, s2c' = s2c, c2s' = c2s, UNCHANGED npVars,
         \A q \in Requests : InFlight(q) => InFlight(q)'
  PROVE  ToNp' /\ AtNp' /\ FromNp'
  <1>3. ToNp'
    BY Elements DEF Inv, ToNp, npVars
  <1>4. AtNp'
    BY DEF Inv, AtNp, TypeOK, npVars
  <1>5. FromNp'
    BY Elements DEF Inv, FromNp, npVars
  <1> QED
    BY <1>3, <1>4, <1>5

\* A step of the server never reopens the websocket.
LEMMA FrameWs == Inv /\ ServerFrame => wsUp' \in BOOLEAN /\ (wsUp' => wsUp)
  BY Zenon DEF Inv, TypeOK, ServerFrame

\* The steps of handle_socket keep it.
LEMMA HandlerStep == Inv /\ HandlerNext => Inv'
  <1> SUFFICES ASSUME Inv, HandlerNext
               PROVE  Inv'
    OBVIOUS
  <1>ws. wsUp' \in BOOLEAN /\ (wsUp' => wsUp) /\ UNCHANGED npVars
    BY FrameWs DEF HandlerNext, Open, OpenReply, HandleResponse, RecvFails,
       HandlerEnds, ServerFrame
  <1>1. CASE Open
    <2>1. ToNp' /\ AtNp' /\ FromNp'
      BY <1>1, <1>ws, FrameStep DEF Open, InFlight, Sent
    <2>2. TypeOK'
      BY <1>1, <1>ws DEF Open, Inv, TypeOK, npVars
    <2>3. Tasks' /\ AnswersTruthful' /\ LateResponsesHarmless'
      BY <1>1, <1>ws DEF Open, Inv, Tasks, AnswersTruthful, LateResponsesHarmless,
         npVars
    <2> QED
      BY <2>1, <2>2, <2>3 DEF Inv
  <1>2. CASE OpenReply
    <2>1. CASE Send(HttpOpened) /\ handler' = "recv"
      <3>1. s2c \in Seq(ServerMessages) /\ HttpOpened \in ServerMessages
        BY DEF Inv, TypeOK, ServerMessages
      <3>2. /\ s2c' \in Seq(ServerMessages)
            /\ Len(s2c) \in Nat
            /\ Len(s2c') = Len(s2c) + 1
            /\ \A i \in 1 .. Len(s2c) : s2c'[i] = s2c[i]
            /\ s2c'[Len(s2c) + 1] = HttpOpened
        BY <2>1, <3>1, AppendFacts DEF Send
      <3>3. TypeOK'
        BY <1>2, <1>ws, <2>1, <3>2, HttpAssumption
           DEF OpenReply, Send, Inv, TypeOK, npVars, ServerMessages
      <3>4. ToNp'
        <4>1. \A i \in 1 .. Len(s2c') : s2c'[i].kind = "request" =>
                i \in 1 .. Len(s2c) /\ s2c'[i] = s2c[i]
          BY <3>2 DEF HttpOpened
        <4> QED
          BY <1>2, <1>ws, <4>1 DEF OpenReply, Inv, ToNp, InFlight, Sent, npVars
      <3>5. AtNp' /\ FromNp'
        BY <1>2, <1>ws DEF OpenReply, Inv, AtNp, FromNp, InFlight, Sent, npVars
      <3>6. Tasks' /\ AnswersTruthful' /\ LateResponsesHarmless'
        BY <1>2, <1>ws, <2>1
           DEF OpenReply, Inv, Tasks, AnswersTruthful, LateResponsesHarmless, npVars
      <3> QED
        BY <3>3, <3>4, <3>5, <3>6 DEF Inv
    <2>2. CASE SendFails /\ handler' = "closing"
      <3>1. ToNp' /\ AtNp' /\ FromNp'
        BY <1>2, <2>2, <1>ws, FrameStep DEF OpenReply, SendFails, InFlight, Sent
      <3>2. TypeOK'
        BY <1>2, <2>2, <1>ws DEF OpenReply, SendFails, Inv, TypeOK, npVars
      <3>3. Tasks' /\ AnswersTruthful' /\ LateResponsesHarmless'
        BY <1>2, <2>2, <1>ws DEF OpenReply, SendFails, Inv, Tasks, AnswersTruthful,
           LateResponsesHarmless, npVars
      <3> QED
        BY <3>1, <3>2, <3>3 DEF Inv
    <2> QED
      BY <1>2, <2>1, <2>2 DEF OpenReply
  <1>3. CASE HandleResponse
    <2> DEFINE q == Head(c2s).req
    <2>1. /\ c2s' \in Seq(Responses)
          /\ Len(c2s) \in Nat \ {0}
          /\ Len(c2s') = Len(c2s) - 1
          /\ Head(c2s) = c2s[1] /\ c2s[1] \in Responses
          /\ \A i \in 1 .. Len(c2s') : c2s'[i] = c2s[i + 1]
      BY <1>3, TailFacts DEF HandleResponse, Inv, TypeOK
    <2>2. /\ q \in Requests /\ InFlight(q) /\ q \in pending
          /\ fetched[q] = Head(c2s).payload /\ Head(c2s).payload \in {"data", "error"}
          /\ \A i \in 2 .. Len(c2s) : c2s[i].req # q
          /\ npLoop = "reply" => npRequest # q
      <3>1. 1 \in 1 .. Len(c2s) /\ q = c2s[1].req
        BY <2>1
      <3> QED
        BY <2>1, <3>1 DEF Inv, FromNp, InFlight, Responses
    <2>3. /\ pending' = pending \ {q}
          /\ answer' = [answer EXCEPT ![q] =
                          IF rtask[q] = "waiting" THEN Head(c2s).payload ELSE @]
          /\ UNCHANGED <<handler, owned, rtask, status, s2c>>
      BY <1>3, <2>2 DEF HandleResponse
    <2>4. \A p \in Requests : p # q /\ InFlight(p) => InFlight(p)'
      BY <2>3 DEF InFlight, Sent
    <2>5. TypeOK'
      <3>1. answer' \in [Requests -> {"none", "data", "error"}]
        BY <2>2, <2>3 DEF Inv, TypeOK
      <3>2. pending' \in SUBSET Requests /\ Len(c2s') <= WsCap
        BY <2>1, <2>3, HttpAssumption DEF Inv, TypeOK
      <3> QED
        BY <1>ws, <2>1, <2>3, <3>1, <3>2 DEF Inv, TypeOK, npVars
    <2>6. ToNp'
      <3>1. \A i \in 1 .. Len(s2c) : s2c[i].kind = "request" =>
              s2c[i].req \in Requests /\ s2c[i].req # q
        BY <2>2, Elements DEF Inv, ToNp
      <3> QED
        BY <1>ws, <2>3, <2>4, <3>1 DEF Inv, ToNp, npVars
    <2>7. AtNp'
      BY <1>ws, <2>2, <2>3, <2>4 DEF Inv, AtNp, TypeOK, npVars
    <2>8. FromNp'
      <3> SUFFICES ASSUME NEW i \in 1 .. Len(c2s')
                   PROVE  /\ InFlight(c2s[i].req)'
                          /\ (fetched[c2s[i].req] = c2s[i].payload)'
                          /\ (npLoop = "reply" => npRequest # c2s[i].req)'
                          /\ \A j \in 1 .. Len(c2s') : c2s'[j].req = c2s'[i].req => j = i
        BY DEF FromNp
      <3>1. \A j \in 1 .. Len(c2s') : /\ j + 1 \in 2 .. Len(c2s)
                                      /\ j + 1 \in 1 .. Len(c2s)
                                      /\ c2s'[j] = c2s[j + 1]
        BY <2>1
      <3> DEFINE p == c2s[i + 1].req
      <3>2. p \in Requests /\ p # q /\ c2s'[i].req = p
        BY <2>2, <3>1, Elements DEF Inv
      <3>3. /\ InFlight(p)
            /\ fetched[p] = c2s[i + 1].payload
            /\ npLoop = "reply" => npRequest # p
        BY <3>1 DEF Inv, FromNp
      <3>4. /\ p \in pending' /\ status'[p] # 404
            /\ rtask'[p] \in {"waiting", "replied", "aborted"}
        BY <2>3, <3>2, <3>3 DEF InFlight, Sent
      <3>5. \A j \in 1 .. Len(c2s') : c2s'[j].req = c2s'[i].req => j = i
        <4> SUFFICES ASSUME NEW j \in 1 .. Len(c2s'), c2s'[j].req = c2s'[i].req
                     PROVE  j = i
          OBVIOUS
        <4>1. i + 1 = j + 1
          BY <3>1 DEF Inv, FromNp
        <4> QED
          BY <4>1, <2>1
      <3> QED
        BY <1>ws, <3>1, <3>2, <3>3, <3>4, <3>5 DEF InFlight, Sent, npVars
    <2>9. Tasks' /\ AnswersTruthful' /\ LateResponsesHarmless'
      BY <1>ws, <2>2, <2>3 DEF Inv, TypeOK, Tasks, InFlight, Sent, AnswersTruthful,
         LateResponsesHarmless, npVars
    <2> QED
      BY <2>5, <2>6, <2>7, <2>8, <2>9 DEF Inv
  <1>4. CASE RecvFails
    <2>1. ToNp' /\ AtNp' /\ FromNp'
      BY <1>4, <1>ws, FrameStep DEF RecvFails, InFlight, Sent
    <2>2. TypeOK'
      BY <1>4, <1>ws DEF RecvFails, Inv, TypeOK, npVars
    <2>3. Tasks' /\ AnswersTruthful' /\ LateResponsesHarmless'
      BY <1>4, <1>ws DEF RecvFails, Inv, Tasks, AnswersTruthful,
         LateResponsesHarmless, npVars
    <2> QED
      BY <2>1, <2>2, <2>3 DEF Inv
  <1>5. CASE HandlerEnds
    <2>1. ToNp' /\ AtNp' /\ FromNp'
      BY <1>5, <1>ws, FrameStep DEF HandlerEnds, InFlight, Sent
    <2>2. TypeOK'
      BY <1>5, <1>ws, ZenonT(30) DEF HandlerEnds, Inv, TypeOK, npVars
    <2>3. Tasks' /\ AnswersTruthful' /\ LateResponsesHarmless'
      BY <1>5, <1>ws DEF HandlerEnds, Inv, Tasks, AnswersTruthful,
         LateResponsesHarmless, npVars
    <2> QED
      BY <2>1, <2>2, <2>3 DEF Inv
  <1> QED
    BY <1>1, <1>2, <1>3, <1>4, <1>5 DEF HandlerNext

\* The steps of a request's task keep it.
LEMMA RequestStep == ASSUME Inv, NEW r \in Requests, RequestNext(r) PROVE Inv'
  <1>ws. wsUp' \in BOOLEAN /\ (wsUp' => wsUp) /\ UNCHANGED npVars
    BY FrameWs DEF RequestNext, LookUp, RegisterRequest, SendRequest, Answered,
       Timeout, SenderDropped, Abort, ServerFrame
  <1>1. CASE LookUp(r)
    <2>1. ToNp' /\ AtNp' /\ FromNp'
      BY <1>1, <1>ws, FrameStep DEF LookUp, Reply, Inv, TypeOK, InFlight, Sent
    <2>2. TypeOK'
      <3>1. CASE owned
        BY <1>1, <1>ws, <3>1 DEF LookUp, Inv, TypeOK, npVars
      <3>2. CASE ~owned
        BY <1>1, <1>ws, <3>2 DEF LookUp, Reply, Inv, TypeOK, npVars
      <3> QED
        BY <3>1, <3>2
    <2>3. Tasks' /\ AnswersTruthful' /\ LateResponsesHarmless'
      BY <1>1, <1>ws DEF LookUp, Reply, Inv, TypeOK, Tasks, AnswersTruthful,
         LateResponsesHarmless, npVars
    <2> QED
      BY <2>1, <2>2, <2>3 DEF Inv
  <1>2. CASE RegisterRequest(r)
    <2>1. ToNp' /\ AtNp' /\ FromNp'
      BY <1>2, <1>ws, FrameStep DEF RegisterRequest, Inv, TypeOK, InFlight, Sent
    <2>2. TypeOK'
      BY <1>2, <1>ws DEF RegisterRequest, Inv, TypeOK, npVars
    <2>3. Tasks' /\ AnswersTruthful' /\ LateResponsesHarmless'
      BY <1>2, <1>ws DEF RegisterRequest, Inv, TypeOK, Tasks, AnswersTruthful,
         LateResponsesHarmless, npVars
    <2> QED
      BY <2>1, <2>2, <2>3 DEF Inv
  <1>3. CASE SendRequest(r)
    <2>1. CASE Send(HttpRequest(r)) /\ rtask' = [rtask EXCEPT ![r] = "waiting"]
                                   /\ UNCHANGED status
      <3>1. s2c \in Seq(ServerMessages) /\ HttpRequest(r) \in ServerMessages
        BY DEF Inv, TypeOK, ServerMessages, HttpRequest, SchemeOf, Requested
      <3>2. /\ s2c' \in Seq(ServerMessages)
            /\ Len(s2c) \in Nat
            /\ Len(s2c') = Len(s2c) + 1
            /\ \A i \in 1 .. Len(s2c) : s2c'[i] = s2c[i]
            /\ s2c'[Len(s2c) + 1] = HttpRequest(r)
        BY <2>1, <3>1, AppendFacts DEF Send
      <3>3. TypeOK'
        BY <1>3, <1>ws, <2>1, <3>2, HttpAssumption
           DEF SendRequest, Send, Inv, TypeOK, npVars, ServerMessages
      <3>4. /\ ~Sent(r) /\ r \in pending /\ fetched[r] = "none" /\ status[r] # 404
            /\ \A p \in Requests : InFlight(p) => InFlight(p)' /\ p # r
            /\ InFlight(r)'
        BY <1>3, <2>1 DEF SendRequest, Inv, TypeOK, Tasks, InFlight, Sent
      <3>5. ToNp'
        <4>1. \A i \in 1 .. Len(s2c) : s2c[i].kind = "request" =>
                s2c[i].req \in Requests /\ s2c[i].req # r
          BY <3>4, Elements DEF Inv, ToNp
        <4>2. \A i \in 1 .. Len(s2c') :
                \/ i \in 1 .. Len(s2c) /\ s2c'[i] = s2c[i]
                \/ i = Len(s2c) + 1 /\ s2c'[i].kind = "request" /\ s2c'[i].req = r
          BY <3>2 DEF HttpRequest
        <4>3. npLoop = "fetching" => npRequest # r
          BY <3>4 DEF Inv, AtNp, InFlight
        <4> QED
          BY <1>ws, <3>4, <4>1, <4>2, <4>3 DEF Inv, ToNp, npVars
      <3>6. AtNp'
        BY <1>ws, <3>4 DEF Inv, AtNp, TypeOK, npVars
      <3>7. FromNp'
        BY <1>3, <1>ws, <3>4, Elements DEF SendRequest, Inv, FromNp, npVars
      <3>8. Tasks' /\ AnswersTruthful' /\ LateResponsesHarmless'
        BY <1>3, <1>ws, <2>1 DEF SendRequest, Inv, TypeOK, Tasks, AnswersTruthful,
           LateResponsesHarmless, npVars
      <3> QED
        BY <3>3, <3>5, <3>6, <3>7, <3>8 DEF Inv
    <2>2. CASE SendFails /\ Reply(r, 404)
      <3>1. ToNp' /\ AtNp' /\ FromNp'
        BY <1>3, <2>2, <1>ws, FrameStep
           DEF SendRequest, SendFails, Reply, Inv, TypeOK, InFlight, Sent
      <3>2. TypeOK'
        BY <1>3, <2>2, <1>ws DEF SendRequest, SendFails, Reply, Inv, TypeOK, npVars
      <3>3. Tasks' /\ AnswersTruthful' /\ LateResponsesHarmless'
        BY <1>3, <2>2, <1>ws DEF SendRequest, SendFails, Reply, Inv, TypeOK, Tasks,
           AnswersTruthful, LateResponsesHarmless, npVars
      <3> QED
        BY <3>1, <3>2, <3>3 DEF Inv
    <2> QED
      BY <1>3, <2>1, <2>2 DEF SendRequest
  <1>4. CASE Answered(r)
    <2>1. StatusOf(answer[r]) \in {200, 502}
      BY DEF StatusOf
    <2>2. ToNp' /\ AtNp' /\ FromNp'
      BY <1>4, <1>ws, <2>1, FrameStep DEF Answered, Reply, Inv, TypeOK, InFlight, Sent
    <2>3. TypeOK'
      BY <1>4, <1>ws, <2>1 DEF Answered, Reply, Inv, TypeOK, npVars
    <2>4. Tasks' /\ LateResponsesHarmless'
      BY <1>4, <1>ws DEF Answered, Reply, Inv, TypeOK, Tasks, LateResponsesHarmless,
         npVars
    <2>5. AnswersTruthful'
      BY <1>4, <1>ws DEF Answered, Reply, StatusOf, Inv, TypeOK, Tasks,
         AnswersTruthful, npVars
    <2> QED
      BY <2>2, <2>3, <2>4, <2>5 DEF Inv
  <1>5. CASE Timeout(r) \/ SenderDropped(r)
    <2>1. PICK code \in {500, 504} : Reply(r, code)
      BY <1>5 DEF Timeout, SenderDropped
    <2>2. rtask[r] = "waiting" /\ UNCHANGED <<handler, owned, pending, answer, s2c, c2s>>
      BY <1>5 DEF Timeout, SenderDropped
    <2>3. ToNp' /\ AtNp' /\ FromNp'
      BY <1>ws, <2>1, <2>2, FrameStep DEF Reply, Inv, TypeOK, InFlight, Sent
    <2>4. TypeOK'
      BY <1>ws, <2>1, <2>2 DEF Reply, Inv, TypeOK, npVars
    <2>5. Tasks' /\ AnswersTruthful' /\ LateResponsesHarmless'
      BY <1>ws, <2>1, <2>2 DEF Reply, Inv, TypeOK, Tasks, AnswersTruthful,
         LateResponsesHarmless, npVars
    <2> QED
      BY <2>3, <2>4, <2>5 DEF Inv
  <1>6. CASE Abort(r)
    <2>1. ToNp' /\ AtNp' /\ FromNp'
      BY <1>6, <1>ws, FrameStep DEF Abort, Inv, TypeOK, InFlight, Sent
    <2>2. TypeOK'
      BY <1>6, <1>ws DEF Abort, Inv, TypeOK, npVars
    <2>3. Tasks' /\ AnswersTruthful' /\ LateResponsesHarmless'
      BY <1>6, <1>ws DEF Abort, Inv, TypeOK, Tasks, AnswersTruthful,
         LateResponsesHarmless, npVars
    <2> QED
      BY <2>1, <2>2, <2>3 DEF Inv
  <1> QED
    BY <1>1, <1>2, <1>3, <1>4, <1>5, <1>6 DEF RequestNext

\* np learns nothing new about a request but its own: what np's step does to
\* the tasks and the answers.
LEMMA SettleStep ==
  ASSUME Inv, NEW p \in {"data", "error"}, NEW r \in Requests,
         InFlight(r), fetched[r] = "none", Settle(r, p), UNCHANGED serverVars
  PROVE  /\ Tasks' /\ AnswersTruthful'
         /\ fetched' \in [Requests -> {"none", "data", "error"}]
         /\ fetched'[r] = p
         /\ \A q \in Requests : q # r => fetched'[q] = fetched[q]
  <1>1. /\ fetched' \in [Requests -> {"none", "data", "error"}]
        /\ fetched'[r] = p
        /\ \A q \in Requests : q # r => fetched'[q] = fetched[q]
    BY DEF Settle, Inv, TypeOK
  <1>2. answer[r] = "none" /\ status[r] \notin {200, 404, 502} /\ Sent(r)
    BY DEF Inv, TypeOK, Tasks, AnswersTruthful, InFlight
  <1>3. Tasks'
    BY <1>1, <1>2 DEF Inv, Tasks, serverVars, Sent
  <1>4. AnswersTruthful'
    BY <1>1, <1>2 DEF Inv, AnswersTruthful, serverVars
  <1> QED
    BY <1>1, <1>3, <1>4

\* What np takes is the first message of the server.
LEMMA NpReceives ==
  ASSUME Inv, s2c # <<>>, s2c' = Tail(s2c)
  PROVE  /\ s2c' \in Seq(ServerMessages) /\ Len(s2c') <= WsCap
         /\ 1 \in 1 .. Len(s2c) /\ Head(s2c) = s2c[1]
         /\ \A i \in 1 .. Len(s2c') : /\ i + 1 \in 2 .. Len(s2c)
                                      /\ i + 1 \in 1 .. Len(s2c)
                                      /\ s2c'[i] = s2c[i + 1]
  <1>1. s2c \in Seq(ServerMessages) /\ Len(s2c) <= WsCap
    BY DEF Inv, TypeOK, ServerMessages
  <1> QED
    BY <1>1, TailFacts, HttpAssumption

\* The server's messages that are left after the first k were taken, or after
\* only a part arrived, are as before if they are not what np took.
LEMMA RestToNp ==
  ASSUME Inv, UNCHANGED serverVars, NEW k \in Nat, Len(s2c') \in Nat,
         \A i \in 1 .. Len(s2c') : /\ i + k \in 1 .. Len(s2c)
                                   /\ s2c'[i] = s2c[i + k],
         \A i \in 1 .. Len(s2c') : s2c'[i].kind = "request" =>
            /\ fetched'[s2c'[i].req] = "none"
            /\ npLoop' = "fetching" => npRequest' # s2c'[i].req
  PROVE  ToNp'
  <1> SUFFICES ASSUME NEW i \in 1 .. Len(s2c'), s2c'[i].kind = "request"
               PROVE  /\ InFlight(s2c[i].req)'
                      /\ \A j \in 1 .. Len(s2c') :
                           s2c'[j].kind = "request" /\ s2c'[j].req = s2c'[i].req => j = i
    BY DEF ToNp
  <1>1. InFlight(s2c[i + k].req)
    BY DEF Inv, ToNp
  <1>2. \A j \in 1 .. Len(s2c') :
          s2c'[j].kind = "request" /\ s2c'[j].req = s2c'[i].req => j + k = i + k
    BY SMTT(30) DEF Inv, ToNp
  <1>3. \A j \in 1 .. Len(s2c') : j + k = i + k => j = i
    OBVIOUS
  <1> QED
    BY <1>1, <1>2, <1>3 DEF InFlight, Sent, serverVars

\* np's answers that a broken websocket still delivers.
LEMMA RestFromNp ==
  ASSUME Inv, UNCHANGED <<serverVars, npVars>>, Len(c2s') \in Nat,
         \A i \in 1 .. Len(c2s') : i \in 1 .. Len(c2s) /\ c2s'[i] = c2s[i]
  PROVE  FromNp'
  BY DEF Inv, FromNp, InFlight, Sent, serverVars, npVars

\* The steps of np keep it.
LEMMA NpStep == Inv /\ NpNext => Inv'
  <1> SUFFICES ASSUME Inv, NpNext PROVE Inv'
    OBVIOUS
  <1>sv. UNCHANGED serverVars /\ wsUp' = wsUp /\ LateResponsesHarmless'
    BY DEF NpNext, NpOpened, NpTakesRequest, NpFetched, NpReplies, NpRecvFails,
       serverVars, wsVars, Inv, LateResponsesHarmless
  <1>if. \A q \in Requests : InFlight(q) => InFlight(q)'
    BY <1>sv DEF InFlight, Sent, serverVars
  <1>1. CASE NpOpened
    <2>1. /\ s2c' \in Seq(ServerMessages) /\ Len(s2c') <= WsCap /\ Len(s2c') \in Nat
          /\ \A i \in 1 .. Len(s2c') : i + 1 \in 1 .. Len(s2c) /\ s2c'[i] = s2c[i + 1]
      BY <1>1, NpReceives DEF NpOpened
    <2>2. TypeOK'
      BY <1>1, <1>sv, <2>1 DEF NpOpened, Inv, TypeOK, serverVars, ServerMessages
    <2>3. \A i \in 1 .. Len(s2c') : s2c'[i].kind = "request" =>
            /\ fetched'[s2c'[i].req] = "none"
            /\ npLoop' = "fetching" => npRequest' # s2c'[i].req
      BY <1>1, <2>1 DEF NpOpened, Inv, ToNp
    <2>4. ToNp'
      BY <1>sv, <2>1, <2>3, RestToNp
    <2>5. AtNp' /\ FromNp' /\ Tasks' /\ AnswersTruthful'
      BY <1>1, <1>sv DEF NpOpened, Inv, AtNp, FromNp, InFlight, Sent, Tasks,
         AnswersTruthful, serverVars
    <2> QED
      BY <1>sv, <2>2, <2>4, <2>5 DEF Inv
  <1>2. CASE NpTakesRequest
    <2> DEFINE r == s2c[1].req
    <2>1. /\ s2c' \in Seq(ServerMessages) /\ Len(s2c') <= WsCap /\ Len(s2c') \in Nat
          /\ 1 \in 1 .. Len(s2c) /\ Head(s2c) = s2c[1]
          /\ \A i \in 1 .. Len(s2c') : /\ i + 1 \in 1 .. Len(s2c) /\ i + 1 # 1
                                       /\ s2c'[i] = s2c[i + 1]
      BY <1>2, NpReceives DEF NpTakesRequest
    <2>2. /\ r \in Requests /\ InFlight(r) /\ fetched[r] = "none"
          /\ \A i \in 1 .. Len(s2c') : s2c'[i].kind = "request" =>
               s2c'[i].req \in Requests /\ s2c'[i].req # r /\ fetched[s2c'[i].req] = "none"
      BY <1>2, <2>1, Elements DEF NpTakesRequest, Inv, ToNp
    <2>3. npRequest' = r /\ UNCHANGED <<npOpen, c2s>>
      BY <1>2, <2>1 DEF NpTakesRequest
    <2>4. \A i \in 1 .. Len(c2s) : c2s[i].req \in Requests /\ c2s[i].req # r
      BY <2>2, Elements DEF Inv, FromNp
    <2>5. CASE npLoop' = "fetching" /\ UNCHANGED <<npPayload, fetched>>
      <3>1. ToNp'
        BY <1>sv, <2>1, <2>2, <2>3, <2>5, RestToNp
      <3>2. AtNp' /\ FromNp'
        BY <1>sv, <1>if, <2>2, <2>3, <2>4, <2>5 DEF Inv, AtNp, FromNp
      <3>3. Tasks' /\ AnswersTruthful'
        BY <1>sv, <2>5 DEF Inv, Tasks, AnswersTruthful, serverVars
      <3>4. TypeOK'
        BY <1>sv, <2>1, <2>2, <2>3, <2>5 DEF Inv, TypeOK, serverVars, ServerMessages
      <3> QED
        BY <1>sv, <3>1, <3>2, <3>3, <3>4 DEF Inv
    <2>6. CASE Settle(r, "error")
      <3>1. /\ Tasks' /\ AnswersTruthful'
            /\ fetched' \in [Requests -> {"none", "data", "error"}]
            /\ fetched'[r] = "error"
            /\ \A q \in Requests : q # r => fetched'[q] = fetched[q]
        BY <1>sv, <2>2, <2>6, SettleStep
      <3>2. npLoop' = "reply" /\ npPayload' = "error"
        BY <2>6 DEF Settle
      <3>3. ToNp'
        BY <1>sv, <2>1, <2>2, <3>1, <3>2, RestToNp, ZenonT(30)
      <3>4. AtNp' /\ FromNp'
        BY <1>sv, <1>if, <2>2, <2>3, <2>4, <3>1, <3>2 DEF Inv, AtNp, FromNp
      <3>5. TypeOK'
        BY <1>sv, <2>1, <2>2, <2>3, <3>1, <3>2 DEF Inv, TypeOK, serverVars, ServerMessages
      <3> QED
        BY <1>sv, <3>1, <3>3, <3>4, <3>5 DEF Inv
    <2> QED
      BY <1>2, <2>1, <2>5, <2>6 DEF NpTakesRequest
  <1>3. CASE NpFetched
    <2>1. PICK p \in {"data", "error"} : Settle(npRequest, p)
      BY <1>3 DEF NpFetched
    <2>2. npLoop = "fetching" /\ UNCHANGED <<npOpen, npRequest, s2c, c2s>>
      BY <1>3 DEF NpFetched, wsVars
    <2>3. npRequest \in Requests /\ InFlight(npRequest) /\ fetched[npRequest] = "none"
      BY <2>2 DEF Inv, TypeOK, AtNp
    <2>4. /\ Tasks' /\ AnswersTruthful'
          /\ fetched' \in [Requests -> {"none", "data", "error"}]
          /\ fetched'[npRequest] = p
          /\ \A q \in Requests : q # npRequest => fetched'[q] = fetched[q]
      BY <1>sv, <2>1, <2>3, SettleStep
    <2>5. npLoop' = "reply" /\ npPayload' = p
      BY <2>1 DEF Settle
    <2>6. ToNp'
      BY <1>if, <2>2, <2>4, <2>5, Elements DEF Inv, ToNp
    <2>7. AtNp'
      BY <1>if, <2>2, <2>3, <2>4, <2>5 DEF AtNp
    <2>8. FromNp'
      <3>1. \A i \in 1 .. Len(c2s) : c2s[i].req \in Requests /\ c2s[i].req # npRequest
        BY <2>3, Elements DEF Inv, FromNp
      <3> QED
        BY <1>if, <2>2, <2>4, <2>5, <3>1 DEF Inv, FromNp
    <2>9. TypeOK'
      BY <1>sv, <2>2, <2>3, <2>4, <2>5 DEF Inv, TypeOK, serverVars
    <2> QED
      BY <1>sv, <2>4, <2>6, <2>7, <2>8, <2>9 DEF Inv
  <1>4. CASE NpReplies
    <2>1. /\ npLoop = "reply" /\ npLoop' = "recv"
          /\ UNCHANGED <<npOpen, npRequest, npPayload, fetched, s2c>>
      BY <1>4 DEF NpReplies
    <2>2. /\ npRequest \in Requests /\ npPayload \in {"data", "error"}
          /\ InFlight(npRequest) /\ fetched[npRequest] = npPayload
      BY <2>1 DEF Inv, TypeOK, AtNp
    <2>3. ToNp' /\ AtNp' /\ Tasks' /\ AnswersTruthful'
      BY <1>sv, <2>1 DEF Inv, ToNp, AtNp, Tasks, AnswersTruthful, InFlight, Sent,
         serverVars
    <2>4. CASE UNCHANGED c2s
      <3>1. TypeOK'
        BY <1>sv, <2>1, <2>4 DEF Inv, TypeOK, serverVars
      <3>2. FromNp'
        BY <1>sv, <2>1, <2>4 DEF Inv, FromNp, InFlight, Sent, serverVars
      <3> QED
        BY <1>sv, <2>3, <3>1, <3>2 DEF Inv
    <2>5. CASE /\ Len(c2s) < WsCap
               /\ c2s' = Append(c2s, [req |-> npRequest, payload |-> npPayload])
      <3>1. c2s \in Seq(Responses) /\ [req |-> npRequest, payload |-> npPayload] \in Responses
        BY <2>2 DEF Inv, TypeOK, Responses
      <3>2. /\ c2s' \in Seq(Responses)
            /\ Len(c2s) \in Nat
            /\ Len(c2s') = Len(c2s) + 1
            /\ \A i \in 1 .. Len(c2s) : c2s'[i] = c2s[i]
            /\ c2s'[Len(c2s) + 1] = [req |-> npRequest, payload |-> npPayload]
        BY <2>5, <3>1, AppendFacts
      <3>3. TypeOK'
        BY <1>sv, <2>1, <2>5, <3>2, HttpAssumption DEF Inv, TypeOK, serverVars
      <3>4. FromNp'
        <4>1. \A i \in 1 .. Len(c2s') :
                \/ i \in 1 .. Len(c2s) /\ c2s'[i] = c2s[i]
                \/ /\ i = Len(c2s) + 1
                   /\ c2s'[i].req = npRequest /\ c2s'[i].payload = npPayload
          BY <3>2
        <4>2. \A i \in 1 .. Len(c2s) : c2s[i].req \in Requests /\ c2s[i].req # npRequest
          BY <2>1, Elements DEF Inv, FromNp
        <4> QED
          BY <1>if, <2>1, <2>2, <4>1, <4>2 DEF Inv, FromNp
      <3> QED
        BY <1>sv, <2>3, <3>3, <3>4 DEF Inv
    <2> QED
      BY <1>4, <2>4, <2>5 DEF NpReplies
  <1>5. CASE NpRecvFails
    BY <1>5, <1>sv DEF NpRecvFails, wsVars, serverVars, Inv, TypeOK, ToNp, AtNp,
       FromNp, Tasks, AnswersTruthful, InFlight, Sent
  <1> QED
    BY <1>1, <1>2, <1>3, <1>4, <1>5 DEF NpNext

\* A websocket that breaks keeps it.
LEMMA WsDropStep == Inv /\ WsDrop => Inv'
  <1> SUFFICES ASSUME Inv, WsDrop PROVE Inv'
    OBVIOUS
  <1>1. UNCHANGED <<serverVars, npVars>> /\ wsUp' = FALSE
    BY DEF WsDrop
  <1>2. PICK m \in 0 .. Len(s2c) : s2c' = SubSeq(s2c, 1, m)
    BY DEF WsDrop
  <1>3. PICK n \in 0 .. Len(c2s) : c2s' = SubSeq(c2s, 1, n)
    BY DEF WsDrop
  <1>4. /\ s2c' \in Seq(ServerMessages) /\ Len(s2c') \in Nat /\ Len(s2c') <= WsCap
        /\ \A i \in 1 .. Len(s2c') : i + 0 \in 1 .. Len(s2c) /\ s2c'[i] = s2c[i + 0]
    BY <1>2, PrefixFacts, HttpAssumption DEF Inv, TypeOK, ServerMessages
  <1>5. /\ c2s' \in Seq(Responses) /\ Len(c2s') \in Nat /\ Len(c2s') <= WsCap
        /\ \A i \in 1 .. Len(c2s') : i \in 1 .. Len(c2s) /\ c2s'[i] = c2s[i]
    BY <1>3, PrefixFacts, HttpAssumption DEF Inv, TypeOK
  <1>6. TypeOK'
    BY <1>1, <1>4, <1>5, ZenonT(60) DEF Inv, TypeOK, serverVars, npVars, ServerMessages
  <1>7. ToNp'
    <2>1. \A i \in 1 .. Len(s2c') : s2c'[i].kind = "request" =>
            /\ fetched'[s2c'[i].req] = "none"
            /\ npLoop' = "fetching" => npRequest' # s2c'[i].req
      BY <1>1, <1>4 DEF Inv, ToNp, npVars
    <2> QED
      BY <1>1, <1>4, <2>1, RestToNp
  <1>8. FromNp'
    BY <1>1, <1>5, RestFromNp
  <1>9. AtNp' /\ Tasks' /\ AnswersTruthful' /\ LateResponsesHarmless'
    BY <1>1 DEF Inv, AtNp, Tasks, AnswersTruthful, LateResponsesHarmless, InFlight,
       Sent, serverVars, npVars
  <1> QED
    BY <1>6, <1>7, <1>8, <1>9 DEF Inv

\* Every step of the system keeps it.
LEMMA NextInv == Inv /\ [Next]_vars => Inv'
  <1> SUFFICES ASSUME Inv, [Next]_vars PROVE Inv'
    OBVIOUS
  <1>1. CASE UNCHANGED vars
    BY <1>1 DEF vars, serverVars, npVars, wsVars, Inv, TypeOK, ToNp, AtNp, FromNp,
       Tasks, AnswersTruthful, LateResponsesHarmless, InFlight, Sent
  <1> QED
    BY <1>1, HandlerStep, RequestStep, NpStep, WsDropStep DEF Next

-----------------------------------------------------------------------------
(* The theorems                                                            *)

\* Everything in HttpForward keeps its type, for any set of requests: the
\* websocket never holds more than it can, and np never handles "no request".
THEOREM HttpTypeCorrect == Spec => []TypeOK
  BY InitInv, NextInv, PTL DEF Spec, Inv

\* The status a user gets is true of its own request (forward_request).
THEOREM AnswersCorrect == Spec => []AnswersTruthful
  BY InitInv, NextInv, PTL DEF Spec, Inv

\* No response that comes late, or to a user who has gone, ends the session
\* (msghandlers/http.rs response).
THEOREM LateResponsesCorrect == Spec => []LateResponsesHarmless
  BY InitInv, NextInv, PTL DEF Spec, Inv

\* np executes a request at most once (dispatch/http.rs request).
THEOREM ExecutedOnceCorrect == Spec => ExecutedOnce
  <1> DEFINE Kept == \A r \in Requests : fetched[r] # "none" => fetched'[r] = fetched[r]
  <1>1. Inv /\ [Next]_vars => [Kept]_vars
    <2> SUFFICES ASSUME Inv, Next PROVE Kept
      OBVIOUS
    <2>1. CASE NpTakesRequest
      <3>1. 1 \in 1 .. Len(s2c) /\ Head(s2c) = s2c[1]
        BY <2>1, NpReceives DEF NpTakesRequest
      <3>2. fetched[Head(s2c).req] = "none"
        BY <2>1, <3>1 DEF NpTakesRequest, Inv, ToNp
      <3> QED
        BY <2>1, <3>2 DEF NpTakesRequest, Settle, Inv, TypeOK
    <2>2. CASE NpFetched
      BY <2>2 DEF NpFetched, Settle, Inv, AtNp, TypeOK
    <2>3. CASE ~NpTakesRequest /\ ~NpFetched
      <3>1. UNCHANGED fetched
        BY <2>3 DEF Next, HandlerNext, RequestNext, NpNext, WsDrop, Open, OpenReply,
           HandleResponse, RecvFails, HandlerEnds, LookUp, RegisterRequest,
           SendRequest, Answered, Timeout, SenderDropped, Abort, ServerFrame,
           NpOpened, NpReplies, NpRecvFails, npVars
      <3> QED
        BY <3>1
    <2> QED
      BY <2>1, <2>2, <2>3
  <1>2. Spec => []Inv
    BY InitInv, NextInv, PTL DEF Spec
  <1> QED
    BY <1>1, <1>2, PTL DEF Spec, ExecutedOnce
=============================================================================
