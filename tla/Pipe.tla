-------------------------------- MODULE Pipe --------------------------------
(***************************************************************************)
(* One direction of a forwarded connection, from the task that reads it at *)
(* one end to the socket it is written to at the other: the chunks 1, 2,   *)
(* ... and then the close.  On the way they are in a websocket direction q *)
(* that other connections use too, in the hands of a loop that waits for   *)
(* room, in a bounded channel, and got at the other end.  The place of a   *)
(* message is said without counting: it comes after the one before it.     *)
(***************************************************************************)
EXTENDS Integers, Sequences, TLAPS

\* The number of a chunk; the close comes after the last chunk.
Ord(last, n) == IF n = 0 THEN last + 1 ELSE n

IsChunk(m, u) == m.user = u /\ m.kind \in {"receive", "close"}

\* The chunks of u in q follow chunk b, and each other, without gaps.
Chained(q, u, b, last) == \A i \in 1 .. Len(q) : IsChunk(q[i], u) =>
  /\ \/ Ord(last, q[i].n) = b + 1
     \/ \E j \in 1 .. Len(q) : /\ j < i /\ IsChunk(q[j], u)
                               /\ Ord(last, q[j].n) = Ord(last, q[i].n) - 1
  /\ \A j \in 1 .. Len(q) : j < i /\ IsChunk(q[j], u) =>
                              Ord(last, q[j].n) < Ord(last, q[i].n)

\* They end with chunk sent.
Filled(q, u, b, last, sent) ==
  /\ b <= sent
  /\ \A i \in 1 .. Len(q) : IsChunk(q[i], u) => Ord(last, q[i].n) <= sent
  /\ b = sent \/ \E i \in 1 .. Len(q) : IsChunk(q[i], u) /\ Ord(last, q[i].n) = sent

\* The chunks in a channel follow the ones got.
Queued(ch, got, last) == \A i \in 1 .. Len(ch) : Ord(last, ch[i]) = Len(got) + i

\* The last chunk the other end has: got, in its channel, and (k = 1) in hand.
Base(got, ch, k) == Len(got) + Len(ch) + k

\* What q says of the set-up of u: no PortConnect, at most one, no chunk, and
\* of np at most that it refuses.
NoConnect(q, u) == \A i \in 1 .. Len(q) : ~(q[i].kind = "connect" /\ q[i].user = u)

Single(q, u) == \A i, j \in 1 .. Len(q) :
  (/\ q[i].kind = "connect" /\ q[i].user = u
   /\ q[j].kind = "connect" /\ q[j].user = u) => i = j

NoChunk(q, u) == \A i \in 1 .. Len(q) : ~IsChunk(q[i], u)

OnlyRefused(q, u) == \A i \in 1 .. Len(q) : q[i].user = u => /\ q[i].kind = "connected"
                                                            /\ q[i].n = 0

\* A chunk that was sent, or a close after a close.
Sent(n, last, closed) == n \in Nat /\ n <= last /\ (n = 0 => closed)

-----------------------------------------------------------------------------
(* Sequences, as the websocket and the channels use them                   *)

\* The rest of a sequence after its head is taken: recv on a channel.
LEMMA TailFacts ==
  ASSUME NEW S, NEW s \in Seq(S), s # <<>>
  PROVE  /\ Tail(s) \in Seq(S)
         /\ Len(s) \in Nat \ {0} /\ Len(Tail(s)) = Len(s) - 1
         /\ Head(s) = s[1] /\ s[1] \in S
         /\ \A i \in 1 .. Len(Tail(s)) : i + 1 \in 1 .. Len(s) /\ Tail(s)[i] = s[i + 1]
         /\ \A i \in 1 .. Len(s) : i # 1 =>
              i - 1 \in 1 .. Len(Tail(s)) /\ Tail(s)[i - 1] = s[i]
  OBVIOUS

\* The message recv returns is one of those in the channel.
LEMMA HeadIn ==
  ASSUME NEW S, NEW s \in Seq(S), s # <<>>
  PROVE  Head(s) \in S
  OBVIOUS

\* A sequence with one more element: send on a channel.
LEMMA AppendFacts ==
  ASSUME NEW S, NEW s \in Seq(S), NEW m \in S
  PROVE  /\ Append(s, m) \in Seq(S)
         /\ Len(s) \in Nat /\ Len(Append(s, m)) = Len(s) + 1
         /\ \A i \in 1 .. Len(s) : Append(s, m)[i] = s[i]
         /\ Append(s, m)[Len(s) + 1] = m
         /\ \A i \in 1 .. Len(Append(s, m)) : i \in 1 .. Len(s) \/ i = Len(s) + 1
  OBVIOUS

\* What is left of a direction that is cut off.
LEMMA PrefixFacts ==
  ASSUME NEW S, NEW s \in Seq(S), NEW k \in 0 .. Len(s)
  PROVE  /\ SubSeq(s, 1, k) \in Seq(S)
         /\ Len(s) \in Nat /\ k \in Nat /\ k <= Len(s) /\ Len(SubSeq(s, 1, k)) = k
         /\ \A i \in 1 .. k : i \in 1 .. Len(s) /\ SubSeq(s, 1, k)[i] = s[i]
<1>1. Len(s) \in Nat /\ k \in Nat /\ k <= Len(s)
  OBVIOUS
<1>2. SubSeq(s, 1, k) \in Seq(S) /\ Len(SubSeq(s, 1, k)) = k
  BY <1>1
<1> QED
  BY <1>1, <1>2

-----------------------------------------------------------------------------
(* What the steps on a websocket direction do to the chunks of u           *)

\* Numbers: what the lemmas below need of messages.
Numbered(q, u) == \A i \in 1 .. Len(q) : IsChunk(q[i], u) => q[i].n \in Nat

\* A message of another connection is sent.
LEMMA SendOther ==
  ASSUME NEW S, NEW q \in Seq(S), NEW u, NEW m \in S, ~IsChunk(m, u), NEW b, NEW last,
         Chained(q, u, b, last)
  PROVE  /\ Chained(Append(q, m), u, b, last)
         /\ \A sent : Filled(q, u, b, last, sent) => Filled(Append(q, m), u, b, last, sent)
<1> DEFINE r == Append(q, m)
<1>1. /\ r \in Seq(S)
      /\ Len(q) \in Nat /\ Len(r) = Len(q) + 1
      /\ \A i \in 1 .. Len(q) : r[i] = q[i] /\ i \in 1 .. Len(r)
      /\ r[Len(q) + 1] = m
      /\ \A i \in 1 .. Len(r) : i \in 1 .. Len(q) \/ i = Len(q) + 1
  BY AppendFacts
<1> HIDE DEF r
<1>2. \A i \in 1 .. Len(r) : IsChunk(r[i], u) =>
        i \in 1 .. Len(q) /\ r[i] = q[i] /\ IsChunk(q[i], u)
  BY <1>1
<1>3. Chained(r, u, b, last)
  BY <1>1, <1>2 DEF Chained
<1>4. ASSUME NEW sent, Filled(q, u, b, last, sent)
      PROVE  Filled(r, u, b, last, sent)
  BY <1>1, <1>2, <1>4 DEF Filled
<1> QED
  BY <1>3, <1>4 DEF r

\* The next chunk of u is sent.
LEMMA SendOwn ==
  ASSUME NEW S, NEW q \in Seq(S), NEW u, NEW m \in S, IsChunk(m, u),
         NEW b \in Nat, NEW last \in Nat, NEW sent \in Nat,
         Numbered(q, u), m.n \in Nat, Ord(last, m.n) = sent + 1,
         Chained(q, u, b, last), Filled(q, u, b, last, sent)
  PROVE  /\ Chained(Append(q, m), u, b, last)
         /\ Filled(Append(q, m), u, b, last, sent + 1)
<1> DEFINE r == Append(q, m)
           o(x) == Ord(last, x.n)
<1>1. /\ r \in Seq(S)
      /\ Len(q) \in Nat /\ Len(r) = Len(q) + 1
      /\ \A i \in 1 .. Len(q) : r[i] = q[i] /\ i \in 1 .. Len(r) /\ i < Len(r)
      /\ r[Len(r)] = m /\ Len(r) \in 1 .. Len(r)
      /\ \A i \in 1 .. Len(r) : i \in 1 .. Len(q) \/ i = Len(r)
  BY AppendFacts
<1>2. \A i \in 1 .. Len(q) : IsChunk(q[i], u) => o(q[i]) \in Nat /\ o(q[i]) <= sent
  BY DEF Numbered, Ord, Filled
<1> HIDE DEF r
<1>3. Chained(r, u, b, last)
  <2> SUFFICES ASSUME NEW i \in 1 .. Len(r), IsChunk(r[i], u)
               PROVE  /\ \/ o(r[i]) = b + 1
                         \/ \E j \in 1 .. Len(r) : /\ j < i /\ IsChunk(r[j], u)
                                                   /\ o(r[j]) = o(r[i]) - 1
                      /\ \A j \in 1 .. Len(r) : j < i /\ IsChunk(r[j], u) =>
                                                  o(r[j]) < o(r[i])
    BY DEF Chained
  <2>1. CASE i \in 1 .. Len(q)
    <3>1. r[i] = q[i]
      BY <1>1, <2>1
    <3>2. \A j \in 1 .. Len(r) : j < i => j \in 1 .. Len(q) /\ r[j] = q[j]
      BY <1>1, <2>1
    <3> QED
      BY <1>1, <2>1, <3>1, <3>2 DEF Chained
  <2>2. CASE i = Len(r)
    <3>1. o(r[i]) = sent + 1
      BY <1>1, <2>2
    <3>2. \A j \in 1 .. Len(r) : j < i => j \in 1 .. Len(q) /\ r[j] = q[j]
      BY <1>1, <2>2
    <3>3. \A j \in 1 .. Len(r) : j < i /\ IsChunk(r[j], u) => o(r[j]) < o(r[i])
      BY <1>2, <3>1, <3>2, SMTT(30)
    <3>4. CASE b = sent
      BY <3>1, <3>3, <3>4
    <3>5. CASE b # sent
      <4>1. PICK j \in 1 .. Len(q) : IsChunk(q[j], u) /\ o(q[j]) = sent
        BY <3>5 DEF Filled
      <4>2. j \in 1 .. Len(r) /\ j < i /\ IsChunk(r[j], u) /\ o(r[j]) = o(r[i]) - 1
        BY <1>1, <2>2, <3>1, <4>1
      <4> QED
        BY <3>3, <4>2
    <3> QED
      BY <3>4, <3>5
  <2> QED
    BY <1>1, <2>1, <2>2
<1>4. Filled(r, u, b, last, sent + 1)
  <2>1. \A i \in 1 .. Len(r) : IsChunk(r[i], u) => o(r[i]) <= sent + 1
    BY <1>1, <1>2
  <2>2. b <= sent + 1
    BY DEF Filled
  <2> QED
    BY <1>1, <2>1, <2>2 DEF Filled
<1> QED
  BY <1>3, <1>4 DEF r

\* A message of another connection is received.
LEMMA TakeOther ==
  ASSUME NEW S, NEW q \in Seq(S), q # <<>>, NEW u, ~IsChunk(Head(q), u), NEW b, NEW last,
         Chained(q, u, b, last)
  PROVE  /\ Chained(Tail(q), u, b, last)
         /\ \A sent : Filled(q, u, b, last, sent) => Filled(Tail(q), u, b, last, sent)
<1> DEFINE r == Tail(q)
<1>1. /\ Len(q) \in Nat /\ Len(r) = Len(q) - 1
      /\ ~IsChunk(q[1], u)
      /\ \A i \in 1 .. Len(r) : i + 1 \in 1 .. Len(q) /\ r[i] = q[i + 1]
      /\ \A i \in 1 .. Len(q) : i # 1 => i - 1 \in 1 .. Len(r) /\ r[i - 1] = q[i]
  BY TailFacts
<1> HIDE DEF r
<1>2. \A i \in 1 .. Len(q) : IsChunk(q[i], u) => i # 1
  BY <1>1
<1>3. Chained(r, u, b, last)
  <2> SUFFICES ASSUME NEW i \in 1 .. Len(r), IsChunk(r[i], u)
               PROVE  /\ \/ Ord(last, r[i].n) = b + 1
                         \/ \E j \in 1 .. Len(r) : /\ j < i /\ IsChunk(r[j], u)
                                                   /\ Ord(last, r[j].n) = Ord(last, r[i].n) - 1
                      /\ \A j \in 1 .. Len(r) : j < i /\ IsChunk(r[j], u) =>
                                                  Ord(last, r[j].n) < Ord(last, r[i].n)
    BY DEF Chained
  <2>1. i + 1 \in 1 .. Len(q) /\ r[i] = q[i + 1]
    BY <1>1
  <2>2. \A j \in 1 .. Len(r) : j < i => j + 1 < i + 1
    OBVIOUS
  <2>3. \A j \in 1 .. Len(r) : j < i /\ IsChunk(r[j], u) =>
                                  Ord(last, r[j].n) < Ord(last, r[i].n)
    BY <1>1, <2>1, <2>2 DEF Chained
  <2>4. CASE Ord(last, r[i].n) = b + 1
    BY <2>3, <2>4
  <2>5. CASE \E j \in 1 .. Len(q) : /\ j < i + 1 /\ IsChunk(q[j], u)
                                    /\ Ord(last, q[j].n) = Ord(last, q[i + 1].n) - 1
    <3>1. PICK j \in 1 .. Len(q) : /\ j < i + 1 /\ IsChunk(q[j], u)
                                   /\ Ord(last, q[j].n) = Ord(last, q[i + 1].n) - 1
      BY <2>5
    <3>2. j - 1 \in 1 .. Len(r) /\ r[j - 1] = q[j] /\ j - 1 < i
      BY <1>1, <1>2, <3>1
    <3> QED
      BY <2>1, <2>3, <3>1, <3>2
  <2> QED
    BY <2>1, <2>4, <2>5 DEF Chained
<1>4. ASSUME NEW sent, Filled(q, u, b, last, sent)
      PROVE  Filled(r, u, b, last, sent)
  BY <1>1, <1>2, <1>4 DEF Filled
<1> QED
  BY <1>3, <1>4 DEF r

\* The next chunk of u is received.
LEMMA TakeOwn ==
  ASSUME NEW S, NEW q \in Seq(S), q # <<>>, NEW u, IsChunk(Head(q), u),
         NEW b \in Nat, NEW last \in Nat, Numbered(q, u),
         Chained(q, u, b, last)
  PROVE  /\ Ord(last, Head(q).n) = b + 1
         /\ Chained(Tail(q), u, b + 1, last)
         /\ \A sent \in Nat : Filled(q, u, b, last, sent) =>
                                Filled(Tail(q), u, b + 1, last, sent)
<1> DEFINE r == Tail(q)
           o(x) == Ord(last, x.n)
<1>1. /\ Len(q) \in Nat \ {0} /\ Len(r) = Len(q) - 1
      /\ IsChunk(q[1], u) /\ Head(q) = q[1] /\ 1 \in 1 .. Len(q)
      /\ \A i \in 1 .. Len(r) : i + 1 \in 1 .. Len(q) /\ r[i] = q[i + 1]
      /\ \A i \in 1 .. Len(q) : i # 1 => i - 1 \in 1 .. Len(r) /\ r[i - 1] = q[i]
  BY TailFacts
<1> HIDE DEF r
<1>2. \A i \in 1 .. Len(q) : IsChunk(q[i], u) => o(q[i]) \in Nat
  BY DEF Numbered, Ord
<1>3. o(q[1]) = b + 1
  <2>1. ~ \E j \in 1 .. Len(q) : j < 1
    OBVIOUS
  <2> QED
    BY <1>1, <2>1 DEF Chained
<1>4. \A i \in 1 .. Len(q) : i # 1 /\ IsChunk(q[i], u) => o(q[i]) # b + 1
  <2>1. \A i \in 1 .. Len(q) : i # 1 => 1 < i
    OBVIOUS
  <2> QED
    BY <1>1, <1>2, <1>3, <2>1 DEF Chained
<1>5. Chained(r, u, b + 1, last)
  <2> SUFFICES ASSUME NEW i \in 1 .. Len(r), IsChunk(r[i], u)
               PROVE  /\ \/ o(r[i]) = (b + 1) + 1
                         \/ \E j \in 1 .. Len(r) : /\ j < i /\ IsChunk(r[j], u)
                                                   /\ o(r[j]) = o(r[i]) - 1
                      /\ \A j \in 1 .. Len(r) : j < i /\ IsChunk(r[j], u) =>
                                                  o(r[j]) < o(r[i])
    BY DEF Chained
  <2>1. i + 1 \in 1 .. Len(q) /\ r[i] = q[i + 1] /\ i + 1 # 1
    BY <1>1
  <2>2. \A j \in 1 .. Len(r) : j < i => j + 1 < i + 1
    OBVIOUS
  <2>3. \A j \in 1 .. Len(r) : j < i /\ IsChunk(r[j], u) => o(r[j]) < o(r[i])
    BY <1>1, <2>1, <2>2 DEF Chained
  <2>4. PICK j \in 1 .. Len(q) : j < i + 1 /\ IsChunk(q[j], u) /\ o(q[j]) = o(q[i + 1]) - 1
    BY <1>4, <2>1 DEF Chained
  <2>5. o(r[i]) \in Nat
    BY <1>2, <2>1
  <2>6. CASE j = 1
    BY <1>3, <2>1, <2>3, <2>4, <2>5, <2>6
  <2>7. CASE j # 1
    <3>1. j - 1 \in 1 .. Len(r) /\ r[j - 1] = q[j] /\ j - 1 < i
      BY <1>1, <2>4, <2>7
    <3> QED
      BY <2>1, <2>3, <2>4, <3>1
  <2> QED
    BY <2>6, <2>7
<1>6. ASSUME NEW sent \in Nat, Filled(q, u, b, last, sent)
      PROVE  Filled(r, u, b + 1, last, sent)
  <2>1. b + 1 <= sent
    BY <1>1, <1>3, <1>6 DEF Filled
  <2>2. \A i \in 1 .. Len(r) : IsChunk(r[i], u) => o(r[i]) <= sent
    BY <1>1, <1>6 DEF Filled
  <2>3. CASE b + 1 = sent
    BY <2>1, <2>2, <2>3 DEF Filled
  <2>4. CASE b + 1 # sent
    <3>1. PICK i \in 1 .. Len(q) : IsChunk(q[i], u) /\ o(q[i]) = sent
      BY <1>6, <2>1 DEF Filled
    <3>2. i # 1
      BY <1>3, <2>4, <3>1
    <3> QED
      BY <1>1, <2>1, <2>2, <3>1, <3>2 DEF Filled
  <2> QED
    BY <2>3, <2>4
<1> QED
  BY <1>1, <1>3, <1>5, <1>6 DEF r

\* The websocket breaks.
LEMMA Cut ==
  ASSUME NEW S, NEW q \in Seq(S), NEW k \in 0 .. Len(q), NEW u, NEW b, NEW last,
         Chained(q, u, b, last)
  PROVE  Chained(SubSeq(q, 1, k), u, b, last)
<1> DEFINE r == SubSeq(q, 1, k)
<1>1. /\ Len(q) \in Nat /\ k \in Nat /\ k <= Len(q) /\ Len(r) = k
      /\ \A i \in 1 .. k : i \in 1 .. Len(q) /\ r[i] = q[i]
  BY PrefixFacts
<1> HIDE DEF r
<1>2. ASSUME NEW i \in 1 .. k, NEW j \in 1 .. Len(q), j < i
      PROVE  j \in 1 .. k
  BY <1>1, <1>2
<1>3. Chained(r, u, b, last)
  BY <1>1, <1>2 DEF Chained
<1> QED
  BY <1>3 DEF r

\* One more chunk is to come and nobody has closed: no number changes.
LEMMA Renumber ==
  ASSUME NEW q, NEW u, NEW b, NEW last, NEW next,
         \A i \in 1 .. Len(q) : IsChunk(q[i], u) => q[i].n # 0
  PROVE  /\ Chained(q, u, b, last) => Chained(q, u, b, next)
         /\ \A sent : Filled(q, u, b, last, sent) => Filled(q, u, b, next, sent)
<1>1. \A i \in 1 .. Len(q) : IsChunk(q[i], u) => Ord(last, q[i].n) = Ord(next, q[i].n)
  BY DEF Ord
<1> QED
  BY <1>1 DEF Chained, Filled
-----------------------------------------------------------------------------
(* The same, for all that is said of u                                     *)

\* r is q after a step that brought nothing for the set-up of u,
PassesConnect(q, r, u) ==
  /\ NoConnect(q, u) => NoConnect(r, u)
  /\ Single(q, u) => Single(r, u)

Passes(q, r, u) ==
  /\ PassesConnect(q, r, u)
  /\ OnlyRefused(q, u) => OnlyRefused(r, u)

\* that brought no chunk of u,
PassesChunks(q, r, u) ==
  \A i \in 1 .. Len(r) : IsChunk(r[i], u) => \E j \in 1 .. Len(q) : q[j] = r[i]

\* that took none, and that lost none.
PassesChain(q, r, u) == \A b, last : Chained(q, u, b, last) => Chained(r, u, b, last)

Keeps(q, r, u) == \A b, last, sent :
  Chained(q, u, b, last) /\ Filled(q, u, b, last, sent) => Filled(r, u, b, last, sent)

\* A direction that does not change passes everything on.
LEMMA PassSame ==
  ASSUME NEW q, NEW u
  PROVE  /\ Passes(q, q, u) /\ PassesChunks(q, q, u)
         /\ PassesChain(q, q, u) /\ Keeps(q, q, u)
BY DEF Passes, PassesConnect, PassesChunks, PassesChain, Keeps

\* A message is put on a direction: it passes on what is there for every
\* connection that the message is not a chunk of.
LEMMA PassSend ==
  ASSUME NEW S, NEW q \in Seq(S), NEW m \in S, NEW u
  PROVE  /\ m.user # u => Passes(q, Append(q, m), u)
         /\ m.kind # "connect" => PassesConnect(q, Append(q, m), u)
         /\ ~IsChunk(m, u) => /\ PassesChunks(q, Append(q, m), u)
                              /\ PassesChain(q, Append(q, m), u)
                              /\ Keeps(q, Append(q, m), u)
<1> DEFINE r == Append(q, m)
<1>1. /\ Len(q) \in Nat /\ Len(r) = Len(q) + 1
      /\ \A i \in 1 .. Len(q) : r[i] = q[i] /\ i \in 1 .. Len(r)
      /\ r[Len(q) + 1] = m
      /\ \A i \in 1 .. Len(r) : i \in 1 .. Len(q) \/ i = Len(q) + 1
  BY AppendFacts
<1>2. ~IsChunk(m, u) => PassesChain(q, r, u) /\ Keeps(q, r, u)
  BY SendOther DEF PassesChain, Keeps
<1> HIDE DEF r
<1>3. ~IsChunk(m, u) => PassesChunks(q, r, u)
  BY <1>1 DEF PassesChunks
<1>4. ASSUME m.user # u
      PROVE  Passes(q, r, u)
  <2>1. \A i \in 1 .. Len(r) : r[i].user = u => i \in 1 .. Len(q) /\ r[i] = q[i]
    BY <1>1, <1>4
  <2> QED
    BY <1>1, <2>1 DEF Passes, PassesConnect, NoConnect, Single, OnlyRefused
<1>5. ASSUME m.kind # "connect"
      PROVE  PassesConnect(q, r, u)
  <2>1. \A i \in 1 .. Len(r) : r[i].kind = "connect" => i \in 1 .. Len(q) /\ r[i] = q[i]
    BY <1>1, <1>5
  <2> QED
    BY <1>1, <2>1 DEF PassesConnect, NoConnect, Single
<1> QED
  BY <1>2, <1>3, <1>4, <1>5 DEF r

\* The first message is taken off a direction: it passes on the chunks of
\* every connection but that of the message.
LEMMA PassTake ==
  ASSUME NEW S, NEW q \in Seq(S), q # <<>>, NEW u
  PROVE  /\ Passes(q, Tail(q), u) /\ PassesChunks(q, Tail(q), u)
         /\ ~IsChunk(Head(q), u) => PassesChain(q, Tail(q), u) /\ Keeps(q, Tail(q), u)
<1> DEFINE r == Tail(q)
<1>1. \A i \in 1 .. Len(r) : i + 1 \in 1 .. Len(q) /\ r[i] = q[i + 1]
  BY TailFacts
<1>2. ~IsChunk(Head(q), u) => PassesChain(q, r, u) /\ Keeps(q, r, u)
  BY TakeOther DEF PassesChain, Keeps
<1> HIDE DEF r
<1>3. Single(q, u) => Single(r, u)
  <2> SUFFICES ASSUME Single(q, u), NEW i \in 1 .. Len(r), NEW j \in 1 .. Len(r),
                      r[i].kind = "connect", r[i].user = u,
                      r[j].kind = "connect", r[j].user = u
               PROVE  i = j
    BY DEF Single
  <2>1. i + 1 = j + 1
    BY <1>1 DEF Single
  <2> QED
    BY <2>1
<1>4. Passes(q, r, u) /\ PassesChunks(q, r, u)
  BY <1>1, <1>3 DEF Passes, PassesConnect, PassesChunks, NoConnect, OnlyRefused
<1> QED
  BY <1>2, <1>4 DEF r

\* A broken websocket loses messages from the end: what is left is chained.
LEMMA PassCut ==
  ASSUME NEW S, NEW q \in Seq(S), NEW k \in 0 .. Len(q), NEW u
  PROVE  /\ Passes(q, SubSeq(q, 1, k), u) /\ PassesChunks(q, SubSeq(q, 1, k), u)
         /\ PassesChain(q, SubSeq(q, 1, k), u)
<1> DEFINE r == SubSeq(q, 1, k)
<1>1. Len(r) = k /\ \A i \in 1 .. k : i \in 1 .. Len(q) /\ r[i] = q[i]
  BY PrefixFacts
<1>2. PassesChain(q, r, u)
  BY Cut DEF PassesChain
<1> HIDE DEF r
<1>3. Passes(q, r, u) /\ PassesChunks(q, r, u)
  BY <1>1 DEF Passes, PassesConnect, PassesChunks, NoConnect, Single, OnlyRefused
<1> QED
  BY <1>2, <1>3 DEF r

-----------------------------------------------------------------------------
(* Channels                                                                *)

\* A chunk in hand, or one put into the channel, is one more.
LEMMA BaseFacts ==
  ASSUME NEW ch \in Seq(Nat), NEW got \in Seq(Nat)
  PROVE  /\ Base(got, ch, 0) \in Nat /\ Base(got, ch, 1) \in Nat
         /\ Base(got, ch, 1) = Base(got, ch, 0) + 1
<1>1. PICK g \in Nat, c \in Nat : g = Len(got) /\ c = Len(ch)
  OBVIOUS
<1> QED
  BY <1>1 DEF Base

\* A chunk that moves from the loop's hands, or from the websocket, into the
\* channel.
LEMMA BasePut ==
  ASSUME NEW ch \in Seq(Nat), NEW got \in Seq(Nat), NEW n \in Nat
  PROVE  /\ Base(got, Append(ch, n), 0) = Base(got, ch, 1)
         /\ Base(got, ch, 1) = Base(got, ch, 0) + 1
<1>1. PICK g \in Nat, c \in Nat : g = Len(got) /\ c = Len(ch)
  OBVIOUS
<1>2. Len(Append(ch, n)) = c + 1
  BY <1>1, AppendFacts
<1> QED
  BY <1>1, <1>2 DEF Base

\* A chunk that goes from the channel to the other end changes nothing.
LEMMA BaseTake ==
  ASSUME NEW ch \in Seq(Nat), NEW got \in Seq(Nat), ch # <<>>, NEW n \in Nat, NEW k \in {0, 1}
  PROVE  Base(Append(got, n), Tail(ch), k) = Base(got, ch, k)
<1>1. PICK g \in Nat, c \in Nat : g = Len(got) /\ c = Len(ch)
  OBVIOUS
<1>2. Len(Append(got, n)) = g + 1
  BY <1>1, AppendFacts
<1>3. Len(Tail(ch)) = c - 1
  BY <1>1, TailFacts
<1> QED
  BY <1>1, <1>2, <1>3 DEF Base

\* The task takes the first chunk and writes it.
LEMMA QueueTake ==
  ASSUME NEW ch \in Seq(Nat), ch # <<>>, NEW got \in Seq(Nat), NEW last \in Nat,
         Queued(ch, got, last)
  PROVE  /\ Ord(last, Head(ch)) = Len(got) + 1
         /\ \A x \in Nat : Queued(Tail(ch), Append(got, x), last)
<1>1. /\ Len(ch) \in Nat \ {0} /\ Len(Tail(ch)) = Len(ch) - 1
      /\ Head(ch) = ch[1] /\ 1 \in 1 .. Len(ch) /\ Len(got) \in Nat
      /\ \A i \in 1 .. Len(Tail(ch)) : i + 1 \in 1 .. Len(ch) /\ Tail(ch)[i] = ch[i + 1]
  BY TailFacts
<1>2. \A x \in Nat : Len(Append(got, x)) = Len(got) + 1
  BY AppendFacts
<1>3. Ord(last, Head(ch)) = Len(got) + 1
  BY <1>1 DEF Queued
<1>4. ASSUME NEW x \in Nat, NEW i \in 1 .. Len(Tail(ch))
      PROVE  Ord(last, Tail(ch)[i]) = Len(Append(got, x)) + i
  <2>1. Ord(last, Tail(ch)[i]) = Len(got) + (i + 1)
    BY <1>1 DEF Queued
  <2> QED
    BY <1>1, <1>2, <2>1
<1> QED
  BY <1>1, <1>2, <1>3, <1>4 DEF Queued

\* The channels of all connections, within their capacity.
Bounded(f, U, max, cap) ==
  f \in [U -> Seq(Nat)] /\ \A v \in U : f[v] \in Seq(0 .. max) /\ Len(f[v]) <= cap

\* A chunk is put in one of them.
LEMMA PutFacts ==
  ASSUME NEW U, NEW f, NEW max \in Nat, NEW cap \in Nat, Bounded(f, U, max, cap),
         NEW u \in U, NEW n \in 0 .. max, Len(f[u]) < cap
  PROVE  Bounded([f EXCEPT ![u] = Append(@, n)], U, max, cap)
<1> DEFINE g == [f EXCEPT ![u] = Append(@, n)]
<1>1. f[u] \in Seq(0 .. max) /\ f[u] \in Seq(Nat) /\ n \in Nat
  BY DEF Bounded
<1>2. PICK l \in Nat : l = Len(f[u])
  BY <1>1
<1>3. /\ Append(f[u], n) \in Seq(0 .. max) /\ Append(f[u], n) \in Seq(Nat)
      /\ Len(Append(f[u], n)) = l + 1
  BY <1>1, <1>2, AppendFacts
<1>4. g[u] = Append(f[u], n) /\ \A v \in U : v # u => g[v] = f[v]
  BY DEF Bounded
<1>5. g \in [U -> Seq(Nat)]
  BY <1>3 DEF Bounded
<1>6. l + 1 <= cap
  BY <1>2
<1> QED
  BY <1>2, <1>3, <1>4, <1>5, <1>6 DEF Bounded

\* The task takes one from them.
LEMMA TakeFacts ==
  ASSUME NEW U, NEW f, NEW max \in Nat, NEW cap \in Nat, Bounded(f, U, max, cap),
         NEW u \in U, f[u] # <<>>
  PROVE  Bounded([f EXCEPT ![u] = Tail(@)], U, max, cap)
<1> DEFINE g == [f EXCEPT ![u] = Tail(@)]
<1>1. f[u] \in Seq(0 .. max) /\ f[u] \in Seq(Nat) /\ Len(f[u]) <= cap
  BY DEF Bounded
<1>2. PICK l \in Nat : l = Len(f[u])
  BY <1>1
<1>3. /\ Tail(f[u]) \in Seq(0 .. max) /\ Tail(f[u]) \in Seq(Nat)
      /\ Len(Tail(f[u])) = l - 1
  BY <1>1, <1>2, TailFacts
<1>4. g[u] = Tail(f[u]) /\ \A v \in U : v # u => g[v] = f[v]
  BY DEF Bounded
<1>5. g \in [U -> Seq(Nat)]
  BY <1>3 DEF Bounded
<1>6. l - 1 <= cap
  BY <1>1, <1>2
<1> QED
  BY <1>2, <1>3, <1>4, <1>5, <1>6 DEF Bounded

\* A channel goes with its task.
LEMMA ClearFacts ==
  ASSUME NEW U, NEW f, NEW max \in Nat, NEW cap \in Nat, Bounded(f, U, max, cap), NEW u \in U
  PROVE  Bounded([f EXCEPT ![u] = <<>>], U, max, cap)
<1> DEFINE g == [f EXCEPT ![u] = <<>>]
<1>1. g[u] = <<>> /\ \A v \in U : v # u => g[v] = f[v]
  BY DEF Bounded
<1>2. g \in [U -> Seq(Nat)] /\ Len(<<>>) <= cap /\ <<>> \in Seq(0 .. max)
  BY DEF Bounded
<1> QED
  BY <1>1, <1>2 DEF Bounded

\* A chunk is put in the channel.
LEMMA QueuePut ==
  ASSUME NEW ch \in Seq(Nat), NEW got \in Seq(Nat), NEW last \in Nat, NEW n \in Nat,
         Queued(ch, got, last), Ord(last, n) = Base(got, ch, 1)
  PROVE  Queued(Append(ch, n), got, last)
<1> DEFINE c == Append(ch, n)
<1>1. /\ Len(ch) \in Nat /\ Len(got) \in Nat
      /\ \A i \in 1 .. Len(ch) : c[i] = ch[i]
      /\ c[Len(ch) + 1] = n
      /\ \A i \in 1 .. Len(c) : i \in 1 .. Len(ch) \/ i = Len(ch) + 1
  BY AppendFacts
<1> HIDE DEF c
<1>2. ASSUME NEW i \in 1 .. Len(c)
      PROVE  Ord(last, c[i]) = Len(got) + i
  <2>1. CASE i \in 1 .. Len(ch)
    BY <1>1, <2>1 DEF Queued
  <2>2. CASE i = Len(ch) + 1
    BY <1>1, <2>2 DEF Base
  <2> QED
    BY <1>1, <2>1, <2>2
<1> QED
  BY <1>2 DEF Queued, c
=============================================================================
