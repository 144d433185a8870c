-------------------------- MODULE ClientLoopProofs --------------------------
(***************************************************************************)
(* Proofs about ClientLoop, for any other clients, names, match objects,    *)
(* lengths of the channels and lines typed ahead.                           *)
(*                                                                          *)
(* As long as messages have not been on their way in both directions, what  *)
(* waits for the client comes in an order it is prepared for, and what it   *)
(* does, with what is still on its way, tells what the server has of it.    *)
(* Nothing is said of a client that a signal has taken out of a read: its   *)
(* answer may still come, but the loop ends before it looks for a message.  *)
(***************************************************************************)
EXTENDS ClientLoop, SequenceTheorems, TLAPS

Server == INSTANCE BattleServerProofs

---------------------------------------------------------------------------
(* The client.  b is what it does, r and s are its channels, from and to    *)
(* the server, and t is its situation there.                                *)

doing ==
  IF at \in Reading THEN at
  ELSE IF at \in {"asking", "replying"} THEN "asking"
  ELSE IF status = "disconnected" THEN "lobby" ELSE "game"

\* What it does after a message of kind k.
leads(k) ==
  IF k = "REQ_PLAY" THEN "asking" ELSE IF k = "PLAY_ACCEPT" THEN "game" ELSE "lobby"

expects(b, k) ==
  \/ b = "who" /\ k = "ANS_WHO"
  \/ b \in {"connect", "asking", "answer"} /\ k \in Server!PlayResponse
  \/ b = "lobby" /\ k \in {"REQ_PLAY", "MSG_ENDGAME"}
  \/ b = "game" /\ k = "MSG_ENDGAME"

before(b, r, i) == IF i = 1 THEN b ELSE leads(r[i - 1])

InOrder(b, r) == \A i \in 1 .. Len(r) : expects(before(b, r, i), r[i])

headed(b, r) == IF r = <<>> THEN b ELSE leads(r[Len(r)])

\* What it does after it has written m, and the situation in which m is read.
wrote(m) ==
  CASE m.type = "MSG_ENDGAME"  -> "lobby"
    [] m.type = "REQ_WHO"      -> "who"
    [] m.type = "REQ_PLAY"     -> "connect"
    [] m.type = "REQ_PLAY_ANS" -> "answer"

needs(m) ==
  CASE m.type = "MSG_ENDGAME"  -> "game"
    [] m.type = "REQ_PLAY_ANS" -> "invited"
    [] OTHER                   -> "free"

Asks(m) == m.type \in {"REQ_WHO", "REQ_PLAY"}

Agrees(b, t) ==
  \/ b = "lobby" /\ t = "free"
  \/ b = "connect" /\ t = "asker"
  \/ b = "asking" /\ t = "invited"
  \/ b = "game" /\ t = "game"

Known(b, r, s, t) ==
  /\ s = <<>> => Agrees(headed(b, r), t)
  /\ s # <<>> => /\ b = wrote(s[Len(s)]) /\ t = needs(s[1])
                 /\ \/ Len(s) = 1
                    \/ Len(s) = 2 /\ s[1].type = "MSG_ENDGAME" /\ Asks(s[2])

situation ==
  IF match[me] = Null THEN "free"
  ELSE IF ~heap[match[me]].awaiting_reply THEN "game"
  ELSE IF me = heap[match[me]].player1 THEN "asker" ELSE "invited"

---------------------------------------------------------------------------
(* The invariant.                                                           *)

\* A signal has ended a read: the loop will test the flag, and visits neither the
\* terminal nor the server before.
Doomed ==
  /\ at \in {"pass", "top"} /\ received_signal
  /\ report \subseteq {"game"} /\ status = "disconnected"

Follows == ~crossed /\ at # "ended" /\ ~Doomed

Present == server = "running" => me \in connected /\ username[me] # Null

\* Where the process is outside of the loop; stdin has been visited before that.
Statuses ==
  /\ at \in Reading \cup {"asking", "replying"} =>
       status = "disconnected" /\ "stdin" \notin report
  /\ at \in {"placing", "flush", "flush_placing"} => status # "disconnected"

\* The client is in no match but its own.
OnlyOwn == \A m \in Match : heap[m] # Null /\ me \in Server!Players(m) => match[me] = m

Alone == Follows /\ server = "running" => OnlyOwn

OneWay == ~crossed => toServer = <<>> \/ toClient = <<>>

\* What select() reports of the server is still there when it is looked at.
Reports ==
  ~crossed /\ server = "running" /\ at # "ended" /\ "server" \in report =>
    at \in {"pass", "flush"} /\ toClient # <<>>

Order == Follows => InOrder(doing, toClient)

Knowledge ==
  Follows /\ server = "running" => Known(doing, toClient, toServer, situation)

\* TypeOK, but for the variables of the server.
Types ==
  /\ toServer \in Seq(Request) /\ toClient \in Seq(Kind)
  /\ at \in Place
  /\ status \in {"disconnected", "my_turn", "other"}
  /\ tty \in 0 .. MaxTyped
  /\ report \subseteq {"stdin", "server", "game"}
  /\ {datagram, received_signal, quiet, crossed} \subseteq BOOLEAN
  /\ why \in {"running", "signal", "quit", "closed", "invalid", "wrong"}

Base == Types /\ Server!Inv /\ Present

IInv == /\ Base /\ Statuses /\ Alone /\ OneWay /\ Reports /\ Order /\ Knowledge
        /\ EndsWithCause

---------------------------------------------------------------------------
(* Sequences.                                                               *)

\* One more element at the end.
LEMMA Appended ==
  ASSUME NEW S, NEW r \in Seq(S), NEW m \in S
  PROVE  /\ Append(r, m) \in Seq(S) /\ Append(r, m) # <<>>
         /\ Len(r) \in Nat /\ Len(Append(r, m)) = Len(r) + 1
         /\ Append(r, m)[Len(r) + 1] = m
         /\ \A i \in 1 .. Len(r) : Append(r, m)[i] = r[i] /\ r[i] \in S
         /\ r = <<>> <=> Len(r) = 0
         /\ r \o <<m>> = Append(r, m)
  OBVIOUS

\* The first element taken away.
LEMMA Tailed ==
  ASSUME NEW S, NEW r \in Seq(S), r # <<>>
  PROVE  /\ Tail(r) \in Seq(S)
         /\ Len(r) \in Nat /\ Len(r) >= 1 /\ Len(Tail(r)) = Len(r) - 1
         /\ \A i \in 1 .. Len(r) - 1 : Tail(r)[i] = r[i + 1]
         /\ Tail(r) = <<>> <=> Len(r) = 1
         /\ Head(r) = r[1]
         /\ \A i \in 1 .. Len(r) : r[i] \in S
<1>1. Len(r) \in Nat /\ Len(r) >= 1 /\ \A i \in 1 .. Len(r) : r[i] \in S
  OBVIOUS
<1>2. /\ Tail(r) \in Seq(S) /\ Len(Tail(r)) = Len(r) - 1
      /\ \A i \in 1 .. Len(r) - 1 : Tail(r)[i] = r[i + 1]
  BY HeadTailProperties
<1>3. Tail(r) = <<>> <=> Len(Tail(r)) = 0
  BY <1>2, EmptySeq
<1>4. Head(r) = r[1]
  OBVIOUS
<1> QED BY <1>1, <1>2, <1>3, <1>4

---------------------------------------------------------------------------
(* What a message on its way changes.                                       *)

\* Nothing to read is in order.
LEMMA NothingThere ==
  ASSUME NEW b
  PROVE  InOrder(b, <<>>) /\ headed(b, <<>>) = b
  BY DEF InOrder, headed

\* A message that comes, and is the one to be expected.
LEMMA Comes ==
  ASSUME NEW b, NEW S, NEW r \in Seq(S), NEW k \in S, InOrder(b, r), expects(headed(b, r), k)
  PROVE  InOrder(b, Append(r, k)) /\ headed(b, Append(r, k)) = leads(k)
<1> DEFINE q == Append(r, k)
           n == Len(r)
<1>1. /\ q # <<>> /\ n \in Nat /\ Len(q) = n + 1 /\ q[n + 1] = k
      /\ \A i \in 1 .. n : q[i] = r[i]
      /\ r = <<>> <=> n = 0
  BY Appended
<1> HIDE DEF q, n
<1>2. headed(b, q) = leads(k)
  BY <1>1 DEF headed
<1>3. ASSUME NEW i \in 1 .. Len(q) PROVE expects(before(b, q, i), q[i])
  <2>1. CASE i \in 1 .. n
    <3>1. i # 1 => i - 1 \in 1 .. n
      BY <1>1, <2>1
    <3>2. before(b, q, i) = before(b, r, i)
      BY <1>1, <3>1 DEF before
    <3> QED BY <1>1, <2>1, <3>2 DEF InOrder, n
  <2>2. CASE i = n + 1
    <3>1. before(b, q, i) = headed(b, r)
      <4>1. CASE n = 0
        BY <1>1, <2>2, <4>1 DEF before, headed
      <4>2. CASE n # 0
        <5>1. i # 1 /\ i - 1 = n /\ n \in 1 .. n /\ r # <<>>
          BY <1>1, <2>2, <4>2
        <5>2. q[i - 1] = r[Len(r)]
          BY <1>1, <5>1 DEF n
        <5> QED BY <5>1, <5>2 DEF before, headed
      <4> QED BY <4>1, <4>2
    <3> QED BY <1>1, <2>2, <3>1
  <2> QED BY <1>1, <2>1, <2>2
<1> QED BY <1>2, <1>3 DEF InOrder, q

\* The first message is read.
LEMMA Goes ==
  ASSUME NEW b, NEW S, NEW r \in Seq(S), r # <<>>, InOrder(b, r)
  PROVE  /\ expects(b, Head(r))
         /\ InOrder(leads(Head(r)), Tail(r))
         /\ headed(leads(Head(r)), Tail(r)) = headed(b, r)
<1> DEFINE q == Tail(r)
           n == Len(r)
           k == Head(r)
<1>1. /\ q \in Seq(S) /\ n \in Nat /\ n >= 1 /\ Len(q) = n - 1
      /\ \A i \in 1 .. n - 1 : q[i] = r[i + 1]
      /\ q = <<>> <=> n = 1
      /\ k = r[1]
  BY Tailed
<1>2. \A i \in 1 .. n : expects(before(b, r, i), r[i])
  BY DEF InOrder
<1> HIDE DEF q, n, k
<1>3. expects(b, k)
  <2>1. 1 \in 1 .. n /\ before(b, r, 1) = b
    BY <1>1 DEF before
  <2> QED BY <1>1, <1>2, <2>1
<1>4. ASSUME NEW i \in 1 .. Len(q) PROVE expects(before(leads(k), q, i), q[i])
  <2>1. i \in 1 .. n - 1 /\ i + 1 \in 1 .. n /\ i + 1 # 1 /\ (i + 1) - 1 = i /\ q[i] = r[i + 1]
    BY <1>1
  <2>2. before(b, r, i + 1) = leads(r[i])
    BY <2>1 DEF before
  <2>3. before(leads(k), q, i) = leads(r[i])
    <3>1. CASE i = 1
      BY <1>1, <3>1 DEF before
    <3>2. CASE i # 1
      <4>1. i - 1 \in 1 .. n - 1 /\ (i - 1) + 1 = i
        BY <1>1, <2>1, <3>2
      <4>2. q[i - 1] = r[i]
        BY <1>1, <4>1
      <4> QED BY <3>2, <4>2 DEF before
    <3> QED BY <3>1, <3>2
  <2> QED BY <1>2, <2>1, <2>2, <2>3
<1>5. headed(leads(k), q) = headed(b, r)
  <2>1. headed(b, r) = leads(r[n])
    BY DEF headed, n
  <2>2. CASE n = 1
    BY <1>1, <2>1, <2>2 DEF headed
  <2>3. CASE n # 1
    <3>1. q # <<>> /\ Len(q) \in 1 .. n - 1 /\ Len(q) + 1 = n
      BY <1>1, <2>3
    <3>2. q[Len(q)] = r[n]
      BY <1>1, <3>1
    <3> QED BY <2>1, <3>1, <3>2 DEF headed
  <2> QED BY <2>2, <2>3
<1> QED BY <1>3, <1>4, <1>5 DEF InOrder, q, k

\* What a request says of its writer.
LEMMA Requests ==
  ASSUME NEW m \in Request
  PROVE  /\ m.type \in {"REQ_WHO", "REQ_PLAY", "REQ_PLAY_ANS", "MSG_ENDGAME"}
         /\ m.type = "REQ_PLAY" => m.opponent \in Name
         /\ m.type = "REQ_PLAY_ANS" => m.accept \in BOOLEAN
         /\ m.type = "MSG_ENDGAME" => m.disconnected \in BOOLEAN
         /\ m.type = "REQ_WHO" => wrote(m) = "who" /\ needs(m) = "free"
         /\ m.type = "REQ_PLAY" => wrote(m) = "connect" /\ needs(m) = "free"
         /\ m.type = "REQ_PLAY_ANS" => wrote(m) = "answer" /\ needs(m) = "invited"
         /\ m.type = "MSG_ENDGAME" => wrote(m) = "lobby" /\ needs(m) = "game"
  BY DEF Request, wrote, needs

\* The server's steps for another client, or for a request that has elapsed: from
\* situation t to z, with x sent to me.
Told(t, z, x) ==
  \/ x = <<>> /\ z = t
  \/ t = "free" /\ x = <<"REQ_PLAY">> /\ z = "invited"
  \/ t = "asker" /\ x = <<"PLAY_ACCEPT">> /\ z = "game"
  \/ t \in {"asker", "invited"} /\ x \in {<<"PLAY_DECLINE">>, <<"PLAY_TIMEDOUT">>} /\ z = "free"
  \/ t = "game" /\ x = <<"MSG_ENDGAME">> /\ z = "free"

\* The same for a request of me that is read in the situation for it.
Answered(m, z, x) ==
  \/ m.type = "REQ_WHO" /\ x = <<"ANS_WHO">> /\ z = "free"
  \/ /\ m.type = "REQ_PLAY"
     /\ x \in {<<"PLAY_INVALID_OPPONENT">>, <<"PLAY_OPPONENT_IN_GAME">>} /\ z = "free"
  \/ m.type = "REQ_PLAY" /\ x = <<>> /\ z = "asker"
  \/ m.type = "REQ_PLAY_ANS" /\ x = <<"PLAY_ACCEPT">> /\ z = "game"
  \/ m.type = "REQ_PLAY_ANS" /\ x = <<"PLAY_DECLINE">> /\ z = "free"
  \/ m.type = "MSG_ENDGAME" /\ x = <<>> /\ z = "free"

\* A message that nothing of the client's crosses finds it prepared.
LEMMA Heard ==
  ASSUME NEW b, NEW r \in Seq(Kind), NEW t, NEW z, NEW x, x # <<>>,
         InOrder(b, r), Known(b, r, <<>>, t), Told(t, z, x)
  PROVE  InOrder(b, r \o x) /\ Known(b, r \o x, <<>>, z)
<1>1. Agrees(headed(b, r), t)
  BY DEF Known
<1>2. PICK k : /\ x = <<k>> /\ k \in Kind /\ expects(headed(b, r), k)
               /\ Agrees(leads(k), z)
  <2>1. CASE t = "free" /\ x = <<"REQ_PLAY">> /\ z = "invited"
    <3>1. headed(b, r) = "lobby"
      BY <1>1, <2>1 DEF Agrees
    <3> QED BY <2>1, <3>1 DEF expects, leads, Agrees, Kind
  <2>2. CASE t = "asker" /\ x = <<"PLAY_ACCEPT">> /\ z = "game"
    <3>1. headed(b, r) = "connect" /\ "PLAY_ACCEPT" \in Server!PlayResponse
      BY <1>1, <2>2 DEF Agrees, Server!PlayResponse
    <3>2. "PLAY_ACCEPT" \in Kind
      BY DEF Kind, Srv!PlayResponse
    <3> QED BY <2>2, <3>1, <3>2 DEF expects, leads, Agrees
  <2>3. CASE /\ t \in {"asker", "invited"} /\ z = "free"
             /\ x \in {<<"PLAY_DECLINE">>, <<"PLAY_TIMEDOUT">>}
    <3>1. PICK k \in {"PLAY_DECLINE", "PLAY_TIMEDOUT"} : x = <<k>>
      BY <2>3
    <3>2. headed(b, r) \in {"connect", "asking"} /\ k \in Server!PlayResponse
      BY <1>1, <2>3 DEF Agrees, Server!PlayResponse
    <3>3. k \in Kind
      BY DEF Kind, Srv!PlayResponse
    <3>4. expects(headed(b, r), k) /\ Agrees(leads(k), z)
      BY <2>3, <3>2 DEF expects, leads, Agrees
    <3> QED BY <3>1, <3>3, <3>4
  <2>4. CASE t = "game" /\ x = <<"MSG_ENDGAME">> /\ z = "free"
    <3>1. headed(b, r) = "game"
      BY <1>1, <2>4 DEF Agrees
    <3> QED BY <2>4, <3>1 DEF expects, leads, Agrees, Kind
  <2> QED BY <2>1, <2>2, <2>3, <2>4 DEF Told
<1>3. r \o x = Append(r, k)
  BY <1>2, Appended
<1>4. InOrder(b, Append(r, k)) /\ headed(b, Append(r, k)) = leads(k)
  BY <1>2, Comes
<1> QED BY <1>2, <1>3, <1>4 DEF Known

\* The server reads a request, and what it answers is what the client waits for.
LEMMA Attended ==
  ASSUME NEW b, NEW s \in Seq(Request), s # <<>>, NEW t, NEW z, NEW x,
         Known(b, <<>>, s, t), Answered(s[1], z, x)
  PROVE  InOrder(b, x) /\ Known(b, x, Tail(s), z)
<1> DEFINE q == Tail(s)
           n == Len(s)
           m == s[1]
<1>1. /\ q \in Seq(Request) /\ n \in Nat /\ n >= 1 /\ Len(q) = n - 1
      /\ \A i \in 1 .. n - 1 : q[i] = s[i + 1]
      /\ q = <<>> <=> n = 1
      /\ \A i \in 1 .. n : s[i] \in Request
  BY Tailed
<1>2. /\ b = wrote(s[n]) /\ t = needs(m)
      /\ \/ n = 1
         \/ n = 2 /\ m.type = "MSG_ENDGAME" /\ Asks(s[2])
  BY DEF Known
<1> SUFFICES InOrder(b, x) /\ Known(b, x, q, z)
  OBVIOUS
<1> HIDE DEF q, n, m
<1>3. m \in Request
  BY <1>1 DEF m
<1>4. CASE n = 1
  <2>1. q = <<>> /\ b = wrote(m)
    BY <1>1, <1>2, <1>4 DEF m
  <2>2. ASSUME NEW k, x = <<k>>, expects(b, k), Agrees(leads(k), z)
        PROVE  InOrder(b, x) /\ Known(b, x, q, z)
    <3>1. x # <<>> /\ Len(x) = 1 /\ x[1] = k
      BY <2>2
    <3>2. before(b, x, 1) = b
      BY DEF before
    <3> QED BY <2>1, <2>2, <3>1, <3>2 DEF InOrder, Known, headed
  <2>3. ASSUME x = <<>>, Agrees(b, z)
        PROVE  InOrder(b, x) /\ Known(b, x, q, z)
    <3>1. headed(b, x) = b /\ InOrder(b, x)
      BY <2>3, NothingThere
    <3> QED BY <2>1, <2>3, <3>1 DEF Known
  <2>4. CASE m.type = "REQ_WHO" /\ x = <<"ANS_WHO">> /\ z = "free"
    BY <1>3, <2>1, <2>2, <2>4, Requests DEF expects, leads, Agrees
  <2>5. CASE /\ m.type = "REQ_PLAY" /\ z = "free"
             /\ x \in {<<"PLAY_INVALID_OPPONENT">>, <<"PLAY_OPPONENT_IN_GAME">>}
    <3>1. PICK k \in {"PLAY_INVALID_OPPONENT", "PLAY_OPPONENT_IN_GAME"} : x = <<k>>
      BY <2>5
    <3>2. b = "connect" /\ k \in Server!PlayResponse
      BY <1>3, <2>1, <2>5, Requests DEF Server!PlayResponse
    <3>3. expects(b, k) /\ Agrees(leads(k), z)
      BY <2>5, <3>2 DEF expects, leads, Agrees
    <3> QED BY <2>2, <3>1, <3>3
  <2>6. CASE m.type = "REQ_PLAY" /\ x = <<>> /\ z = "asker"
    BY <1>3, <2>1, <2>3, <2>6, Requests DEF Agrees
  <2>7. CASE m.type = "REQ_PLAY_ANS" /\ x = <<"PLAY_ACCEPT">> /\ z = "game"
    <3>1. b = "answer" /\ "PLAY_ACCEPT" \in Server!PlayResponse
      BY <1>3, <2>1, <2>7, Requests DEF Server!PlayResponse
    <3>2. expects(b, "PLAY_ACCEPT") /\ Agrees(leads("PLAY_ACCEPT"), z)
      BY <2>7, <3>1 DEF expects, leads, Agrees
    <3> QED BY <2>2, <2>7, <3>2
  <2>8. CASE m.type = "REQ_PLAY_ANS" /\ x = <<"PLAY_DECLINE">> /\ z = "free"
    <3>1. b = "answer" /\ "PLAY_DECLINE" \in Server!PlayResponse
      BY <1>3, <2>1, <2>8, Requests DEF Server!PlayResponse
    <3>2. expects(b, "PLAY_DECLINE") /\ Agrees(leads("PLAY_DECLINE"), z)
      BY <2>8, <3>1 DEF expects, leads, Agrees
    <3> QED BY <2>2, <2>8, <3>2
  <2>9. CASE m.type = "MSG_ENDGAME" /\ x = <<>> /\ z = "free"
    BY <1>3, <2>1, <2>3, <2>9, Requests DEF Agrees
  <2> QED BY <2>4, <2>5, <2>6, <2>7, <2>8, <2>9 DEF Answered, m
<1>5. CASE n = 2 /\ m.type = "MSG_ENDGAME" /\ Asks(s[2])
  <2>1. x = <<>> /\ z = "free"
    BY <1>5 DEF Answered, m
  <2>2. q # <<>> /\ Len(q) = 1 /\ q[1] = s[2] /\ s[2] \in Request
    BY <1>1, <1>5
  <2>3. needs(s[2]) = "free"
    BY <1>5, <2>2, Requests DEF Asks
  <2>4. b = wrote(q[1])
    BY <1>2, <1>5, <2>2
  <2> QED BY <2>1, <2>2, <2>3, <2>4, NothingThere DEF Known
<1> QED BY <1>2, <1>4, <1>5

\* The client writes a request, when it has read everything.
LEMMA Writes ==
  ASSUME NEW b, NEW s \in Seq(Request), NEW t, NEW m \in Request, Known(b, <<>>, s, t),
         \/ b = "lobby" /\ Asks(m)
         \/ b = "game" /\ m.type = "MSG_ENDGAME"
         \/ b = "asking" /\ m.type = "REQ_PLAY_ANS"
  PROVE  Known(wrote(m), <<>>, Append(s, m), t)
<1> DEFINE q == Append(s, m)
           n == Len(s)
<1>1. /\ q # <<>> /\ n \in Nat /\ Len(q) = n + 1 /\ q[n + 1] = m
      /\ \A i \in 1 .. n : q[i] = s[i] /\ s[i] \in Request
      /\ s = <<>> <=> n = 0
  BY Appended
<1>2. /\ n = 0 => Agrees(b, t)
      /\ n # 0 => /\ b = wrote(s[n]) /\ t = needs(s[1])
                  /\ n = 1 \/ (n = 2 /\ Asks(s[2]))
  BY <1>1, NothingThere DEF Known
<1> HIDE DEF q, n
<1>3. CASE n = 0
  <2>1. Len(q) = 1 /\ q[1] = m
    BY <1>1, <1>3
  <2>2. t = needs(m)
    BY <1>2, <1>3, Requests DEF Agrees, Asks
  <2> QED BY <1>1, <2>1, <2>2 DEF Known, q
<1>4. CASE n # 0
  <2>1. n \in 1 .. n /\ 1 \in 1 .. n
    BY <1>1, <1>4
  <2>2. s[n] \in Request /\ s[1] \in Request
    BY <1>1, <2>1
  <2>3. s[n].type = "MSG_ENDGAME" /\ b = "lobby" /\ Asks(m)
    BY <1>2, <1>4, <2>2, Requests
  <2>4. n = 1
    BY <1>2, <1>4, <2>3 DEF Asks
  <2>5. Len(q) = 2 /\ q[1] = s[1] /\ q[2] = m
    BY <1>1, <2>4
  <2> QED BY <1>1, <1>2, <1>4, <2>3, <2>4, <2>5 DEF Known, q
<1> QED BY <1>3, <1>4

\* The client reads.
LEMMA Reads ==
  ASSUME NEW b, NEW r \in Seq(Kind), r # <<>>, NEW t, InOrder(b, r), Known(b, r, <<>>, t)
  PROVE  Known(leads(Head(r)), Tail(r), <<>>, t)
  BY Goes DEF Known

---------------------------------------------------------------------------
(* What a handler sends to me.                                              *)

\* h[k] has the kinds of the messages to me among the first k of s.
Counts(h, s, n) ==
  h = [k \in 0 .. n |-> IF k = 0 THEN <<>>
         ELSE IF for_me(s[k]) THEN Append(h[k - 1], kind(s[k])) ELSE h[k - 1]]

\* The kinds of the messages of s to me, counted from the start.
LEMMA Mailed ==
  ASSUME NEW s, NEW n \in Nat, n = Len(s),
         NEW h, Counts(h, s, n)
  PROVE  \E f : /\ mail(s) = f[n] /\ f[0] = <<>>
                /\ \A k \in 1 .. n :
                     f[k] = IF for_me(s[k]) THEN Append(f[k - 1], kind(s[k])) ELSE f[k - 1]
<1> DEFINE G(g) == [k \in 0 .. Len(s) |-> IF k = 0 THEN <<>>
                      ELSE IF for_me(s[k]) THEN Append(g[k - 1], kind(s[k])) ELSE g[k - 1]]
           f == CHOOSE g : g = G(g)
<1>1. f = G(f)
  BY DEF Counts
<1>2. mail(s) = f[n]
  BY DEF mail
<1> HIDE DEF f
<1>3. f[0] = <<>>
  BY <1>1
<1>4. ASSUME NEW k \in 1 .. n
      PROVE  f[k] = IF for_me(s[k]) THEN Append(f[k - 1], kind(s[k])) ELSE f[k - 1]
  <2>1. k \in 0 .. Len(s) /\ k # 0
    OBVIOUS
  <2> QED BY <1>1, <2>1
<1> QED BY <1>2, <1>3, <1>4

\* Nothing is sent.
LEMMA NoMail ==
  ASSUME NEW s, s = <<>>
  PROVE  mail(s) = <<>>
<1>1. PICK n : n = Len(s)
  OBVIOUS
<1>2. n = 0
  BY <1>1
<1>3. PICK h : h = [k \in 0 .. 0 |-> <<>>]
  OBVIOUS
<1>4. ASSUME NEW k \in 0 .. n
      PROVE  (IF k = 0 THEN <<>>
              ELSE IF for_me(s[k]) THEN Append(h[k - 1], kind(s[k])) ELSE h[k - 1]) = <<>>
  BY <1>2
<1>5. Counts(h, s, n)
  BY ONLY <1>2, <1>3, <1>4 DEF Counts
<1>6. n \in Nat
  BY <1>2
<1>7. PICK f : mail(s) = f[n] /\ f[0] = <<>>
  BY ONLY <1>1, <1>5, <1>6, Mailed
<1> QED BY <1>2, <1>7

\* One message is sent.
LEMMA OneMail ==
  ASSUME NEW x, NEW s, s = <<x>>
  PROVE  mail(s) = IF for_me(x) THEN <<kind(x)>> ELSE <<>>
<1>1. PICK n : n = Len(s)
  OBVIOUS
<1>2. n = 1 /\ s[1] = x
  BY <1>1
<1>3. PICK y : y = IF for_me(x) THEN Append(<<>>, kind(x)) ELSE <<>>
  OBVIOUS
<1>4. PICK h : h = [k \in 0 .. 1 |-> IF k = 0 THEN <<>> ELSE y]
  OBVIOUS
<1>5. h[0] = <<>> /\ h[1] = y
  BY <1>4
<1>6. ASSUME NEW k \in 0 .. 1
      PROVE  (IF k = 0 THEN <<>> ELSE y) =
             (IF k = 0 THEN <<>>
              ELSE IF for_me(s[k]) THEN Append(h[k - 1], kind(s[k])) ELSE h[k - 1])
  <2>1. CASE k = 0
    BY <2>1
  <2>2. CASE k = 1
    <3>1. h[k - 1] = <<>> /\ s[k] = x
      BY <1>2, <1>5, <2>2
    <3> QED BY <1>3, <2>2, <3>1
  <2> QED BY <2>1, <2>2
<1>7. Counts(h, s, n)
  BY ONLY <1>2, <1>4, <1>6 DEF Counts
<1>8. n \in Nat
  BY <1>2
<1>9. PICK f : /\ mail(s) = f[n] /\ f[0] = <<>>
               /\ \A k \in 1 .. n :
                    f[k] = IF for_me(s[k]) THEN Append(f[k - 1], kind(s[k])) ELSE f[k - 1]
  BY ONLY <1>1, <1>7, <1>8, Mailed
<1>10. 1 \in 1 .. n /\ 1 - 1 = 0
  BY <1>2
<1>11. f[1] = IF for_me(x) THEN Append(<<>>, kind(x)) ELSE <<>>
  BY <1>2, <1>9, <1>10
<1> QED BY <1>2, <1>9, <1>11

\* Two messages are sent, and one of them at most to me.
LEMMA TwoMails ==
  ASSUME NEW x, NEW y, NEW s, s = <<x, y>>, ~(for_me(x) /\ for_me(y))
  PROVE  mail(s) = IF for_me(x) THEN <<kind(x)>> ELSE IF for_me(y) THEN <<kind(y)>> ELSE <<>>
<1>1. PICK n : n = Len(s)
  OBVIOUS
<1>2. n = 2 /\ s[1] = x /\ s[2] = y
  BY <1>1
<1>3. PICK v : v = IF for_me(x) THEN Append(<<>>, kind(x)) ELSE <<>>
  OBVIOUS
<1>4. PICK w : w = IF for_me(y) THEN Append(v, kind(y)) ELSE v
  OBVIOUS
<1>5. PICK h : h = [k \in 0 .. 2 |-> IF k = 0 THEN <<>> ELSE IF k = 1 THEN v ELSE w]
  OBVIOUS
<1>6. h[0] = <<>> /\ h[1] = v /\ h[2] = w
  BY <1>5
<1>7. ASSUME NEW k \in 0 .. 2
      PROVE  (IF k = 0 THEN <<>> ELSE IF k = 1 THEN v ELSE w) =
             (IF k = 0 THEN <<>>
              ELSE IF for_me(s[k]) THEN Append(h[k - 1], kind(s[k])) ELSE h[k - 1])
  <2>1. CASE k = 0
    BY <2>1
  <2>2. CASE k = 1
    <3>1. h[k - 1] = <<>> /\ s[k] = x
      BY <1>2, <1>6, <2>2
    <3> QED BY <1>3, <2>2, <3>1
  <2>3. CASE k = 2
    <3>1. h[k - 1] = v /\ s[k] = y
      BY <1>2, <1>6, <2>3
    <3> QED BY <1>4, <2>3, <3>1
  <2> QED BY <2>1, <2>2, <2>3
<1>8. Counts(h, s, n)
  BY ONLY <1>2, <1>5, <1>7 DEF Counts
<1>9. n \in Nat
  BY <1>2
<1>10. PICK f : /\ mail(s) = f[n] /\ f[0] = <<>>
                /\ \A k \in 1 .. n :
                     f[k] = IF for_me(s[k]) THEN Append(f[k - 1], kind(s[k])) ELSE f[k - 1]
  BY ONLY <1>1, <1>8, <1>9, Mailed
<1>11. 1 \in 1 .. n /\ 2 \in 1 .. n /\ 1 - 1 = 0 /\ 2 - 1 = 1
  BY <1>2
<1>12. f[1] = v
  BY <1>2, <1>3, <1>10, <1>11
<1>13. f[2] = w
  <2>1. PICK k : k = 2
    OBVIOUS
  <2>2. k \in 1 .. n /\ k - 1 = 1 /\ s[k] = y
    BY <1>2, <2>1
  <2>3. f[k - 1] = v
    BY <1>12, <2>2
  <2>4. f[k] = IF for_me(s[k]) THEN Append(f[k - 1], kind(s[k])) ELSE f[k - 1]
    BY ONLY <1>10, <2>2
  <2>5. f[k] = w
    BY ONLY <1>4, <2>2, <2>3, <2>4
  <2> QED BY <2>1, <2>5
<1>14. w = IF for_me(x) THEN <<kind(x)>> ELSE IF for_me(y) THEN <<kind(y)>> ELSE <<>>
  <2>1. Append(<<>>, kind(x)) = <<kind(x)>> /\ Append(<<>>, kind(y)) = <<kind(y)>>
    OBVIOUS
  <2>2. CASE for_me(x)
    <3>1. v = <<kind(x)>> /\ ~for_me(y)
      BY <1>3, <2>1, <2>2
    <3> QED BY ONLY <1>4, <2>2, <3>1
  <2>3. CASE ~for_me(x)
    <3>1. v = <<>>
      BY ONLY <1>3, <2>3
    <3> QED BY ONLY <1>4, <2>1, <2>3, <3>1
  <2> QED BY <2>2, <2>3
<1> QED BY <1>2, <1>10, <1>13, <1>14

---------------------------------------------------------------------------
(* The server, as ClientLoop and as BattleServerProofs see it.              *)

\* The assumptions of BattleServer.
LEMMA Assumed ==
  /\ Server!IsFiniteSet(Client)
  /\ Null \notin Client \cup Name \cup Match \cup Server!MatchRecord
  BY ClientAssumption, NullAssumption DEF Server!IsFiniteSet, IsFiniteSet, Server!MatchRecord

\* What ClientLoop names of BattleServer is what BattleServerProofs names.
LEMMA SameHandlers ==
  ASSUME NEW c
  PROVE  /\ \A m : Srv!receive(c, m) <=> Server!receive(c, m)
         /\ Srv!elapsed(c) <=> Server!elapsed(c)
         /\ Srv!Handle(c) <=> Server!Handle(c)
<1>1. ASSUME NEW u PROVE Srv!do_login(c, u) <=> Server!do_login(c, u)
  BY DEF Srv!do_login, Server!do_login, Srv!valid_username, Server!valid_username,
         Srv!unique_username, Server!unique_username, Srv!get_clients_by_username,
         Server!get_clients_by_username, Srv!AnsLogin, Server!AnsLogin,
         Srv!login_client, Server!login_client
<1>2. Srv!send_client_list(c) <=> Server!send_client_list(c)
  BY DEF Srv!send_client_list, Server!send_client_list, Srv!WhoRow, Server!WhoRow,
         Srv!Opponent, Server!Opponent
<1>3. ASSUME NEW u PROVE Srv!process_play_request(c, u) <=> Server!process_play_request(c, u)
  BY DEF Srv!process_play_request, Server!process_play_request,
         Srv!get_clients_by_username, Server!get_clients_by_username, Srv!AnsPlay,
         Server!AnsPlay, Srv!busy, Server!busy, Srv!add_match, Server!add_match,
         Srv!ReqPlay, Server!ReqPlay
<1>4. Srv!answer_ignored(c) <=> Server!answer_ignored(c)
  BY DEF Srv!answer_ignored, Server!answer_ignored
<1>5. Srv!PlayersAlive(c) <=> Server!PlayersAlive(c)
  BY DEF Srv!PlayersAlive, Server!PlayersAlive, Srv!Players, Server!Players
<1>6. ASSUME NEW x PROVE Srv!delete_match(x) <=> Server!delete_match(x)
  BY DEF Srv!delete_match, Server!delete_match
<1>7. ASSUME NEW x PROVE Srv!process_play_req_answer(c, x) <=> Server!process_play_req_answer(c, x)
  BY <1>4, <1>5, <1>6
     DEF Srv!process_play_req_answer, Server!process_play_req_answer, Srv!AnsPlay, Server!AnsPlay
<1>8. ASSUME NEW x PROVE Srv!EndMessage(c, x) = Server!EndMessage(c, x)
  BY DEF Srv!EndMessage, Server!EndMessage, Srv!Awaiting, Server!Awaiting, Srv!AnsPlay,
         Server!AnsPlay, Srv!Endgame, Server!Endgame, Srv!Opponent, Server!Opponent
<1>9. ASSUME NEW x PROVE Srv!terminate_match(c, x) <=> Server!terminate_match(c, x)
  BY <1>5, <1>6, <1>8 DEF Srv!terminate_match, Server!terminate_match
<1>10. ASSUME NEW x PROVE Srv!process_endgame(c, x) <=> Server!process_endgame(c, x)
  BY <1>9 DEF Srv!process_endgame, Server!process_endgame
<1>11. Srv!close_client(c) <=> Server!close_client(c)
  BY <1>9 DEF Srv!close_client, Server!close_client, Srv!remove_client, Server!remove_client,
              Srv!logged_in, Server!logged_in
<1>12. Srv!stale_player_access(c) <=> Server!stale_player_access(c)
  BY <1>5 DEF Srv!stale_player_access, Server!stale_player_access
<1>13. ASSUME NEW m PROVE Srv!receive(c, m) <=> Server!receive(c, m)
  BY <1>1, <1>2, <1>3, <1>4, <1>7, <1>10, <1>11, <1>12 DEF Srv!receive, Server!receive
<1>14. Srv!Awaiting(c) <=> Server!Awaiting(c)
  BY DEF Srv!Awaiting, Server!Awaiting
<1>15. Srv!remove_elapsed_match(c) <=> Server!remove_elapsed_match(c)
  BY <1>5, <1>6, <1>14 DEF Srv!remove_elapsed_match, Server!remove_elapsed_match,
                           Srv!AnsPlay, Server!AnsPlay
<1>16. Srv!elapsed(c) <=> Server!elapsed(c)
  BY <1>12, <1>14, <1>15 DEF Srv!elapsed, Server!elapsed
<1>17. Srv!dispatch_message(c) <=> Server!dispatch_message(c)
  BY <1>1, <1>2, <1>3, <1>7, <1>10
     DEF Srv!dispatch_message, Server!dispatch_message, Srv!logged_in, Server!logged_in,
         Srv!send_ans_badreq, Server!send_ans_badreq
<1>18. Srv!Handle(c) <=> Server!Handle(c)
  BY <1>11, <1>12, <1>15, <1>17
     DEF Srv!Handle, Server!Handle, Srv!accept_connection, Server!accept_connection
<1> QED BY <1>13, <1>16, <1>18

\* The rest.
LEMMA SameRest ==
  /\ Srv!shutdown <=> Server!shutdown
  /\ Srv!TypeOK <=> Server!TypeOK
  /\ TypeOK <=> Server!TypeOK /\ Types
  /\ \A c : Srv!Awaiting(c) <=> Server!Awaiting(c)
  /\ Srv!PlayResponse = Server!PlayResponse
<1>1. Srv!shutdown <=> Server!shutdown
  BY DEF Srv!shutdown, Server!shutdown
<1>2. Srv!Message = Server!Message
  BY DEF Srv!Message, Server!Message, Srv!LoginResponse, Server!LoginResponse,
         Srv!PlayResponse, Server!PlayResponse, Srv!WhoPlayer, Server!WhoPlayer
<1>3. Srv!TypeOK <=> Server!TypeOK
  BY <1>2 DEF Srv!TypeOK, Server!TypeOK, Srv!MatchRecord, Server!MatchRecord
<1>4. \A c : Srv!Awaiting(c) <=> Server!Awaiting(c)
  BY DEF Srv!Awaiting, Server!Awaiting
<1>5. Srv!PlayResponse = Server!PlayResponse
  BY DEF Srv!PlayResponse, Server!PlayResponse
<1>6. TypeOK <=> Server!TypeOK /\ Types
  BY <1>3 DEF TypeOK, Types
<1> QED BY <1>1, <1>3, <1>4, <1>5, <1>6

---------------------------------------------------------------------------
(* The matches of me.                                                       *)

\* What is behind the pointer of a connected client.
LEMMA Behind ==
  ASSUME Server!Inv, NEW c \in connected, match[c] # Null
  PROVE  /\ c \in Client /\ match[c] \in Match
         /\ heap[match[c]] \in Server!MatchRecord /\ heap[match[c]] # Null
         /\ heap[match[c]].player1 \in Client /\ heap[match[c]].player2 \in Client
         /\ heap[match[c]].awaiting_reply \in BOOLEAN
         /\ c \in Server!Players(match[c]) /\ Server!Opponent(c) # c
         /\ heap[match[c]].player1 # heap[match[c]].player2
         /\ Server!Players(match[c]) = {c, Server!Opponent(c)}
<1>1. Server!TypeOK /\ Server!OwnMatch
  BY DEF Server!Inv
<1>2. /\ match[c] \in Match /\ heap[match[c]] \in Server!MatchRecord
      /\ heap[match[c]].player1 \in Client /\ heap[match[c]].player2 \in Client
      /\ c = heap[match[c]].player1 \/ c = heap[match[c]].player2
  BY <1>1, Assumed, Server!MatchOf
<1>3. heap[match[c]] # Null /\ heap[match[c]].player1 # heap[match[c]].player2
  BY <1>1 DEF Server!OwnMatch
<1>4. heap[match[c]].awaiting_reply \in BOOLEAN
  BY <1>2 DEF Server!MatchRecord
<1>5. c \in Client
  BY <1>1 DEF Server!TypeOK
<1> QED BY <1>2, <1>3, <1>4, <1>5 DEF Server!Players, Server!Opponent

\* No match is touched.
LEMMA Untouched ==
  ASSUME OnlyOwn, heap' = heap, match'[me] = match[me]
  PROVE  OnlyOwn' /\ situation' = situation
  BY DEF OnlyOwn, situation, Server!Players

\* A new match.
LEMMA Added ==
  ASSUME Server!Inv, OnlyOwn, me \in connected, NEW p \in connected, NEW q \in connected,
         p # q, Server!add_match(p, q), me \in {p, q} => match[me] = Null
  PROVE  /\ OnlyOwn'
         /\ situation' = IF me = p THEN "asker" ELSE IF me = q THEN "invited" ELSE situation
<1> DEFINE new == [player1 |-> p, player2 |-> q, awaiting_reply |-> TRUE]
<1>1. PICK w \in Match : /\ heap[w] = Null /\ heap' = [heap EXCEPT ![w] = new]
                         /\ match' = [match EXCEPT ![p] = w, ![q] = w]
  BY DEF Server!add_match
<1>2. /\ match \in [Client -> Match \cup {Null}]
      /\ heap \in [Match -> Server!MatchRecord \cup {Null}]
      /\ p \in Client /\ q \in Client /\ me \in Client
  BY DEF Server!Inv, Server!TypeOK
<1>3. /\ heap'[w] = new /\ \A x \in Match \ {w} : heap'[x] = heap[x]
      /\ match'[p] = w /\ match'[q] = w
      /\ \A d \in Client \ {p, q} : match'[d] = match[d]
  BY <1>1, <1>2
<1>4. new.player1 = p /\ new.player2 = q /\ new.awaiting_reply = TRUE /\ w # Null
  BY NullAssumption
<1> HIDE DEF new
<1>5. CASE me \in {p, q}
  <2>1. \A m \in Match : heap[m] # Null => me \notin Server!Players(m)
    BY <1>5, NullAssumption DEF OnlyOwn
  <2>2. match'[me] = w
    BY <1>3, <1>5
  <2>3. OnlyOwn'
    BY <1>3, <1>4, <2>1, <2>2 DEF OnlyOwn, Server!Players
  <2>4. situation' = IF me = p THEN "asker" ELSE "invited"
    BY <1>3, <1>4, <2>2 DEF situation
  <2> QED BY <1>5, <2>3, <2>4
<1>6. CASE me \notin {p, q}
  <2>1. match'[me] = match[me]
    BY <1>2, <1>3, <1>6
  <2>2. match[me] # Null => match[me] \in Match \ {w}
    BY <1>1, Behind
  <2>3. situation' = situation
    BY <1>3, <2>1, <2>2 DEF situation
  <2>4. OnlyOwn'
    BY <1>3, <1>4, <1>6, <2>1 DEF OnlyOwn, Server!Players
  <2> QED BY <1>6, <2>3, <2>4
<1> QED BY <1>5, <1>6

\* A request is accepted.
LEMMA Confirmed ==
  ASSUME Server!Inv, OnlyOwn, me \in connected, NEW c \in connected, match[c] # Null,
         heap' = [heap EXCEPT ![match[c]].awaiting_reply = FALSE], match' = match
  PROVE  /\ OnlyOwn'
         /\ situation' = IF me \in Server!Players(match[c]) THEN "game" ELSE situation
<1> DEFINE w == match[c]
<1>1. /\ w \in Match /\ heap[w] \in Server!MatchRecord /\ heap[w] # Null
      /\ heap \in [Match -> Server!MatchRecord \cup {Null}]
  BY Behind DEF Server!Inv, Server!TypeOK
<1>2. /\ heap'[w].player1 = heap[w].player1 /\ heap'[w].player2 = heap[w].player2
      /\ heap'[w].awaiting_reply = FALSE
      /\ \A x \in Match \ {w} : heap'[x] = heap[x]
  BY <1>1 DEF Server!MatchRecord
<1>3. w = match[c]
  OBVIOUS
<1> HIDE DEF w
<1>4. OnlyOwn'
  BY <1>1, <1>2 DEF OnlyOwn, Server!Players
<1>5. CASE me \in Server!Players(w)
  <2>1. match[me] = w /\ w # Null
    BY <1>1, <1>3, <1>5 DEF OnlyOwn
  <2> QED BY <1>2, <1>3, <1>4, <1>5, <2>1 DEF situation
<1>6. CASE me \notin Server!Players(w)
  <2>1. match[me] # Null => match[me] \in Match \ {w}
    BY <1>6, Behind
  <2>2. match'[me] = match[me] /\ (match[me] # Null => heap'[match[me]] = heap[match[me]])
    BY <1>2, <2>1
  <2>3. situation' = situation
    BY ONLY <2>2 DEF situation
  <2> QED BY <1>3, <1>4, <1>6, <2>3
<1> QED BY <1>5, <1>6

\* A match ends.
LEMMA Struck ==
  ASSUME Server!Inv, OnlyOwn, me \in connected, NEW c \in connected, match[c] # Null,
         Server!delete_match(match[c])
  PROVE  /\ OnlyOwn'
         /\ situation' = IF me \in Server!Players(match[c]) THEN "free" ELSE situation
<1> DEFINE w == match[c]
<1>1. /\ w \in Match /\ heap[w] # Null
      /\ heap[w].player1 \in Client /\ heap[w].player2 \in Client
      /\ heap \in [Match -> Server!MatchRecord \cup {Null}]
      /\ match \in [Client -> Match \cup {Null}] /\ me \in Client
  BY Behind DEF Server!Inv, Server!TypeOK
<1>2. /\ match' = [match EXCEPT ![heap[w].player1] = Null, ![heap[w].player2] = Null]
      /\ heap' = [heap EXCEPT ![w] = Null]
  BY DEF Server!delete_match
<1>3. /\ heap'[w] = Null /\ \A x \in Match \ {w} : heap'[x] = heap[x]
      /\ match'[me] = IF me \in Server!Players(w) THEN Null ELSE match[me]
  BY <1>1, <1>2 DEF Server!Players
<1>4. w = match[c]
  OBVIOUS
<1> HIDE DEF w
<1>5. CASE me \in Server!Players(w)
  <2>1. match[me] = w
    BY <1>1, <1>5 DEF OnlyOwn
  <2>2. \A m \in Match \ {w} : heap[m] # Null => me \notin Server!Players(m)
    BY <2>1 DEF OnlyOwn
  <2>3. OnlyOwn'
    BY <1>3, <2>2 DEF OnlyOwn, Server!Players
  <2> QED BY <1>3, <1>4, <1>5, <2>3 DEF situation
<1>6. CASE me \notin Server!Players(w)
  <2>1. match[me] # Null => match[me] \in Match \ {w}
    BY <1>6, Behind
  <2>2. situation' = situation
    BY <1>3, <1>6, <2>1 DEF situation
  <2>3. OnlyOwn'
    BY <1>3, <1>6 DEF OnlyOwn, Server!Players
  <2> QED BY <1>4, <1>6, <2>2, <2>3
<1> QED BY <1>5, <1>6

\* The situation of a player.
LEMMA Situations ==
  ASSUME Server!Inv, OnlyOwn, me \in connected, NEW c \in connected, match[c] # Null,
         me \in Server!Players(match[c])
  PROVE  /\ match[me] = match[c]
         /\ situation = IF ~heap[match[c]].awaiting_reply THEN "game"
                        ELSE IF me = heap[match[c]].player1 THEN "asker" ELSE "invited"
<1>1. match[c] \in Match /\ heap[match[c]] # Null
  BY Behind
<1>2. match[me] = match[c]
  BY <1>1 DEF OnlyOwn
<1> QED BY <1>2 DEF situation


---------------------------------------------------------------------------
(* What the server's steps send to me, and what they make of its situation. *)

Posted == mail(sent') = <<>> \/ \E k \in Kind : mail(sent') = <<k>>

Informed == OnlyOwn => OnlyOwn' /\ Told(situation, situation', mail(sent'))

Replied(m) ==
  OnlyOwn /\ situation = needs(m) => OnlyOwn' /\ Answered(m, situation', mail(sent'))

\* The kinds of the server's messages, and whom they are for.
LEMMA Letters ==
  /\ \A p, r, o : /\ kind(Server!AnsPlay(p, r, o)) = r
                  /\ for_me(Server!AnsPlay(p, r, o)) <=> p = me
                  /\ Server!AnsPlay(p, r, o).to = p
                  /\ Server!AnsPlay(p, r, o).type = "ANS_PLAY"
  /\ \A p, u : /\ kind(Server!ReqPlay(p, u)) = "REQ_PLAY"
               /\ for_me(Server!ReqPlay(p, u)) <=> p = me
  /\ \A p, x : /\ kind(Server!Endgame(p, x)) = "MSG_ENDGAME"
               /\ for_me(Server!Endgame(p, x)) <=> p = me
  BY DEF kind, for_me, Server!AnsPlay, Server!ReqPlay, Server!Endgame

\* Nothing to me.
LEMMA Elsewhere ==
  ASSUME NEW x, sent' = <<x>>, ~for_me(x)
  PROVE  mail(sent') = <<>>
  BY OneMail

\* Both players of a match are sent the same answer.
LEMMA BothAnswered ==
  ASSUME Server!Inv, NEW c \in connected, match[c] # Null, NEW r \in Server!PlayResponse,
         NEW p, NEW q, {p, q} = Server!Players(match[c]), p # q, NEW o, NEW w,
         sent' = <<Server!AnsPlay(p, r, o), Server!AnsPlay(q, r, w)>>
  PROVE  /\ Posted
         /\ mail(sent') = IF me \in Server!Players(match[c]) THEN <<r>> ELSE <<>>
<1> DEFINE x == Server!AnsPlay(p, r, o)
           y == Server!AnsPlay(q, r, w)
<1>1. /\ kind(x) = r /\ kind(y) = r /\ (for_me(x) <=> p = me) /\ (for_me(y) <=> q = me)
  BY Letters
<1>2. sent' = <<x, y>>
  OBVIOUS
<1> HIDE DEF x, y
<1>3. mail(sent') = IF for_me(x) THEN <<kind(x)>> ELSE IF for_me(y) THEN <<kind(y)>> ELSE <<>>
  BY <1>1, <1>2, TwoMails
<1>4. r \in Kind
  BY SameRest DEF Kind
<1>5. me \in Server!Players(match[c]) <=> (me = p \/ me = q)
  OBVIOUS
<1>6. mail(sent') = IF me \in Server!Players(match[c]) THEN <<r>> ELSE <<>>
  BY ONLY <1>1, <1>3, <1>5
<1> QED BY <1>4, <1>6 DEF Posted

\* Another asks for a game.
LEMMA AskInforms ==
  ASSUME Server!Inv, me \in connected, NEW c \in connected, c # me, NEW u,
         Server!process_play_request(c, u)
  PROVE  Posted /\ Informed
<1>1. CASE \E r : sent' = <<Server!AnsPlay(c, r, c)>> /\ UNCHANGED <<match, heap>>
  <2>1. mail(sent') = <<>>
    BY <1>1, Letters, Elsewhere
  <2> QED BY <1>1, <2>1, Untouched DEF Posted, Informed, Told
<1>2. CASE \E q \in client_list \ {c} :
             /\ match[q] = Null /\ Server!add_match(c, q)
             /\ sent' = <<Server!ReqPlay(q, username[c])>>
  <2>1. PICK q \in client_list \ {c} : /\ match[q] = Null /\ Server!add_match(c, q)
                                       /\ sent' = <<Server!ReqPlay(q, username[c])>>
    BY <1>2
  <2>2. q \in connected /\ c # q
    BY DEF Server!Inv, Server!LoginTable
  <2>3. OnlyOwn => /\ OnlyOwn'
                   /\ situation' = IF me = q THEN "invited" ELSE situation
    BY <2>1, <2>2, Added
  <2>4. mail(sent') = IF me = q THEN <<"REQ_PLAY">> ELSE <<>>
    BY <2>1, Letters, OneMail
  <2>5. me = q => situation = "free"
    BY <2>1 DEF situation
  <2>6. "REQ_PLAY" \in Kind
    BY DEF Kind
  <2> QED BY <2>3, <2>4, <2>5, <2>6 DEF Posted, Informed, Told
<1> QED
  BY <1>1, <1>2 DEF Server!process_play_request, Server!get_clients_by_username, Server!busy

\* Another answers, and if this reaches me it answers an open request.
LEMMA AnswerInforms ==
  ASSUME Server!Inv, me \in connected, NEW c \in connected, c # me, NEW accept \in BOOLEAN,
         Server!process_play_req_answer(c, accept)
  PROVE  /\ Posted
         /\ ((\E k \in DOMAIN sent' : sent'[k].to = me /\ sent'[k].type = "ANS_PLAY")
                => Server!Awaiting(c)) => Informed
<1> DEFINE w == match[c]
           p == heap[w].player1
           q == heap[w].player2
           r == IF accept THEN "PLAY_ACCEPT" ELSE "PLAY_DECLINE"
<1>1. CASE Server!answer_ignored(c)
  <2>1. sent' = <<>> /\ UNCHANGED <<match, heap>>
    BY <1>1 DEF Server!process_play_req_answer
  <2> QED BY <2>1, NoMail, Untouched DEF Posted, Informed, Told
<1>2. CASE ~Server!answer_ignored(c)
  <2>1. /\ sent' = <<Server!AnsPlay(p, r, q), Server!AnsPlay(q, r, p)>>
        /\ IF accept THEN /\ heap' = [heap EXCEPT ![w].awaiting_reply = FALSE]
                          /\ match' = match
                     ELSE Server!delete_match(w)
    BY <1>2 DEF Server!process_play_req_answer
  <2>2. w # Null /\ c # p
    BY <1>2 DEF Server!answer_ignored
  <2>3. /\ p # q /\ {p, q} = Server!Players(w) /\ c \in Server!Players(w)
    BY <2>2, Behind DEF Server!Players
  <2>4. r \in Server!PlayResponse
    BY DEF Server!PlayResponse
  <2>5. w = match[c] /\ p = heap[w].player1
    OBVIOUS
  <2> HIDE DEF p, q, w
  <2>6. Posted /\ mail(sent') = IF me \in Server!Players(w) THEN <<r>> ELSE <<>>
    BY <2>1, <2>2, <2>3, <2>4, <2>5, BothAnswered
  <2>7. OnlyOwn => /\ OnlyOwn'
                   /\ situation' = IF me \in Server!Players(w)
                                   THEN IF accept THEN "game" ELSE "free" ELSE situation
    BY <2>1, <2>2, <2>5, Confirmed, Struck
  <2>8. ASSUME OnlyOwn, me \in Server!Players(w), Server!Awaiting(c)
        PROVE  situation = "asker"
    <3>1. me = p
      BY <2>2, <2>3, <2>8
    <3>2. heap[w].awaiting_reply
      BY <2>5, <2>8 DEF Server!Awaiting
    <3> QED BY <2>2, <2>5, <2>8, <3>1, <3>2, Situations
  <2>9. me \in Server!Players(w) =>
          \E k \in DOMAIN sent' : sent'[k].to = me /\ sent'[k].type = "ANS_PLAY"
    <3> SUFFICES ASSUME me \in Server!Players(w)
                 PROVE  \E k \in DOMAIN sent' : sent'[k].to = me /\ sent'[k].type = "ANS_PLAY"
      OBVIOUS
    <3>1. PICK x, y : /\ sent' = <<x, y>> /\ x.to = p /\ y.to = q
                      /\ x.type = "ANS_PLAY" /\ y.type = "ANS_PLAY"
      BY <2>1, Letters
    <3>2. /\ 1 \in DOMAIN sent' /\ 2 \in DOMAIN sent' /\ sent'[1] = x /\ sent'[2] = y
      BY <3>1
    <3> QED BY <2>3, <3>1, <3>2
  <2> HIDE DEF r
  <2>10. /\ accept => r = "PLAY_ACCEPT"
         /\ ~accept => r = "PLAY_DECLINE"
    BY DEF r
  <2> QED BY <2>6, <2>7, <2>8, <2>9, <2>10 DEF Informed, Told
<1> QED BY <1>1, <1>2

\* Another leaves its match.
LEMMA EndInforms ==
  ASSUME Server!Inv, me \in connected, NEW c \in connected, c # me, NEW x,
         Server!terminate_match(c, x)
  PROVE  Posted /\ Informed
<1> DEFINE w == match[c]
           e == Server!Opponent(c)
<1>1. CASE w = Null
  <2>1. sent' = <<>> /\ UNCHANGED <<match, heap>>
    BY <1>1 DEF Server!terminate_match
  <2> QED BY <2>1, NoMail, Untouched DEF Posted, Informed, Told
<1>2. CASE w # Null
  <2>1. sent' = <<Server!EndMessage(c, x)>> /\ Server!delete_match(w)
    BY <1>2 DEF Server!terminate_match
  <2>2. Server!Players(w) = {c, e} /\ heap[w].awaiting_reply \in BOOLEAN
    BY <1>2, Behind
  <2>3. OnlyOwn => /\ OnlyOwn'
                   /\ situation' = IF me = e THEN "free" ELSE situation
    BY <1>2, <2>1, <2>2, Struck
  <2>4. CASE Server!Awaiting(c)
    <3>1. PICK r \in {"PLAY_TIMEDOUT", "PLAY_DECLINE"} :
            Server!EndMessage(c, x) = Server!AnsPlay(e, r, c)
      BY <2>4 DEF Server!EndMessage
    <3>2. mail(sent') = IF me = e THEN <<r>> ELSE <<>>
      BY <2>1, <3>1, Letters, OneMail
    <3>3. r \in Kind
      BY SameRest DEF Kind, Server!PlayResponse
    <3>4. heap[w].awaiting_reply
      BY <2>4 DEF Server!Awaiting
    <3>5. OnlyOwn /\ me = e => situation \in {"asker", "invited"}
      BY <1>2, <2>2, <3>4, Situations
    <3> HIDE DEF e
    <3> QED BY <2>3, <3>2, <3>3, <3>5 DEF Posted, Informed, Told
  <2>5. CASE ~Server!Awaiting(c)
    <3>1. Server!EndMessage(c, x) = Server!Endgame(e, x)
      BY <2>5 DEF Server!EndMessage
    <3>2. mail(sent') = IF me = e THEN <<"MSG_ENDGAME">> ELSE <<>>
      BY <2>1, <3>1, Letters, OneMail
    <3>3. ~heap[w].awaiting_reply
      BY <1>2, <2>5 DEF Server!Awaiting
    <3>4. OnlyOwn /\ me = e => situation = "game"
      BY <1>2, <2>2, <3>3, Situations
    <3> HIDE DEF e
    <3> QED BY <2>3, <3>2, <3>4 DEF Posted, Informed, Told, Kind
  <2> QED BY <2>4, <2>5
<1> QED BY <1>1, <1>2

\* A request has elapsed.
LEMMA ElapsedInforms ==
  ASSUME Server!Inv, me \in connected, NEW c \in connected, Server!remove_elapsed_match(c)
  PROVE  Posted /\ Informed
<1> DEFINE w == match[c]
           p == heap[w].player1
           q == heap[w].player2
<1>1. /\ w # Null /\ heap[w].awaiting_reply
      /\ sent' = <<Server!AnsPlay(q, "PLAY_TIMEDOUT", p), Server!AnsPlay(p, "PLAY_TIMEDOUT", q)>>
      /\ Server!delete_match(w)
  BY DEF Server!remove_elapsed_match, Server!Awaiting
<1>2. p # q /\ {q, p} = Server!Players(w)
  BY <1>1, Behind DEF Server!Players
<1>3. "PLAY_TIMEDOUT" \in Server!PlayResponse
  BY DEF Server!PlayResponse
<1>4. w = match[c]
  OBVIOUS
<1> HIDE DEF w, p, q
<1>5. Posted /\ mail(sent') = IF me \in Server!Players(w) THEN <<"PLAY_TIMEDOUT">> ELSE <<>>
  BY <1>1, <1>2, <1>3, <1>4, BothAnswered
<1>6. OnlyOwn => /\ OnlyOwn'
                 /\ situation' = IF me \in Server!Players(w) THEN "free" ELSE situation
  BY <1>1, <1>4, Struck
<1>7. OnlyOwn /\ me \in Server!Players(w) => situation \in {"asker", "invited"}
  BY <1>1, <1>4, Situations
<1> QED BY <1>5, <1>6, <1>7 DEF Informed, Told

\* What only goes to the client it is about.
LEMMA Bystander ==
  ASSUME me \in connected, UNCHANGED <<match, heap>>, NEW x, sent' = <<x>>, ~for_me(x)
  PROVE  Posted /\ Informed
<1>1. mail(sent') = <<>>
  BY Elsewhere
<1> QED BY <1>1, Untouched DEF Posted, Informed, Told

\* What is kept of me: it is connected, and it has its name.
Kept == server' = server /\ connected' = connected /\ username' = username

\* A message of another client.
LEMMA DispatchInforms ==
  ASSUME Server!Inv, me \in connected, NEW c \in connected, c # me,
         Server!dispatch_message(c),
         (\E k \in DOMAIN sent' : sent'[k].to = me /\ sent'[k].type = "ANS_PLAY")
           => Server!Awaiting(c)
  PROVE  /\ Posted /\ Informed /\ server' = server
         /\ me \in connected' /\ username'[me] = username[me]
<1>1. me \in Client /\ username \in [Client -> Name \cup {Null}]
  BY MeAssumption DEF Server!Inv, Server!TypeOK
<1>2. ASSUME NEW u, Server!do_login(c, u)
      PROVE  /\ Posted /\ Informed /\ UNCHANGED <<server, connected>>
             /\ username'[me] = username[me]
  <2>1. UNCHANGED <<server, match, heap, connected>> /\ username'[me] = username[me]
    BY <1>1, <1>2 DEF Server!do_login, Server!login_client
  <2>2. PICK r : sent' = <<Server!AnsLogin(c, r)>>
    BY <1>2 DEF Server!do_login
  <2>3. ~for_me(Server!AnsLogin(c, r))
    BY DEF for_me, Server!AnsLogin
  <2> QED BY <2>1, <2>2, <2>3, Bystander
<1>3. CASE Server!send_client_list(c)
  <2>1. PICK x : sent' = <<x>> /\ x.to = c
    BY <1>3 DEF Server!send_client_list
  <2>2. ~for_me(x)
    BY <2>1 DEF for_me
  <2> QED BY <1>3, <2>1, <2>2, Bystander DEF Server!send_client_list
<1>4. ASSUME NEW u \in Name, Server!process_play_request(c, u)
      PROVE  Posted /\ Informed /\ Kept
  <2>1. Kept
    BY <1>4 DEF Server!process_play_request, Kept
  <2> QED BY <1>4, <2>1, AskInforms
<1>5. ASSUME NEW x \in BOOLEAN, Server!process_play_req_answer(c, x)
      PROVE  Posted /\ Informed /\ Kept
  <2>1. Kept
    BY <1>5 DEF Server!process_play_req_answer, Kept
  <2> QED BY <1>5, <2>1, AnswerInforms
<1>6. ASSUME NEW x \in BOOLEAN, Server!process_endgame(c, x)
      PROVE  Posted /\ Informed /\ Kept
  <2>1. Kept /\ Server!terminate_match(c, x)
    BY <1>6 DEF Server!process_endgame, Kept
  <2> QED BY <2>1, EndInforms
<1>7. CASE Server!send_ans_badreq(c)
  <2>1. PICK x : sent' = <<x>> /\ x.to = c
    BY <1>7 DEF Server!send_ans_badreq
  <2>2. ~for_me(x)
    BY <2>1 DEF for_me
  <2> QED BY <1>7, <2>1, <2>2, Bystander DEF Server!send_ans_badreq
<1> QED BY <1>2, <1>3, <1>4, <1>5, <1>6, <1>7 DEF Server!dispatch_message, Kept

\* Any step for another client, and what it leaves.
LEMMA OthersInform ==
  ASSUME Server!Inv, me \in connected, server = "running", NEW c \in Client, c # me,
         Server!Handle(c),
         (\E k \in DOMAIN sent' : sent'[k].to = me /\ sent'[k].type = "ANS_PLAY")
           => Server!Awaiting(c)
  PROVE  /\ Posted
         /\ IF server' = "running" THEN Informed ELSE mail(sent') = <<>>
         /\ me \in connected' /\ username'[me] = username[me]
         /\ Server!Inv'
<1>1. Server!Next
  BY DEF Server!Next, Server!go_server
<1>2. Server!Inv'
  BY <1>1, Assumed, Server!NextInv
<1>3. /\ me \in Client /\ username \in [Client -> Name \cup {Null}]
      /\ match \in [Client -> Match \cup {Null}]
  BY MeAssumption DEF Server!Inv, Server!TypeOK
<1>4. CASE Server!accept_connection(c)
  <2>1. /\ sent' = <<>> /\ heap' = heap /\ match'[me] = match[me]
        /\ me \in connected' /\ username'[me] = username[me] /\ server' = server
    BY <1>3, <1>4 DEF Server!accept_connection
  <2> QED BY <1>2, <2>1, NoMail, Untouched DEF Posted, Informed, Told
<1>5. CASE c \in connected /\ Server!dispatch_message(c)
  BY <1>2, <1>5, DispatchInforms
<1>6. CASE c \in connected /\ Server!close_client(c)
  <2>1. /\ Server!terminate_match(c, TRUE)
        /\ me \in connected' /\ username'[me] = username[me] /\ server' = server
    BY <1>3, <1>6 DEF Server!close_client, Server!remove_client
  <2> QED BY <1>2, <1>6, <2>1, EndInforms
<1>7. CASE c \in connected /\ Server!remove_elapsed_match(c)
  <2>1. me \in connected' /\ username'[me] = username[me] /\ server' = server
    BY <1>7 DEF Server!remove_elapsed_match
  <2> QED BY <1>2, <1>7, <2>1, ElapsedInforms
<1>8. CASE c \in connected /\ Server!stale_player_access(c)
  <2>1. sent' = <<>> /\ server' # "running" /\ me \in connected' /\ username'[me] = username[me]
    BY <1>8 DEF Server!stale_player_access
  <2> QED BY <1>2, <2>1, NoMail DEF Posted
<1> QED BY <1>4, <1>5, <1>6, <1>7, <1>8 DEF Server!Handle

\* The request that elapses is one of me.
LEMMA MineElapsed ==
  ASSUME Server!Inv, me \in connected, Server!elapsed(me)
  PROVE  /\ Posted
         /\ IF server' = "running" THEN Informed ELSE mail(sent') = <<>>
         /\ me \in connected' /\ username'[me] = username[me]
         /\ Server!Inv'
<1>1. Server!Next
  BY MeAssumption DEF Server!elapsed, Server!Handle, Server!Next, Server!go_server
<1>2. Server!Inv'
  BY <1>1, Assumed, Server!NextInv
<1>3. CASE Server!remove_elapsed_match(me)
  <2>1. me \in connected' /\ username'[me] = username[me] /\ server' = "running"
    BY <1>3 DEF Server!elapsed, Server!remove_elapsed_match
  <2> QED BY <1>2, <1>3, <2>1, ElapsedInforms
<1>4. CASE Server!stale_player_access(me)
  <2>1. sent' = <<>> /\ server' # "running" /\ me \in connected' /\ username'[me] = username[me]
    BY <1>4 DEF Server!stale_player_access
  <2> QED BY <1>2, <2>1, NoMail DEF Posted
<1> QED BY <1>3, <1>4 DEF Server!elapsed

---------------------------------------------------------------------------
(* The server reads a request of me.                                        *)

\* The list is asked for.
LEMMA WhoReplied ==
  ASSUME me \in connected, NEW m \in Request, m.type = "REQ_WHO",
         Server!send_client_list(me)
  PROVE  Posted /\ Replied(m) /\ Kept
<1>1. PICK x : sent' = <<x>> /\ x.to = me /\ x.type = "ANS_WHO"
  BY DEF Server!send_client_list
<1>2. mail(sent') = <<"ANS_WHO">>
  BY <1>1, OneMail DEF for_me, kind
<1>3. UNCHANGED <<match, heap>> /\ Kept
  BY DEF Server!send_client_list, Kept
<1>4. "ANS_WHO" \in Kind /\ needs(m) = "free"
  BY Requests DEF Kind
<1> QED BY <1>2, <1>3, <1>4, Untouched DEF Posted, Replied, Answered

\* Somebody is asked to play.
LEMMA PlayReplied ==
  ASSUME Server!Inv, me \in connected, NEW m \in Request, m.type = "REQ_PLAY",
         Server!process_play_request(me, m.opponent)
  PROVE  Posted /\ Replied(m) /\ Kept
<1>1. Kept
  BY DEF Server!process_play_request, Kept
<1>2. needs(m) = "free"
  BY Requests
<1>3. CASE \E r \in {"PLAY_INVALID_OPPONENT", "PLAY_OPPONENT_IN_GAME"} :
             sent' = <<Server!AnsPlay(me, r, me)>> /\ UNCHANGED <<match, heap>>
  <2>1. PICK r \in {"PLAY_INVALID_OPPONENT", "PLAY_OPPONENT_IN_GAME"} :
          sent' = <<Server!AnsPlay(me, r, me)>> /\ UNCHANGED <<match, heap>>
    BY <1>3
  <2>2. mail(sent') = <<r>>
    BY <2>1, Letters, OneMail
  <2>3. r \in Kind
    BY SameRest DEF Kind, Server!PlayResponse
  <2> QED BY <1>1, <1>2, <2>1, <2>2, <2>3, Untouched DEF Posted, Replied, Answered
<1>4. CASE \E q \in client_list \ {me} :
             Server!add_match(me, q) /\ sent' = <<Server!ReqPlay(q, username[me])>>
                                     /\ match[q] = Null
  <2>1. PICK q \in client_list \ {me} :
          Server!add_match(me, q) /\ sent' = <<Server!ReqPlay(q, username[me])>>
    BY <1>4
  <2>2. q \in connected /\ me # q
    BY DEF Server!Inv, Server!LoginTable
  <2>3. mail(sent') = <<>>
    BY <2>1, <2>2, Letters, Elsewhere
  <2>4. situation = "free" => match[me] = Null
    BY DEF situation
  <2>5. OnlyOwn /\ situation = "free" => OnlyOwn' /\ situation' = "asker"
    BY <2>1, <2>2, <2>4, Added
  <2> QED BY <1>1, <1>2, <2>3, <2>5 DEF Posted, Replied, Answered
<1> QED
  BY <1>3, <1>4 DEF Server!process_play_request, Server!get_clients_by_username, Server!busy

\* A request is answered.
LEMMA AnswerReplied ==
  ASSUME Server!Inv, me \in connected, NEW m \in Request, m.type = "REQ_PLAY_ANS",
         Server!process_play_req_answer(me, m.accept)
  PROVE  Posted /\ Replied(m) /\ Kept
<1> DEFINE w == match[me]
           p == heap[w].player1
           q == heap[w].player2
           r == IF m.accept THEN "PLAY_ACCEPT" ELSE "PLAY_DECLINE"
<1>1. Kept
  BY DEF Server!process_play_req_answer, Kept
<1>2. needs(m) = "invited" /\ m.accept \in BOOLEAN
  BY Requests
<1>3. situation = "invited" => w # Null /\ me # p
  BY DEF situation
<1>4. CASE Server!answer_ignored(me)
  <2>1. sent' = <<>>
    BY <1>4 DEF Server!process_play_req_answer
  <2> QED BY <1>1, <1>2, <1>3, <1>4, <2>1, NoMail DEF Posted, Replied, Server!answer_ignored
<1>5. CASE ~Server!answer_ignored(me)
  <2>1. /\ sent' = <<Server!AnsPlay(p, r, q), Server!AnsPlay(q, r, p)>>
        /\ IF m.accept THEN /\ heap' = [heap EXCEPT ![w].awaiting_reply = FALSE]
                            /\ match' = match
                       ELSE Server!delete_match(w)
    BY <1>5 DEF Server!process_play_req_answer
  <2>2. w # Null /\ me # p
    BY <1>5 DEF Server!answer_ignored
  <2>3. /\ p # q /\ {p, q} = Server!Players(w) /\ me \in Server!Players(w)
    BY <2>2, Behind DEF Server!Players
  <2>4. r \in Server!PlayResponse
    BY DEF Server!PlayResponse
  <2>5. w = match[me]
    OBVIOUS
  <2> HIDE DEF p, q, w
  <2>6. Posted /\ mail(sent') = <<r>>
    BY <2>1, <2>2, <2>3, <2>4, <2>5, BothAnswered
  <2>7. OnlyOwn => OnlyOwn' /\ situation' = IF m.accept THEN "game" ELSE "free"
    BY <2>1, <2>2, <2>3, <2>5, Confirmed, Struck
  <2> HIDE DEF r
  <2>8. /\ m.accept => r = "PLAY_ACCEPT"
        /\ ~m.accept => r = "PLAY_DECLINE"
    BY DEF r
  <2> QED BY <1>1, <1>2, <2>6, <2>7, <2>8 DEF Replied, Answered
<1> QED BY <1>4, <1>5

\* A game is left.
LEMMA EndReplied ==
  ASSUME Server!Inv, me \in connected, NEW m \in Request, m.type = "MSG_ENDGAME",
         Server!process_endgame(me, m.disconnected)
  PROVE  Posted /\ Replied(m) /\ Kept
<1> DEFINE w == match[me]
           e == Server!Opponent(me)
           x == m.disconnected
<1>1. Kept /\ Server!terminate_match(me, x)
  BY DEF Server!process_endgame, Kept
<1>2. needs(m) = "game"
  BY Requests
<1>3. situation = "game" => w # Null
  BY DEF situation
<1>4. CASE w = Null
  <2>1. sent' = <<>>
    BY <1>1, <1>4 DEF Server!terminate_match
  <2> QED BY <1>1, <1>2, <1>3, <1>4, <2>1, NoMail DEF Posted, Replied
<1>5. CASE w # Null
  <2>1. sent' = <<Server!EndMessage(me, x)>> /\ Server!delete_match(w)
    BY <1>1, <1>5 DEF Server!terminate_match
  <2>2. me \in Server!Players(w) /\ e # me
    BY <1>5, Behind
  <2>3. OnlyOwn => OnlyOwn' /\ situation' = "free"
    BY <1>5, <2>1, <2>2, Struck
  <2>4. ~for_me(Server!EndMessage(me, x))
    <3> HIDE DEF x
    <3> QED BY <2>2, Letters DEF Server!EndMessage
  <2>5. mail(sent') = <<>>
    BY <2>1, <2>4, Elsewhere
  <2> QED BY <1>1, <1>2, <2>3, <2>5 DEF Posted, Replied, Answered
<1> QED BY <1>4, <1>5

\* Any request, and what it leaves.
LEMMA MineServed ==
  ASSUME Server!Inv, me \in connected, username[me] # Null, server = "running",
         NEW m \in Request, Server!receive(me, m)
  PROVE  /\ Posted
         /\ IF server' = "running" THEN Replied(m) ELSE mail(sent') = <<>>
         /\ me \in connected' /\ username'[me] = username[me]
         /\ Server!Inv'
<1>1. Server!logged_in(me) /\ me \in Client
  BY MeAssumption DEF Server!logged_in
<1>2. /\ m.type \in {"REQ_WHO", "REQ_PLAY", "REQ_PLAY_ANS", "MSG_ENDGAME"}
      /\ m.type = "REQ_PLAY" => m.opponent \in Name
      /\ m.type = "REQ_PLAY_ANS" => m.accept \in BOOLEAN
      /\ m.type = "MSG_ENDGAME" => m.disconnected \in BOOLEAN
  BY Requests
<1>3. ASSUME Server!dispatch_message(me) PROVE Server!Inv'
  <2>1. Server!Next
    BY <1>1, <1>3 DEF Server!Handle, Server!Next, Server!go_server
  <2> QED BY <2>1, Assumed, Server!NextInv
<1>4. CASE m.type = "REQ_WHO" /\ Server!send_client_list(me)
  <2>1. Server!Inv'
    BY <1>1, <1>3, <1>4 DEF Server!dispatch_message
  <2> QED BY <1>4, <2>1, WhoReplied DEF Kept
<1>5. CASE m.type = "REQ_PLAY" /\ Server!process_play_request(me, m.opponent)
  <2>1. Server!Inv'
    BY <1>1, <1>2, <1>3, <1>5 DEF Server!dispatch_message
  <2> QED BY <1>5, <2>1, PlayReplied DEF Kept
<1>6. CASE m.type = "REQ_PLAY_ANS" /\ Server!process_play_req_answer(me, m.accept)
  <2>1. Server!Inv'
    BY <1>1, <1>2, <1>3, <1>6 DEF Server!dispatch_message
  <2> QED BY <1>6, <2>1, AnswerReplied DEF Kept
<1>7. CASE m.type = "MSG_ENDGAME" /\ Server!process_endgame(me, m.disconnected)
  <2>1. Server!Inv'
    BY <1>1, <1>2, <1>3, <1>7 DEF Server!dispatch_message
  <2> QED BY <1>7, <2>1, EndReplied DEF Kept
<1>8. CASE Server!stale_player_access(me)
  <2>1. sent' = <<>> /\ server' # "running" /\ me \in connected' /\ username'[me] = username[me]
    BY <1>8 DEF Server!stale_player_access
  <2>2. Server!Next
    BY <1>1, <1>8 DEF Server!Handle, Server!Next, Server!go_server
  <2>3. Server!Inv'
    BY <2>2, Assumed, Server!NextInv
  <2> QED BY <2>1, <2>3, NoMail DEF Posted
<1> QED BY <1>2, <1>4, <1>5, <1>6, <1>7, <1>8 DEF Server!receive

---------------------------------------------------------------------------
(* A step of the server preserves the invariant.                            *)

\* A step that follows from what it delivers to me.
LEMMA ServerStep ==
  ASSUME IInv, server = "running", at # "ended", UNCHANGED process, deliver, Posted,
         toServer' \in Seq(Request), toServer = <<>> => toServer' = toServer,
         me \in connected', username'[me] = username[me], Server!Inv',
         server' # "running" => mail(sent') = <<>>,
         Follows /\ ~crossed' /\ server' = "running" =>
           /\ OnlyOwn' /\ InOrder(doing, toClient')
           /\ Known(doing, toClient', toServer', situation')
  PROVE  IInv'
<1>1. /\ Types /\ Statuses /\ Reports /\ Order /\ EndsWithCause /\ OneWay
      /\ username[me] # Null
  BY DEF IInv, Base, Present
<1>2. /\ UNCHANGED <<at, status, tty, datagram, report, received_signal, quiet, why>>
      /\ toClient' = toClient \o mail(sent')
      /\ crossed' = (crossed \/ (toServer' # <<>> /\ toClient' # <<>>))
  BY DEF process, deliver, cross
<1>3. toClient \in Seq(Kind) /\ crossed \in BOOLEAN
  BY <1>1 DEF Types
<1>4. toClient' \in Seq(Kind) /\ (toClient # <<>> => toClient' # <<>>)
  <2>1. CASE mail(sent') = <<>>
    BY <1>2, <1>3, <2>1
  <2>2. CASE \E k \in Kind : mail(sent') = <<k>>
    <3>1. PICK k \in Kind : mail(sent') = <<k>>
      BY <2>2
    <3>2. toClient' = Append(toClient, k)
      BY <1>2, <1>3, <3>1, Appended
    <3> QED BY <1>3, <3>2, Appended
  <2> QED BY <2>1, <2>2 DEF Posted
<1>5. Types'
  BY <1>1, <1>2, <1>3, <1>4 DEF Types
<1>6. Base'
  BY <1>1, <1>5 DEF Base, Present
<1>7. Statuses' /\ OneWay'
  BY <1>1, <1>2 DEF Statuses, OneWay
<1>8. Reports'
  BY <1>1, <1>2, <1>4 DEF Reports
<1>9. EndsWithCause'
  BY <1>1, <1>2 DEF EndsWithCause
<1>10. doing' = doing /\ (Follows' <=> Follows /\ ~crossed')
  BY <1>2 DEF doing, Follows, Doomed
<1>11. Order'
  <2>1. CASE server' = "running"
    BY <1>10, <2>1 DEF Order
  <2>2. CASE server' # "running"
    <3>1. toClient' = toClient
      BY <1>2, <1>3, <2>2
    <3> QED BY <1>1, <1>10, <3>1 DEF Order
  <2> QED BY <2>1, <2>2
<1>12. Alone' /\ Knowledge'
  BY <1>10 DEF Alone, Knowledge
<1> QED BY <1>6, <1>7, <1>8, <1>9, <1>11, <1>12 DEF IInv

\* A message of the server's own accord.
LEMMA Notified ==
  ASSUME IInv, server = "running", at # "ended", UNCHANGED process, deliver, Posted,
         toServer' = toServer,
         me \in connected', username'[me] = username[me], Server!Inv',
         IF server' = "running" THEN Informed ELSE mail(sent') = <<>>
  PROVE  IInv'
<1>1. Types /\ Order /\ Alone /\ Knowledge
  BY DEF IInv, Base
<1>2. toServer \in Seq(Request) /\ toClient \in Seq(Kind)
  BY <1>1 DEF Types
<1>3. ASSUME Follows, ~crossed', server' = "running"
      PROVE  /\ OnlyOwn' /\ InOrder(doing, toClient')
             /\ Known(doing, toClient', toServer', situation')
  <2>1. /\ OnlyOwn /\ InOrder(doing, toClient)
        /\ Known(doing, toClient, toServer, situation)
    BY <1>1, <1>3 DEF Order, Alone, Knowledge
  <2>2. OnlyOwn' /\ Told(situation, situation', mail(sent'))
    BY <1>3, <2>1 DEF Informed
  <2>3. /\ toClient' = toClient \o mail(sent')
        /\ toServer' = <<>> \/ toClient' = <<>>
    BY <1>3 DEF deliver, cross
  <2>4. CASE mail(sent') = <<>>
    <3>1. toClient' = toClient
      BY <1>2, <2>3, <2>4
    <3>2. situation' = situation
      BY <2>2, <2>4 DEF Told
    <3> QED BY <2>1, <2>2, <3>1, <3>2
  <2>5. CASE mail(sent') # <<>>
    <3>1. PICK k \in Kind : mail(sent') = <<k>>
      BY <2>5 DEF Posted
    <3>2. toClient' # <<>>
      BY <1>2, <2>3, <3>1, Appended
    <3>3. toServer = <<>>
      BY <2>3, <3>2
    <3>4. /\ InOrder(doing, toClient \o mail(sent'))
          /\ Known(doing, toClient \o mail(sent'), <<>>, situation')
      BY <1>2, <2>1, <2>2, <2>5, <3>3, Heard
    <3> QED BY <2>2, <2>3, <3>3, <3>4
  <2> QED BY <2>4, <2>5
<1> QED BY <1>2, <1>3, ServerStep

\* A message of me is read.
LEMMA ServeInv ==
  ASSUME IInv, at # "ended", serve
  PROVE  IInv'
<1> DEFINE m == Head(toServer)
<1>1. /\ Types /\ Order /\ Alone /\ Knowledge /\ OneWay /\ Server!Inv
      /\ server = "running" /\ toServer # <<>> /\ me \in connected /\ username[me] # Null
      /\ toServer' = Tail(toServer) /\ deliver /\ UNCHANGED process
      /\ Server!receive(me, m)
  BY SameHandlers DEF IInv, Base, Present, serve
<1>2. toServer \in Seq(Request) /\ toClient \in Seq(Kind)
  BY <1>1 DEF Types
<1>3. /\ m = toServer[1] /\ m \in Request /\ Tail(toServer) \in Seq(Request)
  <2>1. /\ Len(toServer) \in Nat /\ Len(toServer) >= 1 /\ m = toServer[1]
        /\ \A i \in 1 .. Len(toServer) : toServer[i] \in Request
        /\ Tail(toServer) \in Seq(Request)
    BY <1>1, <1>2, Tailed
  <2>2. 1 \in 1 .. Len(toServer)
    BY <2>1
  <2> QED BY <2>1, <2>2
<1> HIDE DEF m
<1>4. /\ Posted
      /\ IF server' = "running" THEN Replied(m) ELSE mail(sent') = <<>>
      /\ me \in connected' /\ username'[me] = username[me]
      /\ Server!Inv'
  BY <1>1, <1>3, MineServed
<1>5. ASSUME Follows, ~crossed', server' = "running"
      PROVE  /\ OnlyOwn' /\ InOrder(doing, toClient')
             /\ Known(doing, toClient', toServer', situation')
  <2>1. toClient = <<>>
    BY <1>1, <1>5 DEF OneWay, Follows
  <2>2. /\ OnlyOwn /\ Known(doing, <<>>, toServer, situation)
    BY <1>1, <1>5, <2>1 DEF Alone, Knowledge
  <2>3. situation = needs(m)
    BY <1>1, <1>3, <2>2 DEF Known
  <2>4. OnlyOwn' /\ Answered(toServer[1], situation', mail(sent'))
    BY <1>3, <1>4, <1>5, <2>2, <2>3 DEF Replied
  <2>5. /\ InOrder(doing, mail(sent'))
        /\ Known(doing, mail(sent'), Tail(toServer), situation')
    BY <1>1, <1>2, <2>2, <2>4, Attended
  <2>6. toClient' = mail(sent')
    <3>1. toClient' = <<>> \o mail(sent')
      BY <1>1, <2>1 DEF deliver
    <3>2. mail(sent') \in Seq(Kind)
      <4>1. CASE mail(sent') = <<>>
        BY <4>1
      <4>2. CASE \E k \in Kind : mail(sent') = <<k>>
        BY <4>2
      <4> QED BY <1>4, <4>1, <4>2 DEF Posted
    <3> QED BY <3>1, <3>2
  <2> QED BY <1>1, <2>4, <2>5, <2>6
<1> QED BY <1>1, <1>3, <1>4, <1>5, ServerStep

\* Something happens to another client.
LEMMA OthersInv ==
  ASSUME IInv, at # "ended", others
  PROVE  IInv'
<1>1. /\ Server!Inv /\ server = "running" /\ me \in connected
      /\ toServer' = toServer /\ deliver /\ UNCHANGED process
  BY DEF IInv, Base, Present, others
<1>2. PICK c \in Client \ {me} :
        /\ Srv!Handle(c)
        /\ (\E k \in DOMAIN sent' : sent'[k].to = me /\ sent'[k].type = "ANS_PLAY")
             => Srv!Awaiting(c)
  BY DEF others
<1>3. /\ Server!Handle(c)
      /\ (\E k \in DOMAIN sent' : sent'[k].to = me /\ sent'[k].type = "ANS_PLAY")
           => Server!Awaiting(c)
  BY <1>2, SameHandlers, SameRest
<1>4. /\ Posted
      /\ IF server' = "running" THEN Informed ELSE mail(sent') = <<>>
      /\ me \in connected' /\ username'[me] = username[me]
      /\ Server!Inv'
  BY <1>1, <1>3, OthersInform
<1> QED BY <1>1, <1>4, Notified

\* A request of the client has elapsed.
LEMMA ElapsedInv ==
  ASSUME IInv, at # "ended", elapsed
  PROVE  IInv'
<1>1. /\ Server!Inv /\ server = "running" /\ me \in connected
      /\ toServer' = toServer /\ deliver /\ UNCHANGED process /\ Server!elapsed(me)
  BY SameHandlers DEF IInv, Base, Present, elapsed, Server!elapsed
<1>2. /\ Posted
      /\ IF server' = "running" THEN Informed ELSE mail(sent') = <<>>
      /\ me \in connected' /\ username'[me] = username[me]
      /\ Server!Inv'
  BY <1>1, MineElapsed
<1> QED BY <1>1, <1>2, Notified

\* The server is stopped.
LEMMA ShutdownInv ==
  ASSUME IInv, at # "ended", shutdown
  PROVE  IInv'
<1>1. /\ server = "running" /\ Server!shutdown /\ UNCHANGED <<wires, process>>
      /\ Server!Inv
  BY SameRest DEF shutdown, IInv, Base
<1>2. Server!Inv'
  <2>1. Server!Next
    BY <1>1 DEF Server!Next, Server!go_server
  <2> QED BY <1>1, <2>1, Assumed, Server!NextInv
<1>3. /\ server' # "running"
      /\ UNCHANGED <<toServer, toClient, crossed, at, status, tty, datagram, report,
                     received_signal, quiet, why>>
  BY <1>1 DEF Server!shutdown, wires, process
<1>4. Base' /\ Statuses' /\ OneWay' /\ EndsWithCause' /\ Order'
  BY <1>2, <1>3 DEF IInv, Base, Types, Present, Statuses, OneWay, EndsWithCause, Order,
                    Follows, Doomed, doing
<1>5. Alone' /\ Reports' /\ Knowledge'
  BY <1>3 DEF Alone, Reports, Knowledge
<1> QED BY <1>4, <1>5 DEF IInv

---------------------------------------------------------------------------
(* A step of the client, the user or the opponent.                          *)

\* Nothing happens in the server.
LEMMA Silent ==
  ASSUME Base, noHandler, Types'
  PROVE  /\ Base' /\ situation' = situation /\ (OnlyOwn <=> OnlyOwn') /\ server' = server
<1>1. /\ UNCHANGED <<server, connected, client_list, logged_count, username, match, heap,
                     overlap>>
      /\ sent' = <<>>
  BY DEF noHandler
<1>2. <<>> \in Seq(Server!Message)
  OBVIOUS
<1>3. Server!TypeOK'
  BY <1>1, <1>2 DEF Base, Server!Inv, Server!TypeOK
<1>4. Server!OwnMatch' /\ Server!LoginTable' /\ Server!LoggedCountExact'
  BY <1>1 DEF Base, Server!Inv, Server!OwnMatch, Server!LoginTable, Server!LoggedCountExact,
              Server!Players, Server!logged_in
<1>5. Base'
  BY <1>1, <1>3, <1>4 DEF Base, Server!Inv, Present
<1> QED BY <1>1, <1>5 DEF situation, OnlyOwn, Server!Players

\* What is left to show.
LEMMA ClientStep ==
  ASSUME IInv, noHandler, Types', Statuses', OneWay', Reports', EndsWithCause',
         Follows' => /\ InOrder(doing', toClient')
                     /\ server = "running" =>
                          OnlyOwn /\ Known(doing', toClient', toServer', situation)
  PROVE  IInv'
<1>1. /\ Base' /\ situation' = situation /\ (OnlyOwn <=> OnlyOwn') /\ server' = server
  BY Silent DEF IInv
<1>2. Order'
  BY <1>1 DEF Order
<1>3. Alone' /\ Knowledge'
  BY <1>1 DEF Alone, Knowledge
<1> QED BY <1>1, <1>2, <1>3 DEF IInv

\* Nothing is read or written.
LEMMA Still ==
  ASSUME IInv, noHandler, UNCHANGED <<toServer, toClient, crossed>>,
         Types', Statuses', Reports', EndsWithCause',
         Follows' => Follows /\ doing' = doing
  PROVE  IInv'
<1>1. OneWay'
  BY DEF IInv, OneWay
<1> QED BY <1>1, ClientStep DEF IInv, Order, Alone, Knowledge

\* The process ends.
LEMMA EndStep ==
  ASSUME IInv, noHandler, at' = "ended", Types', OneWay', EndsWithCause'
  PROVE  IInv'
<1>1. Statuses' /\ Reports' /\ ~Follows'
  BY DEF Statuses, Reports, Follows, Reading
<1> QED BY <1>1, ClientStep

\* A message is read.
LEMMA ReadStep ==
  ASSUME IInv, noHandler, reads, toClient # <<>>,
         Types', Statuses', Reports', EndsWithCause',
         Follows' => Follows /\ doing' = leads(Head(toClient))
  PROVE  IInv'
<1>1. toClient' = Tail(toClient) /\ UNCHANGED <<toServer, crossed>>
  BY DEF reads
<1>2. toClient \in Seq(Kind) /\ OneWay /\ Order /\ Alone /\ Knowledge
  BY DEF IInv, Base, Types
<1>3. OneWay'
  <2>1. ~crossed => toServer = <<>>
    BY <1>2 DEF OneWay
  <2> QED BY <1>1, <2>1 DEF OneWay
<1>4. ASSUME Follows'
      PROVE  /\ InOrder(doing', toClient')
             /\ server = "running" =>
                  OnlyOwn /\ Known(doing', toClient', toServer', situation)
  <2>1. Follows /\ doing' = leads(Head(toClient)) /\ toServer = <<>>
    BY <1>2, <1>4 DEF OneWay, Follows
  <2>2. InOrder(doing, toClient)
    BY <1>2, <2>1 DEF Order
  <2>3. InOrder(leads(Head(toClient)), Tail(toClient))
    BY <1>2, <2>2, Goes
  <2>4. server = "running" => OnlyOwn /\ Known(doing, toClient, <<>>, situation)
    BY <1>2, <2>1 DEF Alone, Knowledge
  <2>5. server = "running" => Known(leads(Head(toClient)), Tail(toClient), <<>>, situation)
    BY <1>2, <2>2, <2>4, Reads
  <2> QED BY <1>1, <2>1, <2>3, <2>4, <2>5
<1> QED BY <1>3, <1>4, ClientStep

\* A message is written.
LEMMA WriteStep ==
  ASSUME IInv, noHandler, NEW m \in Request, send(m),
         Types', Statuses', Reports', EndsWithCause',
         Follows' => /\ Follows /\ doing' = wrote(m)
                     /\ \/ doing = "lobby" /\ Asks(m)
                        \/ doing = "game" /\ m.type = "MSG_ENDGAME"
                        \/ doing = "asking" /\ m.type = "REQ_PLAY_ANS"
  PROVE  IInv'
<1>1. /\ toServer' = Append(toServer, m) /\ toClient' = toClient
      /\ crossed' = (crossed \/ (toServer' # <<>> /\ toClient' # <<>>))
  BY DEF send, cross
<1>2. toServer \in Seq(Request) /\ Order /\ Alone /\ Knowledge
  BY DEF IInv, Base, Types
<1>3. OneWay'
  BY <1>1 DEF OneWay
<1>4. ASSUME Follows'
      PROVE  /\ InOrder(doing', toClient')
             /\ server = "running" =>
                  OnlyOwn /\ Known(doing', toClient', toServer', situation)
  <2>1. toServer' # <<>>
    BY <1>1, <1>2, Appended
  <2>2. toClient = <<>>
    BY <1>1, <1>4, <2>1 DEF Follows
  <2>3. InOrder(doing', toClient')
    BY <1>1, <2>2, NothingThere
  <2>4. server = "running" => OnlyOwn /\ Known(doing, <<>>, toServer, situation)
    BY <1>2, <1>4, <2>2 DEF Alone, Knowledge
  <2>5. server = "running" => Known(wrote(m), <<>>, Append(toServer, m), situation)
    BY <1>2, <1>4, <2>4, Writes
  <2> QED BY <1>1, <1>4, <2>2, <2>3, <2>4, <2>5
<1> QED BY <1>3, <1>4, ClientStep

\* Nothing is read or written, and what comes is taken for something else.
LEMMA Instead ==
  ASSUME NEW b, NEW d, NEW r \in Seq(Kind), r # <<>>, InOrder(b, r),
         expects(b, Head(r)) => expects(d, Head(r))
  PROVE  InOrder(d, r) /\ \A t : Known(b, r, <<>>, t) => Known(d, r, <<>>, t)
<1>1. /\ Head(r) = r[1] /\ Len(r) \in Nat /\ Len(r) >= 1
  BY Tailed
<1>2. ASSUME NEW i \in 1 .. Len(r) PROVE expects(before(d, r, i), r[i])
  <2>1. expects(before(b, r, i), r[i])
    BY DEF InOrder
  <2> QED BY <1>1, <2>1 DEF before
<1>3. headed(d, r) = headed(b, r)
  BY DEF headed
<1> QED BY <1>2, <1>3 DEF InOrder, Known

\* The channels stay as they are.
LEMMA TypesStill ==
  ASSUME IInv, UNCHANGED <<toServer, toClient, crossed>>
  PROVE  /\ toServer' \in Seq(Request) /\ toClient' \in Seq(Kind) /\ crossed' \in BOOLEAN
         /\ OneWay'
  BY DEF IInv, Base, Types, OneWay

\* The same when something is written.
LEMMA TypesWritten ==
  ASSUME IInv, NEW m \in Request, send(m)
  PROVE  /\ toServer' \in Seq(Request) /\ toClient' \in Seq(Kind) /\ crossed' \in BOOLEAN
         /\ toServer' # <<>> /\ toClient' = toClient
         /\ OneWay'
<1>1. /\ toServer' = Append(toServer, m) /\ toClient' = toClient
      /\ crossed' = (crossed \/ (toServer' # <<>> /\ toClient' # <<>>))
  BY DEF send, cross
<1>2. toServer \in Seq(Request) /\ toClient \in Seq(Kind) /\ crossed \in BOOLEAN
  BY DEF IInv, Base, Types
<1>3. Append(toServer, m) \in Seq(Request) /\ Append(toServer, m) # <<>>
  BY <1>2, Appended
<1>4. OneWay'
  BY <1>1 DEF OneWay
<1> QED BY <1>1, <1>2, <1>3, <1>4

\* And read.
LEMMA TypesRead ==
  ASSUME IInv, toClient # <<>>, reads
  PROVE  toServer' \in Seq(Request) /\ toClient' \in Seq(Kind) /\ crossed' \in BOOLEAN
<1>1. toServer \in Seq(Request) /\ toClient \in Seq(Kind) /\ crossed \in BOOLEAN
  BY DEF IInv, Base, Types
<1> QED BY <1>1, Tailed DEF reads

\* The cause is the one there was.
LEMMA CauseKept ==
  ASSUME IInv, UNCHANGED <<why, server>>, ~crossed' => ~crossed
  PROVE  EndsWithCause'
  BY DEF IInv, EndsWithCause

---------------------------------------------------------------------------
(* The loop.                                                                *)

\* What a step of the client leaves of the invariant's simpler parts.
LEMMA Parts ==
  ASSUME IInv
  PROVE  /\ Types /\ Statuses /\ Reports /\ OneWay /\ Order /\ EndsWithCause
         /\ Alone /\ Knowledge
         /\ ~crossed /\ server = "running" /\ at \notin {"pass", "flush", "ended"}
              => "server" \notin report
  BY DEF IInv, Base, Reports

\* The flag is tested.
LEMMA TestSignalInv ==
  ASSUME IInv, test_signal
  PROVE  IInv'
<1>1. /\ at = "top" /\ UNCHANGED <<toServer, toClient, crossed>> /\ noHandler
      /\ UNCHANGED <<status, tty, datagram, report, received_signal, quiet>>
  BY DEF test_signal, wires
<1>2. CASE received_signal
  <2>1. at' = "ended" /\ why' = "signal"
    BY <1>2 DEF test_signal, ends
  <2>2. Types' /\ OneWay'
    BY <1>1, <2>1, Parts, TypesStill DEF Types, Place
  <2>3. EndsWithCause'
    BY <2>1 DEF EndsWithCause
  <2> QED BY <1>1, <2>1, <2>2, <2>3, EndStep
<1>3. CASE ~received_signal
  <2>1. at' = "select" /\ why' = why /\ server' = server
    BY <1>1, <1>3 DEF test_signal, go, noHandler
  <2>2. Types'
    BY <1>1, <2>1, Parts, TypesStill DEF Types, Place
  <2>3. Statuses' /\ Reports'
    BY <1>1, <2>1, Parts DEF Statuses, Reports, Reading
  <2>4. EndsWithCause'
    BY <1>1, <2>1, CauseKept
  <2>5. Follows' => Follows /\ doing' = doing
    BY <1>1, <1>3, <2>1 DEF Follows, Doomed, doing, Reading
  <2> QED BY <1>1, <2>2, <2>3, <2>4, <2>5, Still
<1> QED BY <1>2, <1>3

\* select() returns.
LEMMA SelectInv ==
  ASSUME IInv, select
  PROVE  IInv'
<1>1. /\ at = "select" /\ at' = "pass" /\ report' = readable
      /\ UNCHANGED <<toServer, toClient, crossed>> /\ noHandler
      /\ UNCHANGED <<status, tty, datagram, received_signal, quiet, why>>
      /\ server' = server
  BY DEF select, go, wires, noHandler
<1>2. /\ readable \subseteq {"stdin", "server", "game"}
      /\ "server" \in readable => toClient # <<>> \/ server # "running"
  BY DEF readable, server_readable
<1>3. Types'
  BY <1>1, <1>2, Parts, TypesStill DEF Types, Place
<1>4. Statuses' /\ Reports'
  BY <1>1, <1>2, Parts DEF Statuses, Reports, Reading
<1>5. EndsWithCause'
  BY <1>1, CauseKept
<1>6. Follows' => Follows /\ doing' = doing
  BY <1>1 DEF Follows, Doomed, doing, Reading
<1> QED BY <1>1, <1>3, <1>4, <1>5, <1>6, Still

\* The end of a game is told.
LEMMA EndRequest ==
  ASSUME NEW x \in BOOLEAN
  PROVE  /\ [type |-> "MSG_ENDGAME", disconnected |-> x] \in Request
         /\ wrote([type |-> "MSG_ENDGAME", disconnected |-> x]) = "lobby"
<1>1. [type |-> "MSG_ENDGAME", disconnected |-> x] \in Request
  BY DEF Request
<1> QED BY <1>1, Requests

\* The client leaves its game, whether or not it can tell.
LEMMA LeaveStep ==
  ASSUME IInv, noHandler, NEW x \in BOOLEAN, sends_endgame(x),
         status # "disconnected", at = "pass" \/ at = "select",
         at' \in {"pass", "top"}, why' = why, status' = "disconnected",
         tty' \in 0 .. MaxTyped, {datagram', quiet'} \subseteq BOOLEAN,
         received_signal' = received_signal,
         report' \subseteq report, at' = "top" => at = "select"
  PROVE  IInv'
<1>1. server' = server
  BY DEF noHandler
<1>2. doing = "game" /\ doing' = "lobby" /\ ~Doomed
  BY DEF doing, Reading, Doomed
<1>3. Statuses'
  BY DEF Statuses, Reading
<1>4. CASE send([type |-> "MSG_ENDGAME", disconnected |-> x])
  <2> DEFINE m == [type |-> "MSG_ENDGAME", disconnected |-> x]
  <2>1. m \in Request /\ wrote(m) = "lobby" /\ m.type = "MSG_ENDGAME" /\ send(m)
    BY <1>4, EndRequest
  <2> HIDE DEF m
  <2>2. /\ toServer' \in Seq(Request) /\ toClient' \in Seq(Kind) /\ crossed' \in BOOLEAN
        /\ toServer' # <<>> /\ toClient' = toClient
        /\ OneWay'
    BY <2>1, TypesWritten
  <2>3. Types'
    BY <2>2, Parts DEF Types, Place
  <2>4. crossed => crossed'
    BY <2>1 DEF send, cross
  <2>5. Reports'
    BY <1>1, <2>2, <2>4, Parts DEF Reports
  <2>6. EndsWithCause'
    BY <1>1, <2>4, CauseKept
  <2>7. Follows' => Follows
    BY <1>2, <2>4 DEF Follows
  <2> QED BY <1>2, <1>3, <2>1, <2>3, <2>5, <2>6, <2>7, WriteStep
<1>5. CASE server # "running" /\ unread
  <2>1. UNCHANGED <<toServer, toClient, crossed>>
    BY <1>5 DEF unread
  <2>2. Types' /\ OneWay'
    BY <2>1, Parts, TypesStill DEF Types, Place
  <2>3. Reports'
    BY <1>1, <1>5 DEF Reports
  <2>4. EndsWithCause'
    BY <1>1, <2>1, CauseKept
  <2>5. ASSUME Follows' PROVE InOrder(doing', toClient')
    <3>1. Follows
      BY <1>2, <2>1, <2>5 DEF Follows
    <3>2. InOrder("game", toClient) /\ toClient \in Seq(Kind)
      BY <1>2, <3>1, Parts DEF Order, Types
    <3>3. InOrder("lobby", toClient)
      <4>1. CASE toClient = <<>>
        BY <4>1, NothingThere
      <4>2. CASE toClient # <<>>
        <5>1. expects("game", Head(toClient)) => expects("lobby", Head(toClient))
          BY DEF expects
        <5> QED BY <3>2, <4>2, <5>1, Instead
      <4> QED BY <4>1, <4>2
    <3> QED BY <1>2, <2>1, <3>3
  <2> QED BY <1>3, <1>5, <2>2, <2>3, <2>4, <2>5, ClientStep
<1> QED BY <1>4, <1>5 DEF sends_endgame

\* Nothing has become readable.
LEMMA SelectTimeoutInv ==
  ASSUME IInv, select_timeout
  PROVE  IInv'
<1>1. /\ at = "select" /\ at' = "top" /\ status # "disconnected" /\ quiet' = FALSE
      /\ UNCHANGED <<tty, datagram, report, received_signal, why>> /\ noHandler
      /\ server' = server
  BY DEF select_timeout, go, noHandler
<1>2. CASE quiet
  <2>1. sends_endgame(TRUE) /\ status' = "disconnected"
    BY <1>2 DEF select_timeout
  <2>2. tty' \in 0 .. MaxTyped /\ {datagram', quiet'} \subseteq BOOLEAN
    BY <1>1, Parts DEF Types
  <2> QED BY <1>1, <2>1, <2>2, LeaveStep
<1>3. CASE ~quiet
  <2>1. UNCHANGED <<toServer, toClient, crossed, status>>
    BY <1>3 DEF select_timeout, unread
  <2>2. Types'
    BY <1>1, <2>1, Parts, TypesStill DEF Types, Place
  <2>3. Statuses' /\ Reports'
    BY <1>1, <2>1, Parts DEF Statuses, Reports, Reading
  <2>4. EndsWithCause'
    BY <1>1, <2>1, CauseKept
  <2>5. Follows' => Follows /\ doing' = doing
    BY <1>1, <2>1 DEF Follows, Doomed, doing, Reading
  <2> QED BY <1>1, <2>1, <2>2, <2>3, <2>4, <2>5, Still
<1> QED BY <1>2, <1>3

\* The pass has visited everything.
LEMMA PassEndsInv ==
  ASSUME IInv, pass_ends
  PROVE  IInv'
<1>1. /\ at = "pass" /\ at' = "top" /\ report = {}
      /\ UNCHANGED <<toServer, toClient, crossed>> /\ noHandler
      /\ UNCHANGED <<status, tty, datagram, report, received_signal, quiet, why>>
      /\ server' = server
  BY DEF pass_ends, go, wires, noHandler
<1>2. Types'
  BY <1>1, Parts, TypesStill DEF Types, Place
<1>3. Statuses' /\ Reports'
  BY <1>1, Parts DEF Statuses, Reports, Reading
<1>4. EndsWithCause'
  BY <1>1, CauseKept
<1>5. Follows' => Follows /\ doing' = doing
  BY <1>1 DEF Follows, Doomed, doing, Reading
<1> QED BY <1>1, <1>2, <1>3, <1>4, <1>5, Still

\* A command, in the lobby or in a game.
LEMMA ProcessCommandInv ==
  ASSUME IInv, process_command
  PROVE  IInv'
<1>1. /\ at = "pass" /\ "stdin" \in report /\ tty > 0 /\ tty' = tty - 1
      /\ report' = report \ {"stdin"} /\ quiet' = FALSE
      /\ UNCHANGED <<datagram, received_signal>> /\ noHandler /\ server' = server
  BY DEF process_command, noHandler
<1>2. ~Doomed
  BY <1>1 DEF Doomed
<1>3. /\ tty' \in 0 .. MaxTyped /\ report' \subseteq {"stdin", "server", "game"}
      /\ {datagram', received_signal', quiet'} \subseteq BOOLEAN
      /\ "stdin" \notin report'
  <2>1. MaxTyped \in Nat
    BY BoundAssumption
  <2>2. /\ tty \in 0 .. MaxTyped /\ report \subseteq {"stdin", "server", "game"}
        /\ {datagram, received_signal} \subseteq BOOLEAN
    BY Parts DEF Types
  <2>3. tty' \in 0 .. MaxTyped
    BY <1>1, <2>1, <2>2
  <2> QED BY <1>1, <2>2, <2>3
<1>4. ASSUME UNCHANGED <<toServer, toClient, crossed>>, at' = "ended", why' = "quit",
             status' = status
      PROVE  IInv'
  <2>1. Types' /\ OneWay'
    BY <1>3, <1>4, Parts, TypesStill DEF Types, Place
  <2>2. EndsWithCause'
    BY <1>4 DEF EndsWithCause
  <2> QED BY <1>1, <1>4, <2>1, <2>2, EndStep
<1>5. ASSUME UNCHANGED <<toServer, toClient, crossed, why>>,
             at' = "pass" \/ (at' = "flush" /\ status # "disconnected"),
             \/ status' = status
             \/ status' \in {"my_turn", "other"} /\ status # "disconnected"
      PROVE  IInv'
  <2>1. status' = "disconnected" <=> status = "disconnected"
    BY <1>5
  <2>2. Types'
    BY <1>3, <1>5, Parts, TypesStill DEF Types, Place
  <2>3. Statuses' /\ Reports'
    BY <1>1, <1>5, Parts DEF Statuses, Reports, Reading
  <2>4. EndsWithCause'
    BY <1>1, <1>5, CauseKept
  <2>5. Follows' => Follows /\ doing' = doing
    BY <1>1, <1>2, <1>5, <2>1 DEF Follows, doing, Reading
  <2> QED BY <1>1, <1>5, <2>2, <2>3, <2>4, <2>5, Still
<1>6. ASSUME NEW m \in Request, Asks(m), send(m), at' = wrote(m), why' = why,
             status = "disconnected", status' = status
      PROVE  IInv'
  <2>1. /\ toServer' \in Seq(Request) /\ toClient' \in Seq(Kind) /\ crossed' \in BOOLEAN
        /\ toServer' # <<>> /\ toClient' = toClient
    BY <1>6, TypesWritten
  <2>2. at' \in {"who", "connect"}
    BY <1>6, Requests DEF Asks
  <2>3. Types'
    BY <1>3, <1>6, <2>1, <2>2, Parts DEF Types, Place
  <2>4. Statuses'
    BY <1>3, <1>6, <2>2 DEF Statuses
  <2>5. crossed' = (crossed \/ toClient # <<>>)
    BY <1>6, <2>1 DEF send, cross
  <2>6. Reports'
    BY <1>1, <2>1, <2>5, Parts DEF Reports
  <2>7. EndsWithCause'
    BY <1>1, <1>6, <2>5, CauseKept
  <2>8. Follows' => Follows /\ doing' = wrote(m) /\ doing = "lobby"
    BY <1>1, <1>2, <1>6, <2>2, <2>5 DEF Follows, doing, Reading
  <2> QED BY <1>1, <1>6, <2>3, <2>4, <2>6, <2>7, <2>8, WriteStep
<1>7. CASE process_std_command
  <2>1. [type |-> "REQ_WHO"] \in Request
    BY DEF Request
  <2>2. CASE ask([type |-> "REQ_WHO"], "who")
    <3> DEFINE m == [type |-> "REQ_WHO"]
    <3>1. m \in Request /\ Asks(m) /\ wrote(m) = "who"
      BY <2>1 DEF Asks, wrote
    <3>2. ask(m, "who")
      BY <2>2
    <3> HIDE DEF m
    <3> QED BY <1>5, <1>6, <1>7, <3>1, <3>2 DEF process_std_command, ask, go, unread
  <2>3. ASSUME NEW u \in Name, ask([type |-> "REQ_PLAY", opponent |-> u], "connect")
        PROVE  IInv'
    <3> DEFINE m == [type |-> "REQ_PLAY", opponent |-> u]
    <3>1. m \in Request /\ Asks(m) /\ wrote(m) = "connect"
      BY DEF Asks, wrote, Request
    <3>2. ask(m, "connect")
      BY <2>3
    <3> HIDE DEF m
    <3> QED BY <1>5, <1>6, <1>7, <3>1, <3>2 DEF process_std_command, ask, go, unread
  <2>4. CASE unread /\ ends("quit")
    BY <1>4, <1>7, <2>4 DEF process_std_command, unread, ends
  <2> QED BY <1>7, <2>2, <2>3, <2>4 DEF process_std_command
<1>8. CASE process_game_command
  <2>1. CASE unread /\ status' = "other"
    BY <1>5, <1>8, <2>1 DEF process_game_command, unread, go
  <2>2. CASE sends_endgame(TRUE) /\ status' = "disconnected"
    <3>1. /\ at' = "pass" /\ why' = why /\ status # "disconnected"
          /\ report' \subseteq report
      BY <1>1, <1>8 DEF process_game_command, go
    <3> QED BY <1>1, <1>3, <2>2, <3>1, LeaveStep
  <2> QED BY <1>8, <2>1, <2>2 DEF process_game_command
<1>9. CASE unread /\ go("pass") /\ UNCHANGED status
  BY <1>5, <1>9 DEF unread, go
<1>10. CASE status = "other" /\ unread /\ go("flush") /\ UNCHANGED status
  BY <1>5, <1>10 DEF unread, go
<1> QED BY <1>7, <1>8, <1>9, <1>10 DEF process_command

\* A line is taken from the terminal.
LEMMA Typed ==
  ASSUME IInv, tty > 0
  PROVE  tty - 1 \in 0 .. MaxTyped
<1>1. MaxTyped \in Nat /\ tty \in 0 .. MaxTyped
  BY BoundAssumption, Parts DEF Types
<1> QED BY <1>1

\* flush_stdin() has got its line.
LEMMA FlushInv ==
  ASSUME IInv, flush_stdin
  PROVE  IInv'
<1>1. /\ at \in {"flush", "flush_placing"} /\ tty > 0 /\ tty' = tty - 1 /\ quiet' = FALSE
      /\ at' = (IF at = "flush" THEN "pass" ELSE "placing")
      /\ UNCHANGED <<toServer, toClient, crossed>> /\ noHandler
      /\ UNCHANGED <<status, datagram, report, received_signal, why>> /\ server' = server
  BY DEF flush_stdin, go, wires, noHandler
<1>2. Types'
  BY <1>1, Parts, TypesStill, Typed DEF Types, Place
<1>3. status # "disconnected"
  BY <1>1, Parts DEF Statuses
<1>4. Statuses' /\ Reports'
  BY <1>1, <1>3, Parts DEF Statuses, Reports, Reading
<1>5. EndsWithCause'
  BY <1>1, CauseKept
<1>6. Follows' => Follows /\ doing' = doing
  BY <1>1 DEF Follows, Doomed, doing, Reading
<1> QED BY <1>1, <1>2, <1>4, <1>5, <1>6, Still

\* A message of the server in the main loop, or the end of the connection.
LEMMA ServerMessageInv ==
  ASSUME IInv, get_server_message
  PROVE  IInv'
<1>1. /\ at = "pass" /\ "server" \in report /\ "stdin" \notin report
      /\ report' = report \ {"server"}
      /\ UNCHANGED <<tty, datagram, received_signal>> /\ noHandler /\ server' = server
  BY DEF get_server_message, noHandler
<1>2. ~Doomed
  BY <1>1 DEF Doomed
<1>3. /\ tty' \in 0 .. MaxTyped /\ report' \subseteq {"stdin", "server", "game"}
      /\ {datagram', received_signal'} \subseteq BOOLEAN
      /\ "stdin" \notin report' /\ "server" \notin report' /\ quiet \in BOOLEAN
      /\ why \in {"running", "signal", "quit", "closed", "invalid", "wrong"}
      /\ status \in {"disconnected", "my_turn", "other"}
  BY <1>1, Parts DEF Types
<1>4. Reports'
  BY <1>3 DEF Reports
<1>5. CASE toClient = <<>>
  <2>1. /\ at' = "ended" /\ why' = "closed" /\ UNCHANGED <<status, quiet>>
        /\ UNCHANGED <<toServer, toClient, crossed>>
    BY <1>5 DEF get_server_message, unread, ends
  <2>2. Types' /\ OneWay'
    BY <1>3, <2>1, TypesStill DEF Types, Place
  <2>3. ~crossed => server # "running"
    BY <1>1, <1>5, Parts DEF Reports
  <2>4. EndsWithCause'
    BY <1>1, <2>1, <2>3 DEF EndsWithCause
  <2> QED BY <1>1, <2>1, <2>2, <2>4, EndStep
<1>6. CASE toClient # <<>>
  <2> DEFINE k == Head(toClient)
  <2>1. /\ reads
        /\ \/ /\ k = "REQ_PLAY" /\ UNCHANGED <<status, quiet, why>>
              /\ at' = (IF status = "disconnected" THEN "asking" ELSE "pass")
           \/ /\ k = "MSG_ENDGAME" /\ at' = "pass" /\ why' = why
              /\ status' = "disconnected" /\ quiet' = FALSE
           \/ /\ k \notin {"REQ_PLAY", "MSG_ENDGAME"}
              /\ at' = "ended" /\ why' = "invalid" /\ UNCHANGED <<status, quiet>>
    BY <1>6 DEF get_server_message, go, ends
  <2>2. crossed' = crossed /\ toServer' = toServer
    BY <2>1 DEF reads
  <2>3. /\ toServer' \in Seq(Request) /\ toClient' \in Seq(Kind) /\ crossed' \in BOOLEAN
    BY <1>6, <2>1, TypesRead
  <2>4. Follows => expects(doing, k) /\ doing = (IF status = "disconnected" THEN "lobby" ELSE "game")
    <3> SUFFICES ASSUME Follows
                 PROVE  expects(doing, k) /\ doing = (IF status = "disconnected" THEN "lobby" ELSE "game")
      OBVIOUS
    <3>1. toClient \in Seq(Kind) /\ InOrder(doing, toClient)
      BY Parts DEF Types, Order
    <3>2. expects(doing, k)
      BY <1>6, <3>1, Goes
    <3> QED BY <1>1, <3>2 DEF doing, Reading
  <2> HIDE DEF k
  <2>5. Types'
    BY <1>3, <2>1, <2>3 DEF Types, Place
  <2>6. Statuses'
    BY <1>3, <2>1 DEF Statuses, Reading
  <2>7. CASE k \in {"REQ_PLAY", "MSG_ENDGAME"}
    <3>1. EndsWithCause'
      BY <1>1, <2>1, <2>2, <2>7, CauseKept
    <3>2. Follows' => Follows
      BY <1>1, <1>2, <2>2 DEF Follows
    <3>3. Follows => doing' = leads(k)
      BY <2>1, <2>4, <2>7 DEF expects, leads, doing, Reading
    <3> QED BY <1>1, <1>4, <1>6, <2>1, <2>5, <2>6, <3>1, <3>2, <3>3, ReadStep DEF k
  <2>8. CASE k \notin {"REQ_PLAY", "MSG_ENDGAME"}
    <3>1. at' = "ended" /\ why' = "invalid"
      BY <2>1, <2>8
    <3>2. ~Follows
      BY <2>4, <2>8 DEF expects
    <3>3. crossed
      BY <1>1, <1>2, <3>2 DEF Follows
    <3>4. EndsWithCause' /\ OneWay'
      BY <2>2, <3>3 DEF EndsWithCause, OneWay
    <3> QED BY <1>1, <2>5, <3>1, <3>4, EndStep
  <2> QED BY <2>7, <2>8
<1> QED BY <1>5, <1>6

\* A message of the opponent.
LEMMA OpponentMessageInv ==
  ASSUME IInv, get_opponent_message
  PROVE  IInv'
<1>1. /\ at = "pass" /\ report' = {} /\ datagram' = FALSE
      /\ UNCHANGED <<tty, received_signal>> /\ noHandler /\ server' = server
  BY DEF get_opponent_message, noHandler
<1>2. Reports'
  BY <1>1 DEF Reports
<1>3. /\ tty' \in 0 .. MaxTyped /\ {datagram', received_signal'} \subseteq BOOLEAN
  BY <1>1, Parts DEF Types
<1>4. ASSUME UNCHANGED <<toServer, toClient, crossed, why>>, at' = "pass",
             \/ UNCHANGED <<status, quiet>>
             \/ /\ quiet' = FALSE /\ status' \in {"my_turn", "other"}
                /\ status # "disconnected"
      PROVE  IInv'
  <2>1. Types'
    BY <1>1, <1>4, Parts, TypesStill DEF Types, Place
  <2>2. Statuses'
    BY <1>4 DEF Statuses, Reading
  <2>3. EndsWithCause'
    BY <1>1, <1>4, CauseKept
  <2>4. Follows' => Follows /\ doing' = doing
    BY <1>1, <1>4 DEF Follows, Doomed, doing, Reading
  <2> QED BY <1>1, <1>2, <1>4, <2>1, <2>2, <2>3, <2>4, Still
<1>5. CASE status = "disconnected"
  BY <1>4, <1>5 DEF get_opponent_message, unread, go
<1>6. CASE status # "disconnected"
  <2>1. CASE unread /\ go("pass") /\ quiet' = FALSE /\ status' \in {"my_turn", "other"}
    BY <1>4, <1>6, <2>1 DEF unread, go
  <2>2. CASE sends_endgame(FALSE) /\ go("pass") /\ quiet' = FALSE /\ status' = "disconnected"
    <3>1. at' = "pass" /\ why' = why /\ report' \subseteq report
      BY <1>1, <2>2 DEF go
    <3> QED BY <1>1, <1>3, <1>6, <2>2, <3>1, LeaveStep
  <2>3. CASE /\ sends_endgame(TRUE) /\ ends("wrong") /\ status' = "disconnected"
             /\ UNCHANGED quiet
    <3>1. at' = "ended" /\ why' = "wrong" /\ quiet' \in BOOLEAN
      BY <2>3, Parts DEF ends, Types
    <3>2. toServer' \in Seq(Request) /\ toClient' \in Seq(Kind) /\ crossed' \in BOOLEAN /\ OneWay'
      <4>1. CASE send([type |-> "MSG_ENDGAME", disconnected |-> TRUE])
        BY <4>1, EndRequest, TypesWritten
      <4>2. CASE unread
        BY <4>2, TypesStill DEF unread
      <4> QED BY <2>3, <4>1, <4>2 DEF sends_endgame
    <3>3. Types'
      BY <1>1, <1>3, <2>3, <3>1, <3>2 DEF Types, Place
    <3>4. EndsWithCause'
      BY <3>1 DEF EndsWithCause
    <3> QED BY <1>1, <3>1, <3>2, <3>3, <3>4, EndStep
  <2> QED BY <1>6, <2>1, <2>2, <2>3 DEF get_opponent_message
<1> QED BY <1>5, <1>6

---------------------------------------------------------------------------
(* Outside of the loop.                                                     *)

\* The message that a command or an answer waits for.
LEMMA BlockedReadInv ==
  ASSUME IInv, blocked_read
  PROVE  IInv'
<1>1. /\ at \in Reading /\ server_readable
      /\ UNCHANGED <<tty, datagram, report, received_signal, quiet>> /\ noHandler
      /\ server' = server
  BY DEF blocked_read, noHandler
<1>2. at \in {"who", "connect", "answer"} /\ status = "disconnected" /\ ~Doomed
  BY <1>1, Parts DEF Reading, Statuses, Doomed
<1>3. ~crossed /\ server = "running" => "server" \notin report
  BY <1>2, Parts
<1>4. CASE toClient = <<>>
  <2>1. /\ UNCHANGED <<toServer, toClient, crossed, status, why>> /\ at' = "pass"
    BY <1>4 DEF blocked_read, unread, go
  <2>2. server # "running"
    BY <1>1, <1>4 DEF server_readable
  <2>3. Types' /\ OneWay'
    BY <1>1, <2>1, Parts, TypesStill DEF Types, Place
  <2>4. Statuses' /\ Reports' /\ InOrder(doing', toClient')
    BY <1>1, <1>4, <2>1, <2>2, NothingThere DEF Statuses, Reports, Reading
  <2>5. EndsWithCause'
    BY <1>1, <2>1, CauseKept
  <2> QED BY <1>1, <2>2, <2>3, <2>4, <2>5, ClientStep
<1>5. CASE toClient # <<>>
  <2> DEFINE k == Head(toClient)
  <2>1. /\ reads /\ why' = why
        /\ IF at # "who" /\ k = "PLAY_ACCEPT"
           THEN at' = "placing" /\ status' = "other"
           ELSE at' = "pass" /\ status' = status
    BY <1>5 DEF blocked_read, go
  <2>2. crossed' = crossed /\ toServer' = toServer
    BY <2>1 DEF reads
  <2>3. toServer' \in Seq(Request) /\ toClient' \in Seq(Kind) /\ crossed' \in BOOLEAN
    BY <1>5, <2>1, TypesRead
  <2>4. Follows => expects(doing, k) /\ doing = at
    <3> SUFFICES ASSUME Follows PROVE expects(doing, k) /\ doing = at
      OBVIOUS
    <3>1. toClient \in Seq(Kind) /\ InOrder(doing, toClient)
      BY Parts DEF Types, Order
    <3>2. expects(doing, k)
      BY <1>5, <3>1, Goes
    <3> QED BY <1>1, <3>2 DEF doing
  <2> HIDE DEF k
  <2>5. Types'
    BY <1>1, <2>1, <2>3, Parts DEF Types, Place
  <2>6. Statuses'
    BY <1>2, <2>1 DEF Statuses, Reading
  <2>7. Reports'
    BY <1>1, <1>3, <2>2 DEF Reports
  <2>8. EndsWithCause'
    BY <1>1, <2>1, <2>2, CauseKept
  <2>9. Follows' => Follows
    BY <1>2, <2>2 DEF Follows
  <2>10. Follows => doing' = leads(k)
    <3> SUFFICES ASSUME Follows PROVE doing' = leads(k)
      OBVIOUS
    <3>1. k # "REQ_PLAY" /\ (at = "who" => k # "PLAY_ACCEPT")
      BY <1>2, <2>4 DEF expects, Server!PlayResponse
    <3> QED BY <1>2, <2>1, <3>1 DEF leads, doing, Reading
  <2> QED BY <1>1, <1>5, <2>1, <2>5, <2>6, <2>7, <2>8, <2>9, <2>10, ReadStep DEF k
<1> QED BY <1>4, <1>5

\* The client has been asked, and turns to what has come meanwhile.
LEMMA Turned ==
  ASSUME IInv, noHandler, UNCHANGED <<toServer, toClient, crossed>>, toClient # <<>>,
         at \in {"asking", "replying"}, at' = "answer", why' = why,
         UNCHANGED <<status, tty, datagram, report, received_signal, quiet>>
  PROVE  IInv'
<1>1. server' = server /\ status = "disconnected" /\ "stdin" \notin report
  BY Parts DEF Statuses, noHandler
<1>2. Types' /\ OneWay'
  BY Parts, TypesStill DEF Types, Place
<1>3. ~crossed /\ server = "running" => "server" \notin report
  BY Parts
<1>4. Statuses' /\ Reports'
  BY <1>1, <1>3 DEF Statuses, Reports, Reading
<1>5. EndsWithCause'
  BY <1>1, CauseKept
<1>6. ASSUME Follows'
      PROVE  /\ InOrder(doing', toClient')
             /\ server = "running" =>
                  OnlyOwn /\ Known(doing', toClient', toServer', situation)
  <2>1. Follows /\ doing = "asking" /\ doing' = "answer"
    BY <1>6 DEF Follows, Doomed, doing, Reading
  <2>2. /\ InOrder("asking", toClient) /\ toClient \in Seq(Kind)
        /\ server = "running" => OnlyOwn /\ Known("asking", toClient, toServer, situation)
    BY <2>1, Parts DEF Order, Alone, Knowledge, Types
  <2>3. toServer = <<>>
    BY <2>1, Parts DEF OneWay, Follows
  <2>4. expects("asking", Head(toClient)) => expects("answer", Head(toClient))
    BY DEF expects
  <2>5. /\ InOrder("answer", toClient)
        /\ \A t : Known("asking", toClient, <<>>, t) => Known("answer", toClient, <<>>, t)
    BY <2>2, <2>4, Instead
  <2> QED BY <2>1, <2>2, <2>3, <2>5
<1> QED BY <1>2, <1>4, <1>5, <1>6, ClientStep

\* At the prompt the server has something to say, or is gone.
LEMMA NotAnsweredInv ==
  ASSUME IInv, not_answered
  PROVE  IInv'
<1>1. /\ at = "asking" /\ server_readable
      /\ UNCHANGED <<toServer, toClient, crossed>> /\ noHandler /\ server' = server
      /\ UNCHANGED <<status, tty, datagram, report, received_signal, quiet>>
  BY DEF not_answered, unread, noHandler
<1>2. CASE toClient = <<>>
  <2>1. at' = "ended" /\ why' = "closed"
    BY <1>2 DEF not_answered, ends
  <2>2. server # "running"
    BY <1>1, <1>2 DEF server_readable
  <2>3. Types' /\ OneWay'
    BY <1>1, <2>1, Parts, TypesStill DEF Types, Place
  <2>4. EndsWithCause'
    BY <1>1, <2>1, <2>2 DEF EndsWithCause
  <2> QED BY <1>1, <2>1, <2>3, <2>4, EndStep
<1>3. CASE toClient # <<>>
  <2>1. at' = "answer" /\ why' = why
    BY <1>3 DEF not_answered, go
  <2> QED BY <1>1, <1>3, <2>1, Turned
<1> QED BY <1>2, <1>3

\* A line at the prompt.
LEMMA GetCharacterInv ==
  ASSUME IInv, get_character
  PROVE  IInv'
<1>1. /\ at = "asking" /\ tty > 0 /\ tty' = tty - 1
      /\ at' \in {"asking", "replying"}
      /\ UNCHANGED <<toServer, toClient, crossed>> /\ noHandler /\ server' = server
      /\ UNCHANGED <<status, datagram, report, received_signal, quiet, why>>
  BY DEF get_character, unread, go, noHandler
<1>2. Types'
  BY <1>1, Parts, TypesStill, Typed DEF Types, Place
<1>3. Statuses' /\ Reports'
  BY <1>1, Parts DEF Statuses, Reports, Reading
<1>4. EndsWithCause'
  BY <1>1, CauseKept
<1>5. Follows' => Follows /\ doing' = doing
  BY <1>1 DEF Follows, Doomed, doing, Reading
<1> QED BY <1>1, <1>2, <1>3, <1>4, <1>5, Still

\* The answer to an invitation.
LEMMA RepliesInv ==
  ASSUME IInv, replies
  PROVE  IInv'
<1>1. /\ at = "replying" /\ noHandler /\ server' = server
      /\ UNCHANGED <<status, tty, datagram, report, received_signal, quiet>>
  BY DEF replies, noHandler
<1>2. /\ status = "disconnected" /\ "stdin" \notin report /\ ~Doomed
      /\ ~crossed /\ server = "running" => "server" \notin report
  BY <1>1, Parts DEF Statuses, Doomed
<1>3. CASE toClient # <<>>
  <2>1. UNCHANGED <<toServer, toClient, crossed>> /\ at' = "answer" /\ why' = why
    BY <1>3 DEF replies, unread, go
  <2> QED BY <1>1, <1>3, <2>1, Turned
<1>4. ASSUME NEW accept \in BOOLEAN, toClient = <<>>,
             ask([type |-> "REQ_PLAY_ANS", accept |-> accept], "answer")
      PROVE  IInv'
  <2> DEFINE m == [type |-> "REQ_PLAY_ANS", accept |-> accept]
  <2>1. m \in Request /\ m.type = "REQ_PLAY_ANS"
    BY DEF Request
  <2>2. \/ send(m) /\ at' = "answer" /\ why' = why
        \/ /\ server # "running" /\ at' = "pass" /\ why' = why
           /\ UNCHANGED <<toServer, toClient, crossed>>
    BY <1>4 DEF ask, go, unread
  <2> HIDE DEF m
  <2>3. CASE send(m) /\ at' = "answer" /\ why' = why
    <3>1. /\ toServer' \in Seq(Request) /\ toClient' \in Seq(Kind) /\ crossed' \in BOOLEAN
      BY <2>1, <2>3, TypesWritten
    <3>2. crossed => crossed'
      BY <2>3 DEF send, cross
    <3>3. Types'
      BY <1>1, <2>3, <3>1, Parts DEF Types, Place
    <3>4. Statuses' /\ Reports'
      BY <1>1, <1>2, <2>3, <3>2 DEF Statuses, Reports, Reading
    <3>5. EndsWithCause'
      BY <1>1, <2>3, <3>2, CauseKept
    <3>6. Follows' => Follows /\ doing' = wrote(m) /\ doing = "asking"
      <4>1. wrote(m) = "answer"
        BY <2>1, Requests
      <4> QED BY <1>1, <1>2, <2>3, <3>2, <4>1 DEF Follows, doing, Reading
    <3> QED BY <1>1, <2>1, <2>3, <3>3, <3>4, <3>5, <3>6, WriteStep
  <2>4. CASE /\ server # "running" /\ at' = "pass" /\ why' = why
             /\ UNCHANGED <<toServer, toClient, crossed>>
    <3>1. Types' /\ OneWay'
      BY <1>1, <2>4, Parts, TypesStill DEF Types, Place
    <3>2. Statuses' /\ Reports' /\ InOrder(doing', toClient')
      BY <1>1, <1>4, <2>4, NothingThere DEF Statuses, Reports, Reading
    <3>3. EndsWithCause'
      BY <1>1, <2>4, CauseKept
    <3> QED BY <1>1, <2>4, <3>1, <3>2, <3>3, ClientStep
  <2> QED BY <2>2, <2>3, <2>4
<1> QED BY <1>3, <1>4 DEF replies

\* A line of the placing.
LEMMA PlaceShipsInv ==
  ASSUME IInv, place_ships
  PROVE  IInv'
<1>1. /\ at = "placing" /\ tty > 0 /\ tty' = tty - 1 /\ quiet' \in {quiet, FALSE}
      /\ at' \in {"placing", "pass"}
      /\ UNCHANGED <<toServer, toClient, crossed>> /\ noHandler /\ server' = server
      /\ UNCHANGED <<status, datagram, report, received_signal, why>>
  BY DEF place_ships, go, wires, noHandler
<1>2. Types'
  BY <1>1, Parts, TypesStill, Typed DEF Types, Place
<1>3. status # "disconnected"
  BY <1>1, Parts DEF Statuses
<1>4. Statuses' /\ Reports'
  BY <1>1, <1>3, Parts DEF Statuses, Reports, Reading
<1>5. EndsWithCause'
  BY <1>1, CauseKept
<1>6. Follows' => Follows /\ doing' = doing
  BY <1>1, <1>3 DEF Follows, Doomed, doing, Reading
<1> QED BY <1>1, <1>2, <1>4, <1>5, <1>6, Still

---------------------------------------------------------------------------
(* Signals, the user, the opponent and the time.                            *)

\* A call that blocks is interrupted.
LEMMA InterruptedInv ==
  ASSUME IInv, interrupted
  PROVE  IInv'
<1>1. /\ received_signal' = TRUE
      /\ UNCHANGED <<toServer, toClient, crossed>> /\ noHandler /\ server' = server
      /\ UNCHANGED <<status, tty, datagram, report, quiet>>
  BY DEF interrupted, wires, noHandler
<1>2. ASSUME at' = "ended", why' = "signal" PROVE IInv'
  <2>1. Types' /\ OneWay'
    BY <1>1, <1>2, Parts, TypesStill DEF Types, Place
  <2>2. EndsWithCause'
    BY <1>2 DEF EndsWithCause
  <2> QED BY <1>1, <1>2, <2>1, <2>2, EndStep
<1>3. CASE at \in Reading /\ ~server_readable /\ go("pass")
  <2>1. /\ at \in Reading /\ server = "running" /\ at' = "pass" /\ why' = why
        /\ at \in {"who", "connect", "answer"}
    BY <1>3 DEF server_readable, go, Reading
  <2>2. /\ status = "disconnected" /\ "stdin" \notin report
        /\ ~crossed => "server" \notin report
        /\ report \subseteq {"stdin", "server", "game"}
    BY <2>1, Parts DEF Statuses, Types
  <2>3. Types'
    BY <1>1, <2>1, Parts, TypesStill DEF Types, Place
  <2>4. Statuses' /\ Reports'
    BY <1>1, <2>1, <2>2 DEF Statuses, Reports, Reading
  <2>5. EndsWithCause'
    BY <1>1, <2>1, CauseKept
  <2>6. ~Follows'
    BY <1>1, <2>1, <2>2 DEF Follows, Doomed
  <2> QED BY <1>1, <2>3, <2>4, <2>5, <2>6, Still
<1>4. ASSUME \/ at = "flush" /\ at' = "pass"
             \/ at = "placing" /\ at' = "flush_placing"
             \/ at = "flush_placing" /\ at' = "placing",
             why' = why
      PROVE  IInv'
  <2>1. status # "disconnected"
    BY <1>4, Parts DEF Statuses
  <2>2. Types'
    BY <1>1, <1>4, Parts, TypesStill DEF Types, Place
  <2>3. Statuses' /\ Reports'
    BY <1>1, <1>4, <2>1, Parts DEF Statuses, Reports, Reading
  <2>4. EndsWithCause'
    BY <1>1, <1>4, CauseKept
  <2>5. Follows' => Follows /\ doing' = doing
    BY <1>1, <1>4, <2>1 DEF Follows, Doomed, doing, Reading
  <2> QED BY <1>1, <2>2, <2>3, <2>4, <2>5, Still
<1> QED BY <1>2, <1>3, <1>4 DEF interrupted, ends, go

\* What the steps of the rest have in common: the process stays where it is.
LEMMA Waits ==
  ASSUME IInv, noHandler, UNCHANGED <<toServer, toClient, crossed, at, status, report, why>>,
         tty' \in 0 .. MaxTyped, {datagram', received_signal', quiet'} \subseteq BOOLEAN,
         received_signal => received_signal'
  PROVE  IInv'
<1>1. server' = server
  BY DEF noHandler
<1>2. Types'
  BY Parts, TypesStill DEF Types
<1>3. Statuses' /\ Reports'
  BY <1>1, Parts DEF Statuses, Reports
<1>4. EndsWithCause'
  BY <1>1, CauseKept
<1>5. Follows' => Follows /\ doing' = doing
  BY DEF Follows, Doomed, doing
<1> QED BY <1>2, <1>3, <1>4, <1>5, Still

\* A signal is noted, a line typed, a datagram sent, or time passes.
LEMMA RestInv ==
  ASSUME IInv, signal \/ types \/ opponent_sends \/ time_passes
  PROVE  IInv'
<1>1. /\ tty \in 0 .. MaxTyped /\ {datagram, received_signal, quiet} \subseteq BOOLEAN
      /\ MaxTyped \in Nat
  BY BoundAssumption, Parts DEF Types
<1>2. tty < MaxTyped => tty + 1 \in 0 .. MaxTyped
  BY <1>1
<1>3. CASE signal
  BY <1>1, <1>3, Waits DEF signal, wires
<1>4. CASE types
  BY <1>1, <1>2, <1>4, Waits DEF types, wires
<1>5. CASE opponent_sends
  BY <1>1, <1>5, Waits DEF opponent_sends, wires
<1>6. CASE time_passes
  BY <1>1, <1>6, Waits DEF time_passes, wires
<1> QED BY <1>3, <1>4, <1>5, <1>6

---------------------------------------------------------------------------
(* The theorems.                                                            *)

\* Before the first step: the client alone is logged in.
LEMMA InitIInv == Init => IInv
<1> SUFFICES ASSUME Init PROVE IInv
  OBVIOUS
<1> USE DEF Init
<1>1. (CHOOSE u \in Name : TRUE) \in Name
  BY NameAssumption
<1>2. username[me] # Null /\ me \in Client
  BY <1>1, MeAssumption, NullAssumption
<1>3. Server!TypeOK
  <2>1. username \in [Client -> Name \cup {Null}]
    BY <1>1
  <2>2. /\ connected \subseteq Client /\ client_list \subseteq Client
        /\ match \in [Client -> Match \cup {Null}]
        /\ heap \in [Match -> Server!MatchRecord \cup {Null}]
        /\ logged_count \in Nat /\ sent \in Seq(Server!Message)
    BY <1>2
  <2> QED BY <2>1, <2>2 DEF Server!TypeOK
<1>4. Server!LoginTable /\ Server!OwnMatch
  BY <1>2 DEF Server!LoginTable, Server!OwnMatch, Server!logged_in
<1>5. Server!LoggedCountExact
  <2>1. Server!Cardinality({me}) = 1
    BY Assumed, Server!FS_Singleton
  <2> QED BY <2>1 DEF Server!LoggedCountExact
<1>6. Types
  <2>1. MaxTyped \in Nat
    BY BoundAssumption
  <2>2. tty \in 0 .. MaxTyped
    BY <2>1
  <2>3. <<>> \in Seq(Request) /\ <<>> \in Seq(Kind)
    OBVIOUS
  <2> QED BY <2>2, <2>3 DEF Types, Place
<1>7. Base
  BY <1>2, <1>3, <1>4, <1>5, <1>6 DEF Base, Server!Inv, Present
<1>8. Statuses /\ OneWay /\ Reports /\ EndsWithCause
  BY DEF Statuses, OneWay, Reports, EndsWithCause, Reading
<1>9. Alone
  BY DEF Alone, OnlyOwn
<1>10. doing = "lobby" /\ situation = "free"
  BY <1>2 DEF doing, situation, Reading
<1>11. Order /\ Knowledge
  BY <1>10, NothingThere DEF Order, Knowledge, Known, Agrees
<1> QED BY <1>7, <1>8, <1>9, <1>11 DEF IInv

\* Every step preserves the invariant.
LEMMA NextIInv == IInv /\ [Next]_vars => IInv'
<1> SUFFICES ASSUME IInv, [Next]_vars PROVE IInv'
  OBVIOUS
<1>1. CASE at # "ended" /\ (serve \/ others \/ elapsed \/ shutdown)
  BY <1>1, ServeInv, OthersInv, ElapsedInv, ShutdownInv
<1>2. CASE types \/ opponent_sends \/ time_passes \/ interrupted \/ signal
  BY <1>2, RestInv, InterruptedInv
<1>3. CASE client
  BY <1>3, TestSignalInv, SelectInv, SelectTimeoutInv, PassEndsInv, ProcessCommandInv,
     FlushInv, ServerMessageInv, OpponentMessageInv, BlockedReadInv, NotAnsweredInv,
     GetCharacterInv, RepliesInv, PlaceShipsInv DEF client
<1>4. CASE UNCHANGED vars
  BY <1>4 DEF vars, IInv, Base, Types, Present, Statuses, Alone, OnlyOwn, OneWay, Reports,
              Order, Knowledge, EndsWithCause, Follows, Doomed, doing, situation,
              Server!Inv, Server!TypeOK, Server!OwnMatch, Server!LoginTable,
              Server!LoggedCountExact, Server!Players, Server!logged_in
<1> QED BY <1>1, <1>2, <1>3, <1>4 DEF Next, Ended

\* The invariant holds in every reachable state: with what is on its way between
\* them, the client and the server agree on the match the client is in, until
\* their messages cross.
THEOREM Inductive == Spec => []IInv
<1>1. Init => IInv
  BY InitIInv
<1>2. IInv /\ [Next]_vars => IInv'
  BY NextIInv
<1> QED BY <1>1, <1>2, PTL DEF Spec

\* Every variable keeps its type, those of the server that serves the client among
\* them.
THEOREM TypeCorrect == Spec => []TypeOK
<1>1. IInv => TypeOK
  BY SameRest DEF IInv, Base, Server!Inv
<1> QED BY <1>1, Inductive, PTL

\* "Connection closed by the server" is what battle_client says only if it is true,
\* and an unexpected message it never gets, until messages have crossed.
THEOREM EndsWithCauseAlways == Spec => []EndsWithCause
<1>1. IInv => EndsWithCause
  BY DEF IInv
<1> QED BY <1>1, Inductive, PTL

\* What the client is blocked on is on its way, or is to come: it has a request that
\* the server will read, or the server has it in a match that waits for an answer,
\* and will be given up when PLAY_REQUEST_TIMEOUT has passed.
ReadEnds ==
  ~crossed /\ server = "running" /\ at \in Reading /\ toClient = <<>> =>
    toServer # <<>> \/ Srv!Awaiting(me)

\* A read that blocks has somebody to end it: the safety that is behind the second
\* part of ServerHeard.
THEOREM ReadEndsAlways == Spec => []ReadEnds
<1>1. IInv => ReadEnds
  <2> SUFFICES ASSUME IInv, ~crossed, server = "running", at \in Reading, toClient = <<>>,
                      toServer = <<>>
               PROVE  Server!Awaiting(me)
    BY SameRest DEF ReadEnds
  <2>1. at \in {"who", "connect", "answer"} /\ Knowledge
    BY DEF Reading, IInv
  <2>2. Follows /\ doing = at
    BY <2>1 DEF Follows, Doomed, doing
  <2>3. Agrees(at, situation)
    BY <2>1, <2>2, NothingThere DEF Knowledge, Known
  <2>4. situation = "asker"
    BY <2>1, <2>3 DEF Agrees
  <2> QED BY <2>4 DEF situation, Server!Awaiting
<1> QED BY <1>1, Inductive, PTL
=============================================================================
