----------------------------- MODULE LobbyProofs -----------------------------
(***************************************************************************)
(* Proofs about Lobby, for any clients, names, match objects and lengths of *)
(* the channels.                                                            *)
(*                                                                          *)
(* What a client reads decides where it is, wherever it was: so the place a *)
(* client comes to when it has read everything (headed) follows from the    *)
(* last message of its channel.  The invariant compares that place with     *)
(* what the server has of the client, and with what the client has written  *)
(* that the server has still to read.  The one exception is a client that   *)
(* asked for something while a message was there: its next read crosses.    *)
(*                                                                          *)
(* The definitions up to the invariant are about one client and have no     *)
(* state: place a, messages r to it and q from it, peer p, consent k, and   *)
(* at the server its situation s and the name o of its opponent.            *)
(***************************************************************************)
EXTENDS Lobby, SequenceTheorems, TLAPS

Server == INSTANCE BookRefinement

---------------------------------------------------------------------------
(* One client.                                                              *)

\* Where a client is after it has read m.
leads(m) ==
  IF m.type = "REQ_PLAY" THEN "asking"
  ELSE IF m.type = "ANS_PLAY" /\ m.response = "PLAY_ACCEPT" THEN "placing"
  ELSE IF m.type = "ANS_LOGIN" /\ m.response # "LOGIN_OK" THEN "login"
  ELSE "idle"

\* The messages a place is prepared for.
expects(a, m) ==
  \/ a = "wait_login" /\ m.type = "ANS_LOGIN"
  \/ a = "wait_who" /\ m.type = "ANS_WHO"
  \/ a \in {"wait_play", "wait_answer"} /\ m.type = "ANS_PLAY"
  \/ a = "asking" /\ m.type = "ANS_PLAY" /\ m.response # "PLAY_ACCEPT"
  \/ a = "idle" /\ m.type \in {"REQ_PLAY", "MSG_ENDGAME"}
  \/ a \in {"placing", "playing"} /\ m.type = "MSG_ENDGAME"

before(a, r, i) == IF i = 1 THEN a ELSE leads(r[i - 1])

InOrder(a, r) == \A i \in 1 .. Len(r) : expects(before(a, r, i), r[i])

headed(a, r) == IF r = <<>> THEN a ELSE leads(r[Len(r)])

Asking == {"wait_who", "wait_play"}

\* The next read crosses.
Stuck(a, r) == a \in Asking /\ r # <<>> /\ ~expects(a, r[1])

Accepted(a, r) ==
  a = "wait_answer" /\ r # <<>> /\ r[1].type = "ANS_PLAY" /\ r[1].response = "PLAY_ACCEPT"

ReadsWell(a, r, p, k) ==
  /\ a = "off" => r = <<>>
  /\ Stuck(a, r) \/ InOrder(a, r)
  /\ Accepted(a, r) => k = p

\* What is written and not read yet: an answer only to the invitation that is
\* open, and nothing after a request, before it is answered, but the end.
Stream(q, s) ==
  \A i \in 1 .. Len(q) :
    /\ q[i].type = "REQ_PLAY_ANS" /\ s # "free" => i = 1 /\ s = "invited"
    /\ q[i].type \in {"REQ_WHO", "REQ_PLAY"} =>
         \A j \in i + 1 .. Len(q) : q[j].type = "EOF"

About(m) == m.type \in {"REQ_PLAY_ANS", "MSG_ENDGAME"}

\* If the server has a match, it is a game whose end is the next it will read.
Leaving(q, s) == s # "free" => s = "game" /\ q # <<>> /\ q[1].type = "MSG_ENDGAME"

Requested(q, s, type) ==
  /\ Leaving(q, s) /\ q # <<>> /\ q[Len(q)].type = type
  /\ \A i \in 1 .. Len(q) - 1 : About(q[i])

\* Place b, with nothing left to read, fits the server's view; w is whom the
\* client then deals with.
Agrees(b, q, s, o, w, k) ==
  /\ b = "login" => q = <<>>
  /\ b = "idle" => Leaving(q, s) /\ \A i \in 1 .. Len(q) : About(q[i])
  /\ b = "asking" => s = "invited" /\ q = <<>> /\ w = o
  /\ b = "wait_answer" => /\ s = "invited" /\ w = o /\ Len(q) = 1
                          /\ q[1].type = "REQ_PLAY_ANS" /\ (q[1].accept => k = w)
  /\ b = "wait_who" => Requested(q, s, "REQ_WHO")
  /\ b = "wait_play" => \/ s = "asker" /\ q = <<>> /\ w = o
                        \/ Requested(q, s, "REQ_PLAY") /\ q[Len(q)].opponent = w
  /\ b \in {"placing", "playing"} => s = "game" /\ q = <<>> /\ w = o

whom(r, p) == IF r # <<>> /\ r[Len(r)].type = "REQ_PLAY" THEN r[Len(r)].opponent ELSE p

Known(a, r, q, s, o, p, k) ==
  /\ Stream(q, s)
  /\ a = "off" \/ Stuck(a, r) \/ Agrees(headed(a, r), q, s, o, whom(r, p), k)

\* Logins, whatever crosses: l says that the server has a name for the client, h that
\* it has the client.
Known_login(a, r, q, l, h) ==
  /\ ~h => a = "off" /\ q = <<>>
  /\ a = "off" => r = <<>>
  /\ a \notin {"off", "login", "wait_login"} => l
  /\ \A i \in 1 .. Len(q) :
       /\ q[i].type = "EOF" <=> a = "off" /\ i = Len(q)
       /\ q[i].type = "REQ_LOGIN" => i = 1 /\ ~l /\ a \in {"wait_login", "off"}
       /\ q[i].type \notin {"EOF", "REQ_LOGIN"} => l
  /\ a = "login" =>
       ~l /\ q = <<>> /\ \A i \in 1 .. Len(r) : r[i].type # "ANS_LOGIN"
  /\ a = "wait_login" =>
       \/ /\ Len(q) = 1 /\ q[1].type = "REQ_LOGIN"
          /\ \A i \in 1 .. Len(r) : r[i].type # "ANS_LOGIN"
       \/ /\ q = <<>>
          /\ \E j \in 1 .. Len(r) :
               /\ r[j].type = "ANS_LOGIN"
               /\ r[j].response = "LOGIN_OK" <=> l
               /\ \A i \in 1 .. Len(r) : r[i].type = "ANS_LOGIN" => i = j

---------------------------------------------------------------------------
(* All clients.                                                             *)

situation(c) ==
  IF match[c] = Null THEN "free"
  ELSE IF ~heap[match[c]].awaiting_reply THEN "game"
  ELSE IF c = heap[match[c]].player1 THEN "asker" ELSE "invited"

facing(c) ==
  IF match[c] = Null THEN Null
  ELSE username[IF c = heap[match[c]].player1 THEN heap[match[c]].player2
                                              ELSE heap[match[c]].player1]

Types ==
  /\ toServer \in [Client -> Seq(Request)]
  /\ toClient \in [Client -> Seq(Server!Message)]
  /\ at \in [Client -> Place]
  /\ peer \in [Client -> Name \cup {Null}]
  /\ consent \in [Client -> Name \cup {Null}]
  /\ crossed \in BOOLEAN /\ late \in BOOLEAN

Logins ==
  server = "running" =>
    \A c \in Client :
      Known_login(at[c], toClient[c], toServer[c], username[c] # Null, c \in connected)

Readings ==
  calm => \A c \in Client : ReadsWell(at[c], toClient[c], peer[c], consent[c])

Knowledge ==
  calm /\ server = "running" =>
    \A c \in Client : Known(at[c], toClient[c], toServer[c], situation(c), facing(c),
                            peer[c], consent[c])

\* Who is not connected is in no match.
Absent == \A c \in Client \ connected : match[c] = Null

Base == Types /\ Server!Inv /\ Server!MatchIntegrity /\ Absent

IInv == Base /\ Logins /\ Readings /\ Knowledge

---------------------------------------------------------------------------
(* Sequences.                                                               *)

\* One more element at the end.
LEMMA Appended ==
  ASSUME NEW S, NEW r \in Seq(S), NEW m \in S
  PROVE  /\ Append(r, m) \in Seq(S) /\ Append(r, m) # <<>>
         /\ Len(r) \in Nat /\ Len(Append(r, m)) = Len(r) + 1
         /\ Append(r, m)[Len(r) + 1] = m
         /\ \A i \in 1 .. Len(r) : Append(r, m)[i] = r[i] /\ r[i] \in S
         /\ r = <<>> <=> Len(r) = 0
  OBVIOUS

\* The first element taken away.
LEMMA Tailed ==
  ASSUME NEW S, NEW r \in Seq(S), r # <<>>
  PROVE  /\ Tail(r) \in Seq(S)
         /\ Len(r) \in Nat /\ Len(r) >= 1 /\ Len(Tail(r)) = Len(r) - 1
         /\ \A i \in 1 .. Len(r) - 1 : Tail(r)[i] = r[i + 1]
         /\ Tail(r) = <<>> <=> Len(r) = 1
         /\ Head(r) = r[1]
         /\ \A i \in 1 .. Len(r) : r[i] \in S
<1>1. Len(r) \in Nat /\ Len(r) >= 1 /\ \A i \in 1 .. Len(r) : r[i] \in S
  OBVIOUS
<1>2. /\ Tail(r) \in Seq(S) /\ Len(Tail(r)) = Len(r) - 1
      /\ \A i \in 1 .. Len(r) - 1 : Tail(r)[i] = r[i + 1]
  BY HeadTailProperties
<1>3. Tail(r) = <<>> <=> Len(Tail(r)) = 0
  BY <1>2, EmptySeq
<1>4. Head(r) = r[1]
  OBVIOUS
<1> QED BY <1>1, <1>2, <1>3, <1>4

\* Lengths and members.
LEMMA Lengths ==
  ASSUME NEW S, NEW r \in Seq(S)
  PROVE  /\ Len(r) \in Nat /\ (r = <<>> <=> Len(r) = 0)
         /\ \A i \in 1 .. Len(r) : r[i] \in S
  OBVIOUS

---------------------------------------------------------------------------
(* Reading in order.                                                        *)

\* Where a message leads.
LEMMA Led ==
  ASSUME NEW m
  PROVE  /\ leads(m) \in {"asking", "placing", "login", "idle"}
         /\ leads(m) = "asking" <=> m.type = "REQ_PLAY"
         /\ leads(m) = "placing" <=> m.type = "ANS_PLAY" /\ m.response = "PLAY_ACCEPT"
         /\ leads(m) = "login" <=> m.type = "ANS_LOGIN" /\ m.response # "LOGIN_OK"
  BY DEF leads

\* A message that comes: what was to be read before it stays so, and if its reader
\* waits for another one it is stuck.
LEMMA Delivered ==
  ASSUME NEW S, NEW r \in Seq(S), NEW m \in S, NEW a
  PROVE  /\ headed(a, Append(r, m)) = leads(m) /\ Append(r, m) # <<>>
         /\ Stuck(a, r) => Stuck(a, Append(r, m))
         /\ InOrder(a, r) /\ expects(headed(a, r), m) => InOrder(a, Append(r, m))
         /\ headed(a, r) \in Asking /\ ~expects(headed(a, r), m) =>
              Stuck(a, Append(r, m))
<1> DEFINE n == Len(r)
           t == Append(r, m)
<1>1. /\ t # <<>> /\ n \in Nat /\ Len(t) = n + 1 /\ t[n + 1] = m
      /\ \A i \in 1 .. n : t[i] = r[i]
      /\ r = <<>> <=> n = 0
  BY Appended
<1>2. headed(a, r) = IF n = 0 THEN a ELSE leads(r[n])
  BY <1>1 DEF headed
<1> HIDE DEF t, n
<1>3. headed(a, t) = leads(m)
  BY <1>1 DEF headed
<1>4. Stuck(a, r) => Stuck(a, t)
  BY <1>1 DEF Stuck
<1>5. ASSUME InOrder(a, r), expects(headed(a, r), m)
      PROVE  InOrder(a, t)
  <2> SUFFICES ASSUME NEW i \in 1 .. n + 1
               PROVE  expects(before(a, t, i), t[i])
    BY <1>1 DEF InOrder
  <2>1. CASE i = n + 1
    <3>1. before(a, t, i) = headed(a, r)
      <4>1. CASE n = 0
        BY <1>2, <2>1, <4>1 DEF before
      <4>2. CASE n # 0
        BY <1>1, <1>2, <2>1, <4>2 DEF before
      <4> QED BY <4>1, <4>2
    <3> QED BY <1>1, <1>5, <2>1, <3>1
  <2>2. CASE i # n + 1
    <3>1. i \in 1 .. n
      BY <1>1, <2>2
    <3>2. before(a, t, i) = before(a, r, i)
      BY <1>1, <3>1 DEF before
    <3>3. expects(before(a, r, i), r[i])
      BY <1>5, <3>1 DEF InOrder, n
    <3> QED BY <1>1, <3>1, <3>2, <3>3
  <2> QED BY <2>1, <2>2
<1>6. ASSUME headed(a, r) \in Asking, ~expects(headed(a, r), m)
      PROVE  Stuck(a, t)
  <2>1. n = 0
    BY <1>2, <1>6, Led DEF Asking
  <2> QED BY <1>1, <1>2, <1>6, <2>1 DEF Stuck
<1> QED BY <1>1, <1>3, <1>4, <1>5, <1>6 DEF t

\* The first message is read: the rest is to be read from there, and leads to the
\* same place.
LEMMA Taken ==
  ASSUME NEW S, NEW r \in Seq(S), r # <<>>, NEW a, InOrder(a, r)
  PROVE  /\ expects(a, r[1]) /\ InOrder(leads(r[1]), Tail(r))
         /\ headed(leads(r[1]), Tail(r)) = headed(a, r)
<1> DEFINE n == Len(r)
           t == Tail(r)
<1>1. /\ n \in Nat /\ n >= 1 /\ Len(t) = n - 1
      /\ \A i \in 1 .. n - 1 : t[i] = r[i + 1]
      /\ t = <<>> <=> n = 1
  BY Tailed
<1>2. \A i \in 1 .. n : expects(before(a, r, i), r[i])
  BY DEF InOrder
<1> HIDE DEF t, n
<1>3. expects(a, r[1])
  BY <1>1, <1>2 DEF before
<1>4. ASSUME NEW i \in 1 .. n - 1
      PROVE  expects(before(leads(r[1]), t, i), t[i])
  <2>1. i + 1 \in 1 .. n /\ i + 1 # 1 /\ (i + 1) - 1 = i
    BY <1>1
  <2>2. before(a, r, i + 1) = leads(r[i])
    BY <2>1 DEF before
  <2>3. before(leads(r[1]), t, i) = leads(r[i])
    <3>1. CASE i = 1
      BY <3>1 DEF before
    <3>2. CASE i # 1
      <4>1. i - 1 \in 1 .. n - 1 /\ (i - 1) + 1 = i
        BY <1>1, <3>2
      <4>2. t[i - 1] = r[i]
        BY <1>1, <4>1
      <4> QED BY <3>2, <4>2 DEF before
    <3> QED BY <3>1, <3>2
  <2>4. expects(before(a, r, i + 1), r[i + 1])
    BY <1>2, <2>1
  <2> QED BY <1>1, <2>2, <2>3, <2>4
<1>5. InOrder(leads(r[1]), t)
  BY <1>1, <1>4 DEF InOrder
<1>6. headed(leads(r[1]), t) = headed(a, r)
  <2>1. CASE n = 1
    BY <1>1, <2>1 DEF headed, n
  <2>2. CASE n # 1
    <3>1. n - 1 \in 1 .. n - 1 /\ (n - 1) + 1 = n
      BY <1>1, <2>2
    <3>2. t[n - 1] = r[n]
      BY <1>1, <3>1
    <3> QED BY <1>1, <2>2, <3>2 DEF headed, n
  <2> QED BY <2>1, <2>2
<1> QED BY <1>3, <1>5, <1>6 DEF t

\* The client moves to a place that is prepared for the next message as well.
LEMMA MovedOn ==
  ASSUME NEW S, NEW r \in Seq(S), NEW a, NEW b, InOrder(a, r),
         r # <<>> => expects(b, r[1])
  PROVE  InOrder(b, r) /\ (r # <<>> => headed(b, r) = headed(a, r))
<1>1. Len(r) \in Nat /\ (r = <<>> <=> Len(r) = 0)
  BY Lengths
<1>2. ASSUME NEW i \in 1 .. Len(r) PROVE expects(before(b, r, i), r[i])
  <2>1. CASE i = 1
    BY <1>1, <2>1 DEF before
  <2>2. CASE i # 1
    <3>1. before(b, r, i) = before(a, r, i)
      BY <2>2 DEF before
    <3> QED BY <3>1 DEF InOrder
  <2> QED BY <2>1, <2>2
<1> QED BY <1>2 DEF InOrder, headed

\* What the last message is, by where it finds its reader: an acceptance and an answer
\* to a login find only one who waits, with nothing before.
LEMMA LastOne ==
  ASSUME NEW S, NEW r \in Seq(S), r # <<>>, NEW a, InOrder(a, r)
  PROVE  /\ headed(a, r) \in {"asking", "placing", "login", "idle"}
         /\ headed(a, r) = "placing" => Len(r) = 1 /\ a \in {"wait_play", "wait_answer"}
         /\ headed(a, r) = "login" => Len(r) = 1 /\ a = "wait_login"
         /\ headed(a, r) = "asking" <=> r[Len(r)].type = "REQ_PLAY"
         /\ \A i \in 1 .. Len(r) : r[i].type = "ANS_LOGIN" => i = 1 /\ a = "wait_login"
<1>1. Len(r) \in Nat /\ Len(r) >= 1
  BY Lengths
<1>2. headed(a, r) = leads(r[Len(r)])
  BY DEF headed
<1>3. ASSUME NEW i \in 1 .. Len(r), i # 1
      PROVE  before(a, r, i) \in {"asking", "placing", "login", "idle"}
  BY <1>3, Led DEF before
<1>4. \A i \in 1 .. Len(r) : i = 1 => before(a, r, i) = a
  BY DEF before
<1>5. ASSUME NEW i \in 1 .. Len(r)
      PROVE  /\ r[i].type = "ANS_LOGIN" => i = 1 /\ a = "wait_login"
             /\ leads(r[i]) = "placing" => i = 1 /\ a \in {"wait_play", "wait_answer"}
  <2>1. expects(before(a, r, i), r[i])
    BY DEF InOrder
  <2>2. r[i].type = "ANS_LOGIN" => before(a, r, i) = "wait_login"
    BY <2>1 DEF expects
  <2>3. leads(r[i]) = "placing" => before(a, r, i) \in {"wait_play", "wait_answer"}
    BY <2>1, Led DEF expects
  <2> QED BY <1>3, <1>4, <2>2, <2>3
<1>6. Len(r) \in 1 .. Len(r)
  BY <1>1
<1> QED BY <1>2, <1>5, <1>6, Led

---------------------------------------------------------------------------
(* What the client does, one client at a time.  Each of these keeps the     *)
(* messages to the client readable, whatever the server is, and in step     *)
(* with the server, if it runs.                                             *)

\* After one more message that is not a request to the server or an answer.
LEMMA StreamAppended ==
  ASSUME NEW T, NEW q \in Seq(T), NEW m \in T, NEW s,
         Stream(q, s),
         \/ m.type = "EOF"
         \/ \A i \in 1 .. Len(q) : q[i].type \notin {"REQ_WHO", "REQ_PLAY"},
         m.type = "REQ_PLAY_ANS" => q = <<>> /\ s \in {"free", "invited"}
  PROVE  Stream(Append(q, m), s)
<1> DEFINE n == Len(q)
           t == Append(q, m)
<1>1. /\ n \in Nat /\ Len(t) = n + 1 /\ t[n + 1] = m
      /\ \A i \in 1 .. n : t[i] = q[i]
      /\ q = <<>> <=> n = 0
  BY Appended
<1> HIDE DEF t
<1>2. \A i \in 1 .. n :
        /\ q[i].type = "REQ_PLAY_ANS" /\ s # "free" => i = 1 /\ s = "invited"
        /\ q[i].type \in {"REQ_WHO", "REQ_PLAY"} =>
             \A j \in i + 1 .. n : q[j].type = "EOF"
  BY DEF Stream
<1> HIDE DEF n
<1>3. ASSUME NEW i \in 1 .. n + 1
      PROVE  /\ t[i].type = "REQ_PLAY_ANS" /\ s # "free" => i = 1 /\ s = "invited"
             /\ t[i].type \in {"REQ_WHO", "REQ_PLAY"} =>
                  \A j \in i + 1 .. n + 1 : t[j].type = "EOF"
  <2>1. CASE i = n + 1
    <3>1. i + 1 .. n + 1 = {}
      BY <1>1, <2>1
    <3> QED BY <1>1, <2>1, <3>1
  <2>2. CASE i # n + 1
    <3>1. i \in 1 .. n /\ t[i] = q[i]
      BY <1>1, <2>2
    <3>2. ASSUME t[i].type \in {"REQ_WHO", "REQ_PLAY"}, NEW j \in i + 1 .. n + 1
          PROVE  t[j].type = "EOF"
      <4>1. CASE j = n + 1
        <5>1. m.type = "EOF"
          BY <3>1, <3>2 DEF n
        <5> QED BY <1>1, <4>1, <5>1
      <4>2. CASE j # n + 1
        <5>1. j \in 1 .. n /\ j \in i + 1 .. n
          BY <1>1, <3>1, <4>2
        <5> QED BY <1>1, <1>2, <3>1, <3>2, <5>1
      <4> QED BY <4>1, <4>2
    <3> QED BY <1>2, <3>1, <3>2
  <2> QED BY <2>1, <2>2
<1> QED BY <1>1, <1>3 DEF Stream, t

\* A stream of which the first message is taken, when that leaves the situation or is
\* what decides it.
LEMMA StreamTailed ==
  ASSUME NEW T, NEW q \in Seq(T), q # <<>>, NEW s, NEW z, Stream(q, s),
         \/ z = s \/ z = "free"
         \/ s # "free"
         \/ q[1].type \in {"REQ_WHO", "REQ_PLAY"}
  PROVE  Stream(Tail(q), z)
<1> DEFINE n == Len(q)
           t == Tail(q)
<1>1. /\ n \in Nat /\ n >= 1 /\ Len(t) = n - 1
      /\ \A i \in 1 .. n - 1 : t[i] = q[i + 1]
  BY Tailed
<1> HIDE DEF t
<1>2. \A i \in 1 .. n :
        /\ q[i].type = "REQ_PLAY_ANS" /\ s # "free" => i = 1 /\ s = "invited"
        /\ q[i].type \in {"REQ_WHO", "REQ_PLAY"} =>
             \A j \in i + 1 .. n : q[j].type = "EOF"
  BY DEF Stream
<1> HIDE DEF n
<1>3. ASSUME NEW i \in 1 .. n - 1
      PROVE  /\ t[i].type = "REQ_PLAY_ANS" /\ z # "free" => i = 1 /\ z = "invited"
             /\ t[i].type \in {"REQ_WHO", "REQ_PLAY"} =>
                  \A j \in i + 1 .. n - 1 : t[j].type = "EOF"
  <2>1. i + 1 \in 1 .. n /\ i + 1 # 1 /\ 1 \in 1 .. n /\ i + 1 \in 1 + 1 .. n /\ t[i] = q[i + 1]
    BY <1>1
  <2>2. t[i].type = "REQ_PLAY_ANS" => s = "free"
    BY <1>2, <2>1
  <2>3. q[1].type \in {"REQ_WHO", "REQ_PLAY"} => t[i].type = "EOF"
    BY <1>2, <2>1
  <2>4. ASSUME t[i].type \in {"REQ_WHO", "REQ_PLAY"}, NEW j \in i + 1 .. n - 1
        PROVE  t[j].type = "EOF"
    <3>1. j \in 1 .. n - 1 /\ j + 1 \in (i + 1) + 1 .. n
      BY <1>1, <2>4
    <3> QED BY <1>1, <1>2, <2>1, <2>4, <3>1
  <2> QED BY <2>2, <2>3, <2>4
<1> QED BY <1>1, <1>3 DEF Stream, t

\* The places before a login: nothing is there to be read, or only its answer.
LEMMA LoggingIn ==
  ASSUME NEW S, NEW r \in Seq(S), NEW T, NEW q \in Seq(T), NEW m \in T,
         NEW s, NEW o, NEW p, NEW k,
         ReadsWell("login", r, p, k), m.type = "REQ_LOGIN"
  PROVE  /\ r = <<>> /\ ReadsWell("wait_login", r, p, k)
         /\ Known("login", r, q, s, o, p, k) =>
              Known("wait_login", r, Append(q, m), s, o, p, k)
<1>1. r = <<>>
  <2>1. InOrder("login", r)
    BY DEF ReadsWell, Stuck, Asking
  <2> SUFFICES ASSUME r # <<>> PROVE FALSE
    OBVIOUS
  <2> QED BY <2>1, Taken DEF expects
<1>2. InOrder("wait_login", r)
  BY <1>1, MovedOn DEF ReadsWell, Stuck, Asking
<1>3. ReadsWell("wait_login", r, p, k)
  BY <1>2 DEF ReadsWell, Accepted
<1>4. ASSUME Known("login", r, q, s, o, p, k)
      PROVE  Known("wait_login", r, Append(q, m), s, o, p, k)
  <2>1. q = <<>> /\ Stream(q, s)
    BY <1>1, <1>4 DEF Known, Stuck, Asking, Agrees, headed
  <2>2. \A i \in 1 .. Len(q) : q[i].type \notin {"REQ_WHO", "REQ_PLAY"}
    <3>1. 1 .. Len(q) = {}
      BY <2>1
    <3> QED BY <3>1
  <2>4. m.type # "REQ_PLAY_ANS" /\ Stream(q, s)
    BY <2>1
  <2>3. Stream(Append(q, m), s)
    BY ONLY <2>2, <2>4, StreamAppended, q \in Seq(T), m \in T
  <2> QED BY <1>1, <2>3 DEF Known, Agrees, headed
<1> QED BY <1>1, <1>3, <1>4

\* A request from the prompt: if a message is there it will be read in the wrong place.
LEMMA Requesting ==
  ASSUME NEW S, NEW r \in Seq(S), NEW T, NEW q \in Seq(T), NEW m \in T,
         NEW s, NEW o, NEW p, NEW k, NEW b, NEW x,
         ReadsWell("idle", r, p, k),
         \/ b = "wait_who" /\ m.type = "REQ_WHO" /\ x = p
         \/ b = "wait_play" /\ m.type = "REQ_PLAY" /\ x = m.opponent
  PROVE  /\ ReadsWell(b, r, x, k)
         /\ Known("idle", r, q, s, o, p, k) => Known(b, r, Append(q, m), s, o, x, k)
<1>1. InOrder("idle", r)
  BY DEF ReadsWell, Stuck, Asking
<1>2. CASE r # <<>>
  <2>1. expects("idle", r[1])
    BY <1>1, <1>2, Taken
  <2>2. Stuck(b, r)
    BY <1>2, <2>1 DEF Stuck, Asking, expects
  <2>3. ReadsWell(b, r, x, k)
    BY <2>2 DEF ReadsWell, Accepted, Stuck, Asking
  <2>4. ASSUME Known("idle", r, q, s, o, p, k)
        PROVE  Stream(Append(q, m), s)
    <3>1. Stream(q, s) /\ Agrees(headed("idle", r), q, s, o, whom(r, p), k)
      BY <2>4 DEF Known, Stuck, Asking
    <3>2. headed("idle", r) \in {"asking", "idle"}
      BY <1>1, <1>2, LastOne
    <3>3. \A i \in 1 .. Len(q) : q[i].type \notin {"REQ_WHO", "REQ_PLAY"}
      <4>1. CASE headed("idle", r) = "asking"
        <5>1. q = <<>>
          BY <3>1, <4>1 DEF Agrees
        <5>2. 1 .. Len(q) = {}
          BY <5>1
        <5> QED BY <5>2
      <4>2. CASE headed("idle", r) = "idle"
        BY <3>1, <4>2 DEF Agrees, About
      <4> QED BY <3>2, <4>1, <4>2
    <3> QED BY <3>1, <3>3, StreamAppended
  <2> QED BY <2>2, <2>3, <2>4 DEF Known
<1>3. CASE r = <<>>
  <2>1. InOrder(b, r)
    BY <1>1, <1>3, MovedOn
  <2>2. ReadsWell(b, r, x, k)
    BY <1>3, <2>1 DEF ReadsWell, Accepted
  <2>3. ASSUME Known("idle", r, q, s, o, p, k)
        PROVE  Known(b, r, Append(q, m), s, o, x, k)
    <3>1. Stream(q, s) /\ Leaving(q, s) /\ \A i \in 1 .. Len(q) : About(q[i])
      BY <1>3, <2>3 DEF Known, Stuck, Asking, Agrees, headed
    <3>2. Stream(Append(q, m), s)
      BY <3>1, StreamAppended DEF About
    <3> DEFINE n == Len(q)
               t == Append(q, m)
    <3>3. /\ t # <<>> /\ n \in Nat /\ Len(t) = n + 1 /\ t[n + 1] = m
          /\ \A i \in 1 .. n : t[i] = q[i]
          /\ q = <<>> <=> n = 0
      BY Appended
    <3>4. \A i \in 1 .. n : About(q[i])
      BY <3>1
    <3> HIDE DEF t, n
    <3>5. q # <<>> => 1 \in 1 .. n
      BY <3>3
    <3>6. Leaving(t, s)
      BY <3>1, <3>3, <3>5 DEF Leaving
    <3>7. \A i \in 1 .. Len(t) - 1 : About(t[i])
      BY <3>3, <3>4
    <3>8. Requested(t, s, m.type) /\ t[Len(t)] = m
      BY <3>3, <3>6, <3>7 DEF Requested
    <3>9. whom(r, x) = x /\ headed(b, r) = b
      BY <1>3 DEF whom, headed
    <3>10. Agrees(b, t, s, o, x, k)
      BY <3>8 DEF Agrees
    <3> QED BY <3>2, <3>9, <3>10 DEF Known, t
  <2> QED BY <2>2, <2>3
<1> QED BY <1>2, <1>3

\* The user has answered an invitation: nothing was there, and the answer is sent.
LEMMA Answering ==
  ASSUME NEW S, NEW T, NEW m \in T,
         NEW q \in Seq(T), NEW s, NEW o, NEW p, NEW k, NEW y, NEW x,
         NEW r \in Seq(S), r = <<>>,
         m.type = "REQ_PLAY_ANS", m.accept => x = p
  PROVE  /\ ReadsWell("wait_answer", r, p, x)
         /\ Known("asking", r, q, s, o, p, k) =>
              Known("wait_answer", r, Append(q, m), s, o, p, x)
<1>1. InOrder("wait_answer", r)
  <2>1. 1 .. Len(r) = {}
    OBVIOUS
  <2> QED BY <2>1 DEF InOrder
<1>2. ReadsWell("wait_answer", r, p, x)
  BY <1>1 DEF ReadsWell, Accepted
<1>3. ASSUME Known("asking", r, q, s, o, p, k)
      PROVE  Known("wait_answer", r, Append(q, m), s, o, p, x)
  <2>1. Stream(q, s) /\ s = "invited" /\ q = <<>> /\ p = o
    BY <1>3 DEF Known, Stuck, Asking, Agrees, headed, whom
  <2>2. \A i \in 1 .. Len(q) : q[i].type \notin {"REQ_WHO", "REQ_PLAY"}
    <3>1. 1 .. Len(q) = {}
      BY <2>1
    <3> QED BY <3>1
  <2>3. Stream(Append(q, m), s)
    BY ONLY <2>1, <2>2, StreamAppended, q \in Seq(T), m \in T
  <2>5. Len(q) = 0
    BY <2>1
  <2>4. Len(Append(q, m)) = 1 /\ Append(q, m)[1] = m
    BY <2>5, Appended
  <2> QED BY <2>1, <2>3, <2>4 DEF Known, Agrees, headed, whom
<1> QED BY <1>2, <1>3

\* The prompt gives up, because there is something to read: that is not an acceptance.
LEMMA GivingUp ==
  ASSUME NEW S, NEW r \in Seq(S), r # <<>>, NEW T, NEW q \in Seq(T),
         NEW s, NEW o, NEW p, NEW k, NEW x,
         ReadsWell("asking", r, p, k)
  PROVE  /\ ReadsWell("wait_answer", r, p, x)
         /\ Known("asking", r, q, s, o, p, k) => Known("wait_answer", r, q, s, o, p, x)
<1>1. InOrder("asking", r)
  BY DEF ReadsWell, Stuck, Asking
<1>2. expects("asking", r[1])
  BY <1>1, Taken
<1>3. /\ expects("wait_answer", r[1]) /\ ~Accepted("wait_answer", r)
  BY <1>2 DEF expects, Accepted
<1>4. InOrder("wait_answer", r) /\ headed("wait_answer", r) = headed("asking", r)
  BY <1>1, <1>3, MovedOn
<1>5. headed("asking", r) \in {"asking", "placing", "login", "idle"}
  BY <1>1, LastOne
<1> QED BY <1>3, <1>4, <1>5 DEF ReadsWell, Known, Stuck, Asking, Agrees

\* The ships are placed.
LEMMA Placing ==
  ASSUME NEW S, NEW r \in Seq(S), NEW T, NEW q \in Seq(T),
         NEW s, NEW o, NEW p, NEW k,
         ReadsWell("placing", r, p, k)
  PROVE  /\ ReadsWell("playing", r, p, k)
         /\ Known("placing", r, q, s, o, p, k) => Known("playing", r, q, s, o, p, k)
<1>1. InOrder("placing", r)
  BY DEF ReadsWell, Stuck, Asking
<1>2. r # <<>> => expects("placing", r[1])
  BY <1>1, Taken
<1>3. r # <<>> => expects("playing", r[1])
  BY <1>2 DEF expects
<1>4. InOrder("playing", r) /\ (r # <<>> => headed("playing", r) = headed("placing", r))
  BY <1>1, <1>3, MovedOn
<1>5. r # <<>> => headed("placing", r) \in {"asking", "placing", "login", "idle"}
  BY <1>1, LastOne
<1>6. r = <<>> => headed("placing", r) = "placing" /\ headed("playing", r) = "playing"
  BY DEF headed
<1> QED BY <1>4, <1>5, <1>6 DEF ReadsWell, Known, Stuck, Asking, Agrees, Accepted

\* The player leaves the game, and knows of no invitation.
LEMMA LeavingGame ==
  ASSUME NEW S, NEW r \in Seq(S), NEW T, NEW q \in Seq(T), NEW m \in T,
         NEW s, NEW o, NEW p, NEW k, NEW x,
         ReadsWell("playing", r, p, k), m.type = "MSG_ENDGAME",
         \A i \in 1 .. Len(r) : r[i].type # "REQ_PLAY"
  PROVE  /\ ReadsWell("idle", r, x, k)
         /\ Known("playing", r, q, s, o, p, k) => Known("idle", r, Append(q, m), s, o, x, k)
<1>1. InOrder("playing", r)
  BY DEF ReadsWell, Stuck, Asking
<1>2. r # <<>> => expects("playing", r[1])
  BY <1>1, Taken
<1>3. r # <<>> => expects("idle", r[1])
  BY <1>2 DEF expects
<1>4. InOrder("idle", r) /\ (r # <<>> => headed("idle", r) = headed("playing", r))
  BY <1>1, <1>3, MovedOn
<1>5. headed("idle", r) = "idle"
  <2>1. CASE r = <<>>
    BY <2>1 DEF headed
  <2>2. CASE r # <<>>
    <3>1. Len(r) \in 1 .. Len(r)
      BY <2>2, Lengths
    <3> QED BY <1>4, <2>2, <3>1, LastOne
  <2> QED BY <2>1, <2>2
<1>6. ReadsWell("idle", r, x, k)
  BY <1>4 DEF ReadsWell, Accepted
<1>7. ASSUME Known("playing", r, q, s, o, p, k)
      PROVE  Known("idle", r, Append(q, m), s, o, x, k)
  <2>1. Stream(q, s) /\ Agrees(headed("playing", r), q, s, o, whom(r, p), k)
    BY <1>7 DEF Known, Stuck, Asking
  <2>2. \/ s = "game" /\ q = <<>>
        \/ Leaving(q, s) /\ \A i \in 1 .. Len(q) : About(q[i])
    <3>1. CASE r = <<>>
      BY <2>1, <3>1 DEF Agrees, headed
    <3>2. CASE r # <<>>
      BY <1>4, <1>5, <2>1, <3>2 DEF Agrees
    <3> QED BY <3>1, <3>2
  <2>3. \A i \in 1 .. Len(q) : About(q[i])
    <3>1. CASE q = <<>>
      <4>1. 1 .. Len(q) = {}
        BY <3>1
      <4> QED BY <4>1
    <3>2. CASE q # <<>>
      BY <2>2, <3>2
    <3> QED BY <3>1, <3>2
  <2>4. Stream(Append(q, m), s)
    BY <2>1, <2>3, StreamAppended DEF About
  <2> DEFINE n == Len(q)
             t == Append(q, m)
  <2>5. /\ t # <<>> /\ n \in Nat /\ Len(t) = n + 1 /\ t[n + 1] = m
        /\ \A i \in 1 .. n : t[i] = q[i]
        /\ q = <<>> <=> n = 0
    BY Appended
  <2>6. \A i \in 1 .. n : About(q[i])
    BY <2>3
  <2> HIDE DEF t, n
  <2>7. \A i \in 1 .. Len(t) : About(t[i])
    BY <2>5, <2>6 DEF About
  <2>8. Leaving(t, s)
    <3>1. CASE n = 0
      BY <2>2, <2>5, <3>1 DEF Leaving
    <3>2. CASE n # 0
      <4>1. 1 \in 1 .. n
        BY <2>5, <3>2
      <4> QED BY <2>2, <2>5, <3>2, <4>1 DEF Leaving
    <3> QED BY <3>1, <3>2
  <2> QED BY <1>5, <2>4, <2>7, <2>8 DEF Known, Agrees, t
<1> QED BY <1>6, <1>7

\* The process ends.
LEMMA Ending ==
  ASSUME NEW T, NEW q \in Seq(T), NEW m \in T, NEW a, NEW r,
         NEW s, NEW o, NEW p, NEW k, NEW x, NEW y, m.type = "EOF"
  PROVE  /\ ReadsWell("off", <<>>, x, y)
         /\ Known(a, r, q, s, o, p, k) => Known("off", <<>>, Append(q, m), s, o, x, y)
<1>1. InOrder("off", <<>>)
  BY DEF InOrder
<1> QED BY <1>1, StreamAppended DEF ReadsWell, Accepted, Known

\* A message is read where it is expected.
LEMMA ReadIt ==
  ASSUME NEW S, NEW r \in Seq(S), r # <<>>, NEW T, NEW q \in Seq(T), NEW a,
         NEW s, NEW o, NEW p, NEW k, NEW x, NEW y,
         ReadsWell(a, r, p, k), ~Stuck(a, r),
         leads(r[1]) = "placing" => x = p,
         leads(r[1]) = "asking" => x = r[1].opponent
  PROVE  /\ expects(a, r[1]) /\ ReadsWell(leads(r[1]), Tail(r), x, y)
         /\ Known(a, r, q, s, o, p, k) => Known(leads(r[1]), Tail(r), q, s, o, x, y)
<1> DEFINE b == leads(r[1])
           t == Tail(r)
           n == Len(r)
<1>1. InOrder(a, r) /\ a # "off"
  BY DEF ReadsWell
<1>2. expects(a, r[1]) /\ InOrder(b, t) /\ headed(b, t) = headed(a, r)
  BY <1>1, Taken
<1>3. b \in {"asking", "placing", "login", "idle"}
  BY Led
<1>4. /\ t \in Seq(S) /\ n \in Nat /\ n >= 1 /\ Len(t) = n - 1
      /\ \A i \in 1 .. n - 1 : t[i] = r[i + 1]
      /\ t = <<>> <=> n = 1
  BY Tailed
<1>5. /\ headed(a, r) \in {"asking", "placing", "login", "idle"}
      /\ headed(a, r) = "placing" => n = 1
      /\ headed(a, r) = "asking" <=> r[n].type = "REQ_PLAY"
  BY <1>1, LastOne
<1>6. b = "asking" <=> r[1].type = "REQ_PLAY"
  BY Led
<1>10. headed(a, r) = leads(r[n])
  BY DEF headed
<1> HIDE DEF b, t, n
<1>7. ReadsWell(b, t, x, y)
  BY <1>2, <1>3 DEF ReadsWell, Accepted
<1>8. headed(a, r) \in {"asking", "placing"} => whom(t, x) = whom(r, p)
  <2>1. CASE n = 1
    BY <1>4, <1>5, <1>6, <1>10, <2>1 DEF whom, b, n
  <2>2. CASE n # 1
    <3>1. n - 1 \in 1 .. n - 1 /\ (n - 1) + 1 = n
      BY <1>4, <2>2
    <3>2. t[Len(t)] = r[n] /\ t # <<>>
      BY <1>4, <2>2, <3>1
    <3> QED BY <1>5, <2>2, <3>2 DEF whom, n
  <2> QED BY <2>1, <2>2
<1>9. ASSUME Known(a, r, q, s, o, p, k)
      PROVE  Known(b, t, q, s, o, x, y)
  <2>1. Stream(q, s) /\ Agrees(headed(a, r), q, s, o, whom(r, p), k)
    BY <1>1, <1>9 DEF Known
  <2>2. Agrees(headed(a, r), q, s, o, whom(t, x), y)
    BY <1>5, <1>8, <2>1 DEF Agrees
  <2> QED BY <1>2, <2>1, <2>2 DEF Known
<1> QED BY <1>2, <1>7, <1>9 DEF b, t


---------------------------------------------------------------------------
(* What a handler sends to one client.                                      *)

\* h[k] is the messages to c among the first k of s.
Counts(h, s, c, n) ==
  h = [k \in 0 .. n |-> IF k = 0 THEN <<>>
         ELSE IF s[k].to = c THEN Append(h[k - 1], s[k]) ELSE h[k - 1]]

\* The messages of s to c, counted from the start.
LEMMA Mailed ==
  ASSUME NEW s, NEW c, NEW n \in Nat, n = Len(s),
         NEW h, Counts(h, s, c, n)
  PROVE  \E f : /\ mail(s, c) = f[n] /\ f[0] = <<>>
                /\ \A k \in 1 .. n :
                     f[k] = IF s[k].to = c THEN Append(f[k - 1], s[k]) ELSE f[k - 1]
<1> DEFINE G(g) == [k \in 0 .. Len(s) |-> IF k = 0 THEN <<>>
                      ELSE IF s[k].to = c THEN Append(g[k - 1], s[k]) ELSE g[k - 1]]
           f == CHOOSE g : g = G(g)
<1>1. f = G(f)
  BY DEF Counts
<1>2. mail(s, c) = f[n]
  BY DEF mail
<1> HIDE DEF f
<1>3. f[0] = <<>>
  BY <1>1
<1>4. ASSUME NEW k \in 1 .. n
      PROVE  f[k] = IF s[k].to = c THEN Append(f[k - 1], s[k]) ELSE f[k - 1]
  <2>1. k \in 0 .. Len(s) /\ k # 0
    OBVIOUS
  <2> QED BY <1>1, <2>1
<1> QED BY <1>2, <1>3, <1>4

\* Nothing is sent.
LEMMA NoMail ==
  ASSUME NEW s, s = <<>>, NEW c
  PROVE  mail(s, c) = <<>>
<1>1. PICK n : n = Len(s)
  OBVIOUS
<1>2. n = 0
  BY <1>1
<1>3. PICK h : h = [k \in 0 .. 0 |-> <<>>]
  OBVIOUS
<1>4. ASSUME NEW k \in 0 .. n
      PROVE  (IF k = 0 THEN <<>>
              ELSE IF s[k].to = c THEN Append(h[k - 1], s[k]) ELSE h[k - 1]) = <<>>
  BY <1>2
<1>5. Counts(h, s, c, n)
  BY ONLY <1>2, <1>3, <1>4 DEF Counts
<1>6. n \in Nat
  BY <1>2
<1>7. PICK f : mail(s, c) = f[n] /\ f[0] = <<>>
  BY ONLY <1>1, <1>5, <1>6, Mailed
<1> QED BY <1>2, <1>7

\* One message is sent.
LEMMA OneMail ==
  ASSUME NEW x, NEW s, s = <<x>>, NEW c
  PROVE  mail(s, c) = IF x.to = c THEN <<x>> ELSE <<>>
<1>1. PICK n : n = Len(s)
  OBVIOUS
<1>2. n = 1 /\ s[1] = x
  BY <1>1
<1>3. PICK y : y = IF x.to = c THEN Append(<<>>, x) ELSE <<>>
  OBVIOUS
<1>4. PICK h : h = [k \in 0 .. 1 |-> IF k = 0 THEN <<>> ELSE y]
  OBVIOUS
<1>5. h[0] = <<>> /\ h[1] = y
  BY <1>4
<1>6. ASSUME NEW k \in 0 .. 1
      PROVE  (IF k = 0 THEN <<>> ELSE y) =
             (IF k = 0 THEN <<>>
              ELSE IF s[k].to = c THEN Append(h[k - 1], s[k]) ELSE h[k - 1])
  <2>1. CASE k = 0
    BY <2>1
  <2>2. CASE k = 1
    <3>1. h[k - 1] = <<>> /\ s[k] = x
      BY <1>2, <1>5, <2>2
    <3> QED BY <1>3, <2>2, <3>1
  <2> QED BY <2>1, <2>2
<1>7. Counts(h, s, c, n)
  BY ONLY <1>2, <1>4, <1>6 DEF Counts
<1>8. n \in Nat
  BY <1>2
<1>9. PICK f : /\ mail(s, c) = f[n] /\ f[0] = <<>>
               /\ \A k \in 1 .. n :
                    f[k] = IF s[k].to = c THEN Append(f[k - 1], s[k]) ELSE f[k - 1]
  BY ONLY <1>1, <1>7, <1>8, Mailed
<1>10. 1 \in 1 .. n /\ 1 - 1 = 0
  BY <1>2
<1>11. f[1] = IF x.to = c THEN Append(<<>>, x) ELSE <<>>
  BY <1>2, <1>9, <1>10
<1> QED BY <1>2, <1>9, <1>11

\* Two messages are sent, to two clients.
LEMMA TwoMails ==
  ASSUME NEW x, NEW y, NEW s, s = <<x, y>>, NEW c, ~(x.to = c /\ y.to = c)
  PROVE  mail(s, c) = IF x.to = c THEN <<x>> ELSE IF y.to = c THEN <<y>> ELSE <<>>
<1>1. PICK n : n = Len(s)
  OBVIOUS
<1>2. n = 2 /\ s[1] = x /\ s[2] = y
  BY <1>1
<1>3. PICK v : v = IF x.to = c THEN Append(<<>>, x) ELSE <<>>
  OBVIOUS
<1>4. PICK w : w = IF y.to = c THEN Append(v, y) ELSE v
  OBVIOUS
<1>5. PICK h : h = [k \in 0 .. 2 |-> IF k = 0 THEN <<>> ELSE IF k = 1 THEN v ELSE w]
  OBVIOUS
<1>6. h[0] = <<>> /\ h[1] = v /\ h[2] = w
  BY <1>5
<1>7. ASSUME NEW k \in 0 .. 2
      PROVE  (IF k = 0 THEN <<>> ELSE IF k = 1 THEN v ELSE w) =
             (IF k = 0 THEN <<>>
              ELSE IF s[k].to = c THEN Append(h[k - 1], s[k]) ELSE h[k - 1])
  <2>1. CASE k = 0
    BY <2>1
  <2>2. CASE k = 1
    <3>1. h[k - 1] = <<>> /\ s[k] = x
      BY <1>2, <1>6, <2>2
    <3> QED BY <1>3, <2>2, <3>1
  <2>3. CASE k = 2
    <3>1. h[k - 1] = v /\ s[k] = y
      BY <1>2, <1>6, <2>3
    <3> QED BY <1>4, <2>3, <3>1
  <2> QED BY <2>1, <2>2, <2>3
<1>8. Counts(h, s, c, n)
  BY ONLY <1>2, <1>5, <1>7 DEF Counts
<1>9. n \in Nat
  BY <1>2
<1>10. PICK f : /\ mail(s, c) = f[n] /\ f[0] = <<>>
                /\ \A k \in 1 .. n :
                     f[k] = IF s[k].to = c THEN Append(f[k - 1], s[k]) ELSE f[k - 1]
  BY ONLY <1>1, <1>8, <1>9, Mailed
<1>11. 1 \in 1 .. n /\ 2 \in 1 .. n /\ 1 - 1 = 0 /\ 2 - 1 = 1
  BY <1>2
<1>12. f[1] = v
  BY <1>2, <1>3, <1>10, <1>11
<1>13. f[2] = w
  <2>1. PICK k : k = 2
    OBVIOUS
  <2>2. k \in 1 .. n /\ k - 1 = 1 /\ s[k] = y
    BY <1>2, <2>1
  <2>3. f[k - 1] = v
    BY <1>12, <2>2
  <2>4. f[k] = IF s[k].to = c THEN Append(f[k - 1], s[k]) ELSE f[k - 1]
    BY ONLY <1>10, <2>2
  <2>5. f[k] = w
    BY ONLY <1>4, <2>2, <2>3, <2>4
  <2> QED BY <2>1, <2>5
<1>14. w = IF x.to = c THEN <<x>> ELSE IF y.to = c THEN <<y>> ELSE <<>>
  <2>1. Append(<<>>, x) = <<x>> /\ Append(<<>>, y) = <<y>>
    OBVIOUS
  <2>2. CASE x.to = c
    <3>1. v = <<x>> /\ y.to # c
      BY <1>3, <2>1, <2>2
    <3> QED BY ONLY <1>4, <2>2, <3>1
  <2>3. CASE x.to # c
    <3>1. v = <<>>
      BY ONLY <1>3, <2>3
    <3> QED BY ONLY <1>4, <2>1, <2>3, <3>1
  <2> QED BY <2>2, <2>3
<1> QED BY <1>2, <1>10, <1>13, <1>14

---------------------------------------------------------------------------
(* What the server does to one client.  m is what comes to the client, a    *)
(* process that is gone gets nothing; t is what is left of its messages.    *)

Holds(a, r, q, s, o, p, k) == ReadsWell(a, r, p, k) /\ Known(a, r, q, s, o, p, k)

\* A process that is gone.
LEMMA Gone ==
  ASSUME NEW q, NEW s, NEW o, NEW p, NEW k, Stream(q, s)
  PROVE  Holds("off", <<>>, q, s, o, p, k)
<1>1. InOrder("off", <<>>)
  BY DEF InOrder
<1> QED BY <1>1 DEF Holds, ReadsWell, Known, Accepted

\* A client the server has a name for, when it has read everything.
LEMMA Shown ==
  ASSUME NEW S, NEW r \in Seq(S), NEW T, NEW q \in Seq(T), NEW a \in Place, NEW s, NEW o,
         NEW p, NEW k,
         Holds(a, r, q, s, o, p, k), Known_login(a, r, q, TRUE, TRUE),
         a # "off", ~Stuck(a, r)
  PROVE  /\ headed(a, r) \in {"idle", "asking", "wait_answer", "wait_who", "wait_play",
                              "placing", "playing"}
         /\ Agrees(headed(a, r), q, s, o, whom(r, p), k)
         /\ Stream(q, s) /\ InOrder(a, r)
         /\ headed(a, r) \notin {"idle", "asking", "placing"} => r = <<>> /\ headed(a, r) = a
<1>1. /\ Agrees(headed(a, r), q, s, o, whom(r, p), k)
      /\ Stream(q, s) /\ InOrder(a, r)
  BY DEF Holds, ReadsWell, Known
<1>2. Len(r) \in Nat /\ (r = <<>> <=> Len(r) = 0)
  BY Lengths
<1>3. /\ a # "login"
      /\ a = "wait_login" =>
           \E j \in 1 .. Len(r) : r[j].type = "ANS_LOGIN" /\ r[j].response = "LOGIN_OK"
  <2>1. a # "login"
    BY DEF Known_login
  <2>2. CASE a = "wait_login"
    <3>1. ~(Len(q) = 1 /\ q[1].type = "REQ_LOGIN")
      BY DEF Known_login
    <3> QED BY <2>2, <3>1 DEF Known_login
  <2> QED BY <2>1, <2>2
<1>4. CASE r = <<>>
  <2>1. headed(a, r) = a /\ a # "wait_login"
    BY <1>2, <1>3, <1>4 DEF headed
  <2> QED BY <1>1, <1>3, <1>4, <2>1 DEF Place
<1>5. CASE r # <<>>
  <2>1. /\ headed(a, r) \in {"asking", "placing", "login", "idle"}
        /\ headed(a, r) = "login" => Len(r) = 1 /\ a = "wait_login"
    BY <1>1, <1>5, LastOne
  <2>2. headed(a, r) # "login"
    <3> SUFFICES ASSUME headed(a, r) = "login" PROVE FALSE
      OBVIOUS
    <3>1. Len(r) = 1 /\ a = "wait_login"
      BY <2>1
    <3>2. r[1].type = "ANS_LOGIN" /\ r[1].response = "LOGIN_OK"
      BY <1>3, <3>1
    <3>3. headed(a, r) = leads(r[1])
      BY <1>5, <3>1 DEF headed
    <3> QED BY <3>2, <3>3, Led
  <2> QED BY <1>1, <2>1, <2>2
<1> QED BY <1>4, <1>5

\* A request stands alone, and comes from a client with a name.
LEMMA Alone ==
  ASSUME NEW r, NEW T, NEW q \in Seq(T), q # <<>>, NEW a, NEW s, NEW l \in BOOLEAN,
         Stream(q, s), Known_login(a, r, q, l, TRUE)
  PROVE  /\ q[1].type \notin {"EOF", "REQ_LOGIN"} => l
         /\ q[1].type \in {"REQ_WHO", "REQ_PLAY"} /\ a # "off" => Len(q) = 1
         /\ q[1].type = "EOF" => Len(q) = 1 /\ a = "off"
         /\ q[1].type = "REQ_LOGIN" => ~l /\ a \in {"wait_login", "off"}
<1>1. Len(q) \in Nat /\ Len(q) >= 1 /\ 1 \in 1 .. Len(q)
  BY Lengths
<1>2. /\ q[1].type \notin {"EOF", "REQ_LOGIN"} => l
      /\ q[1].type = "EOF" => Len(q) = 1 /\ a = "off"
      /\ q[1].type = "REQ_LOGIN" => ~l /\ a \in {"wait_login", "off"}
  BY <1>1 DEF Known_login
<1>3. ASSUME q[1].type \in {"REQ_WHO", "REQ_PLAY"}, a # "off", Len(q) # 1
      PROVE  FALSE
  <2>0. PICK n : n = Len(q)
    OBVIOUS
  <2>4. n \in Nat /\ n >= 1 /\ n # 1
    BY <1>1, <1>3, <2>0
  <2>5. 2 \in 1 + 1 .. n /\ 2 \in 1 .. n
    BY ONLY <2>4
  <2>1. 2 \in 1 + 1 .. Len(q) /\ 2 \in 1 .. Len(q)
    BY <2>0, <2>5
  <2>2. q[2].type = "EOF"
    BY <1>1, <1>3, <2>1 DEF Stream
  <2>3. \A i \in 1 .. Len(q) : q[i].type = "EOF" => a = "off"
    BY DEF Known_login
  <2> QED BY <1>3, <2>1, <2>2, <2>3
<1> QED BY <1>2, <1>3

\* One message more cannot be an acceptance, if it is not one.
LEMMA NotAccepted ==
  ASSUME NEW S, NEW r \in Seq(S), NEW m \in S, NEW a, NEW p, NEW k,
         ReadsWell(a, r, p, k), a # "off",
         (m.type = "ANS_PLAY" /\ m.response = "PLAY_ACCEPT") /\ a = "wait_answer" /\ r = <<>>
           => k = p,
         Stuck(a, Append(r, m)) \/ InOrder(a, Append(r, m))
  PROVE  ReadsWell(a, Append(r, m), p, k)
<1> DEFINE t == Append(r, m)
<1>1. Accepted(a, t) => k = p
  <2> SUFFICES ASSUME Accepted(a, t) PROVE k = p
    OBVIOUS
  <2>1. CASE r = <<>>
    <3>1. t[1] = m
      BY <2>1
    <3> QED BY <2>1, <3>1 DEF Accepted
  <2>2. CASE r # <<>>
    <3>1. 1 \in 1 .. Len(r)
      BY <2>2, Lengths
    <3>2. t[1] = r[1]
      BY <3>1, Appended
    <3> HIDE DEF t
    <3>3. Accepted(a, r)
      BY <2>2, <3>2 DEF Accepted
    <3> QED BY <3>3 DEF ReadsWell
  <2> QED BY <2>1, <2>2
<1> QED BY <1>1 DEF ReadsWell

\* What the server sends to a client that reads what it is sent.
LEMMA Sending ==
  ASSUME NEW S, NEW r \in Seq(S), NEW m \in S, NEW q, NEW t, NEW a,
         NEW s, NEW o, NEW p, NEW k, NEW z, NEW v,
         Holds(a, r, q, s, o, p, k), a # "off", Stream(t, z),
         ~Stuck(a, r) =>
           /\ InOrder(a, r)
           /\ \/ expects(headed(a, r), m) /\ Agrees(leads(m), t, z, v, whom(Append(r, m), p), k)
              \/ headed(a, r) \in Asking /\ ~expects(headed(a, r), m)
           /\ (m.type = "ANS_PLAY" /\ m.response = "PLAY_ACCEPT") /\ a = "wait_answer" /\ r = <<>>
                => k = p
  PROVE  Holds(a, Append(r, m), t, z, v, p, k)
<1>1. ReadsWell(a, r, p, k)
  BY DEF Holds
<1>2. headed(a, Append(r, m)) = leads(m)
  BY Delivered
<1>3. Stuck(a, Append(r, m)) \/ InOrder(a, Append(r, m))
  BY Delivered
<1>4. (m.type = "ANS_PLAY" /\ m.response = "PLAY_ACCEPT") /\ a = "wait_answer" /\ r = <<>>
        => k = p
  BY DEF Stuck, Asking
<1>5. ReadsWell(a, Append(r, m), p, k)
  BY ONLY <1>1, <1>3, <1>4, NotAccepted, r \in Seq(S), m \in S, a # "off"
<1>6. Stuck(a, Append(r, m)) \/ Agrees(leads(m), t, z, v, whom(Append(r, m), p), k)
  BY Delivered
<1> QED BY <1>2, <1>5, <1>6 DEF Holds, Known

\* Whom a client deals with after it has read m.
LEMMA WhomAppended ==
  ASSUME NEW S, NEW r \in Seq(S), NEW m \in S, NEW p
  PROVE  whom(Append(r, m), p) = IF m.type = "REQ_PLAY" THEN m.opponent ELSE p
<1> DEFINE t == Append(r, m)
<1>1. t # <<>> /\ t[Len(t)] = m
  BY Appended
<1> HIDE DEF t
<1>2. whom(t, p) = IF m.type = "REQ_PLAY" THEN m.opponent ELSE p
  BY <1>1 DEF whom
<1> QED BY <1>2 DEF t

\* What is taken from a stream that says something of a match stays in order.
LEMMA AboutTailed ==
  ASSUME NEW T, NEW q \in Seq(T), q # <<>>
  PROVE  /\ (\A i \in 1 .. Len(q) : About(q[i])) => \A i \in 1 .. Len(Tail(q)) : About(Tail(q)[i])
         /\ \A s, type : Requested(q, s, type) /\ About(q[1]) /\ type \in {"REQ_WHO", "REQ_PLAY"} =>
              /\ Requested(Tail(q), "free", type)
              /\ Tail(q)[Len(Tail(q))] = q[Len(q)]
<1> DEFINE n == Len(q)
           t == Tail(q)
<1>1. /\ n \in Nat /\ n >= 1 /\ Len(t) = n - 1
      /\ \A i \in 1 .. n - 1 : t[i] = q[i + 1]
      /\ t = <<>> <=> n = 1
  BY Tailed
<1> HIDE DEF t
<1>2. ASSUME \A i \in 1 .. n : About(q[i]) PROVE \A i \in 1 .. Len(t) : About(t[i])
  <2>1. \A i \in 1 .. n - 1 : i + 1 \in 1 .. n
    BY <1>1
  <2> QED BY <1>1, <1>2, <2>1
<1>3. ASSUME NEW s, NEW type \in {"REQ_WHO", "REQ_PLAY"}, Requested(q, s, type), About(q[1])
      PROVE  Requested(t, "free", type) /\ t[Len(t)] = q[n]
  <2>1. q[n].type = type /\ \A i \in 1 .. n - 1 : About(q[i])
    BY <1>3 DEF Requested
  <2> HIDE DEF n
  <2>2. n # 1
    BY <1>3, <2>1 DEF About
  <2>3. n - 1 \in 1 .. n - 1 /\ (n - 1) + 1 = n
    BY <1>1, <2>2
  <2>4. t[n - 1] = q[n] /\ t # <<>>
    BY <1>1, <2>2, <2>3
  <2>5. ASSUME NEW i \in 1 .. (n - 1) - 1 PROVE About(t[i])
    <3>1. i \in 1 .. n - 1 /\ i + 1 \in 1 .. n - 1
      BY <1>1
    <3> QED BY <1>1, <2>1, <3>1
  <2> QED BY <1>1, <2>1, <2>4, <2>5 DEF Requested, Leaving
<1> QED BY <1>2, <1>3 DEF t, n

---------------------------------------------------------------------------
\* The end of a match that is over, or that the sender has just ended.
LEMMA Forgetting ==
  ASSUME NEW S, NEW r \in Seq(S), NEW T, NEW q \in Seq(T), q # <<>>, NEW a \in Place,
         NEW s, NEW o, NEW p, NEW k, NEW v, NEW l \in BOOLEAN,
         Holds(a, r, q, s, o, p, k), Known_login(a, r, q, l, TRUE),
         \/ q[1].type = "MSG_ENDGAME"
         \/ q[1].type = "REQ_PLAY_ANS" /\ s = "free"
  PROVE  Holds(a, r, Tail(q), "free", v, p, k)
<1>1. Stream(q, s) /\ ReadsWell(a, r, p, k)
  BY DEF Holds, Known
<1>2. Stream(Tail(q), "free")
  BY <1>1, StreamTailed
<1>3. l = TRUE
  BY <1>1, Alone
<1>4. ASSUME a # "off", ~Stuck(a, r)
      PROVE  Agrees(headed(a, r), Tail(q), "free", v, whom(r, p), k)
  <2>1. /\ headed(a, r) \in {"idle", "asking", "wait_answer", "wait_who", "wait_play",
                              "placing", "playing"}
        /\ Agrees(headed(a, r), q, s, o, whom(r, p), k)
    BY <1>3, <1>4, Shown
  <2>2. About(q[1])
    BY DEF About
  <2>3. CASE headed(a, r) = "idle"
    <3>1. \A i \in 1 .. Len(Tail(q)) : About(Tail(q)[i])
      BY <2>1, <2>3, AboutTailed DEF Agrees
    <3> QED BY <2>3, <3>1 DEF Agrees, Leaving
  <2>4. CASE headed(a, r) = "wait_who"
    <3>1. Requested(q, s, "REQ_WHO")
      BY <2>1, <2>4 DEF Agrees
    <3>2. Requested(Tail(q), "free", "REQ_WHO")
      BY <2>2, <3>1, AboutTailed
    <3> QED BY <2>4, <3>2 DEF Agrees
  <2>5. CASE headed(a, r) = "wait_play"
    <3>1. Requested(q, s, "REQ_PLAY") /\ q[Len(q)].opponent = whom(r, p)
      BY <2>1, <2>5 DEF Agrees
    <3>2. Requested(Tail(q), "free", "REQ_PLAY") /\ Tail(q)[Len(Tail(q))] = q[Len(q)]
      BY <2>2, <3>1, AboutTailed
    <3> QED BY <2>5, <3>1, <3>2 DEF Agrees
  <2>6. headed(a, r) \in {"idle", "wait_who", "wait_play"}
    BY <2>1 DEF Agrees
  <2> QED BY <2>3, <2>4, <2>5, <2>6
<1> QED BY <1>1, <1>2, <1>4 DEF Holds, Known

\* A request from a client whose messages before it are read.
LEMMA RequestSeen ==
  ASSUME NEW S, NEW r \in Seq(S), NEW T, NEW q \in Seq(T), q # <<>>, NEW a \in Place,
         NEW s, NEW o, NEW p, NEW k, NEW l \in BOOLEAN,
         Holds(a, r, q, s, o, p, k), Known_login(a, r, q, l, TRUE),
         q[1].type \in {"REQ_WHO", "REQ_PLAY"}, a # "off", ~Stuck(a, r)
  PROVE  /\ q[1].type = "REQ_WHO" => a = "wait_who"
         /\ q[1].type = "REQ_PLAY" => a = "wait_play" /\ q[1].opponent = p
         /\ InOrder(a, r) /\ r = <<>> /\ s = "free"
<1>1. Stream(q, s)
  BY DEF Holds, Known
<1>2. l = TRUE /\ Len(q) = 1
  BY <1>1, Alone
<1> DEFINE h == headed(a, r)
<1>3. /\ h \in {"idle", "asking", "wait_answer", "wait_who", "wait_play", "placing", "playing"}
      /\ Agrees(h, q, s, o, whom(r, p), k) /\ InOrder(a, r)
      /\ h \notin {"idle", "asking", "placing"} => r = <<>> /\ h = a
  BY <1>2, Shown
<1> HIDE DEF h
<1>4. h \notin {"asking", "placing", "playing"}
  BY <1>3 DEF Agrees
<1>5. h # "wait_answer"
  BY <1>3 DEF Agrees
<1>6. h # "idle"
  <2>1. 1 \in 1 .. Len(q)
    BY <1>2
  <2> QED BY <1>3, <2>1 DEF Agrees, About
<1>7. h \in {"wait_who", "wait_play"} /\ r = <<>> /\ h = a
  BY <1>3, <1>4, <1>5, <1>6
<1>8. whom(r, p) = p
  BY <1>7 DEF whom
<1>9. h = "wait_who" => Requested(q, s, "REQ_WHO")
  BY <1>3 DEF Agrees
<1>10. h = "wait_play" => Requested(q, s, "REQ_PLAY") /\ q[Len(q)].opponent = p
  BY <1>3, <1>8 DEF Agrees
<1>11. q[1] = q[Len(q)]
  BY <1>2
<1>12. s = "free"
  BY <1>7, <1>9, <1>10 DEF Requested, Leaving
<1>13. h = "wait_who" => q[1].type = "REQ_WHO"
  BY <1>9, <1>11 DEF Requested
<1>14. h = "wait_play" => q[1].type = "REQ_PLAY" /\ q[1].opponent = p
  BY <1>10, <1>11 DEF Requested
<1> QED BY <1>3, <1>7, <1>12, <1>13, <1>14

\* A request is the last the server has of a client that runs.
LEMMA NothingAfter ==
  ASSUME NEW r, NEW T, NEW q \in Seq(T), q # <<>>, NEW a, NEW s, NEW l \in BOOLEAN,
         Stream(q, s), Known_login(a, r, q, l, TRUE),
         q[1].type \in {"REQ_WHO", "REQ_PLAY"}, a # "off"
  PROVE  Tail(q) = <<>>
<1>1. Len(q) = 1
  BY Alone
<1> QED BY <1>1, Tailed

\* An answer that leaves the client's match alone.
LEMMA Replying ==
  ASSUME NEW S, NEW r \in Seq(S), NEW m \in S, NEW T, NEW q \in Seq(T), q # <<>>,
         NEW a \in Place, NEW s, NEW o, NEW p, NEW k, NEW l \in BOOLEAN,
         Holds(a, r, q, s, o, p, k), Known_login(a, r, q, l, TRUE), a # "off",
         \/ q[1].type = "REQ_LOGIN" /\ m.type = "ANS_LOGIN" /\ s = "free"
         \/ q[1].type = "REQ_WHO" /\ m.type = "ANS_WHO"
         \/ q[1].type = "REQ_PLAY" /\ m.type = "ANS_PLAY" /\ m.response # "PLAY_ACCEPT"
  PROVE  Holds(a, Append(r, m), Tail(q), s, o, p, k)
<1>1. Stream(q, s) /\ ReadsWell(a, r, p, k)
  BY DEF Holds, Known
<1>2. Stream(Tail(q), s)
  BY <1>1, StreamTailed
<1>3. CASE q[1].type = "REQ_LOGIN"
  <2>1. a = "wait_login" /\ ~l
    BY <1>1, <1>3, Alone
  <2>2. Len(q) = 1 /\ \A i \in 1 .. Len(r) : r[i].type # "ANS_LOGIN"
    <3>1. q # <<>>
      OBVIOUS
    <3> QED BY <2>1, <3>1 DEF Known_login
  <2>3. ~Stuck(a, r) /\ InOrder(a, r)
    BY <1>1, <2>1 DEF ReadsWell, Stuck, Asking
  <2>4. r = <<>>
    <3> SUFFICES ASSUME r # <<>> PROVE FALSE
      OBVIOUS
    <3>1. expects(a, r[1])
      BY <2>3, Taken
    <3>2. 1 \in 1 .. Len(r)
      BY Lengths
    <3> QED BY <2>1, <2>2, <3>1, <3>2 DEF expects
  <2>5. headed(a, r) = "wait_login" /\ expects("wait_login", m)
    BY <1>3, <2>1, <2>4 DEF headed, expects
  <2>6. Tail(q) = <<>>
    BY <2>2, Tailed
  <2>7. leads(m) \in {"login", "idle"}
    BY <1>3, Led
  <2>8. \A w : Agrees(leads(m), Tail(q), s, o, w, k)
    <3>1. 1 .. Len(Tail(q)) = {}
      BY <2>6
    <3> QED BY <1>3, <2>6, <2>7, <3>1 DEF Agrees, Leaving
  <2> QED BY <1>2, <1>3, <2>1, <2>3, <2>5, <2>8, Sending
<1>4. CASE q[1].type \in {"REQ_WHO", "REQ_PLAY"}
  <2>1. Tail(q) = <<>>
    BY <1>1, <1>4, NothingAfter
  <2>2. leads(m) = "idle" /\ ~(m.type = "ANS_PLAY" /\ m.response = "PLAY_ACCEPT")
    BY <1>4 DEF leads
  <2>3. ASSUME ~Stuck(a, r)
        PROVE  /\ InOrder(a, r) /\ expects(headed(a, r), m)
               /\ \A w : Agrees(leads(m), Tail(q), s, o, w, k)
    <3>1. /\ q[1].type = "REQ_WHO" => a = "wait_who"
          /\ q[1].type = "REQ_PLAY" => a = "wait_play"
          /\ InOrder(a, r) /\ r = <<>> /\ s = "free"
      BY <1>4, <2>3, RequestSeen, ZenonT(40)
    <3>2. headed(a, r) = a
      BY <3>1 DEF headed
    <3>3. expects(a, m)
      BY <1>4, <3>1 DEF expects
    <3>4. 1 .. Len(Tail(q)) = {}
      BY <2>1
    <3> QED BY <2>1, <2>2, <3>1, <3>2, <3>3, <3>4 DEF Agrees, Leaving
  <2> QED BY <1>2, <2>2, <2>3, Sending
<1> QED BY <1>3, <1>4

\* The request that makes a match.
LEMMA Inviting ==
  ASSUME NEW S, NEW r \in Seq(S), NEW T, NEW q \in Seq(T), q # <<>>,
         NEW a \in Place, NEW s, NEW o, NEW p, NEW k, NEW l \in BOOLEAN,
         Holds(a, r, q, s, o, p, k), Known_login(a, r, q, l, TRUE), a # "off",
         q[1].type = "REQ_PLAY"
  PROVE  Holds(a, r, Tail(q), "asker", q[1].opponent, p, k)
<1>1. Stream(q, s) /\ ReadsWell(a, r, p, k)
  BY DEF Holds, Known
<1>2. Stream(Tail(q), "asker")
  BY <1>1, StreamTailed
<1>3. Tail(q) = <<>>
  BY <1>1, NothingAfter
<1>4. ASSUME ~Stuck(a, r)
      PROVE  Agrees(headed(a, r), Tail(q), "asker", q[1].opponent, whom(r, p), k)
  <2>1. a = "wait_play" /\ q[1].opponent = p /\ r = <<>>
    BY <1>4, RequestSeen, ZenonT(40)
  <2>2. headed(a, r) = "wait_play" /\ whom(r, p) = p
    BY <2>1 DEF headed, whom
  <2> QED BY <1>3, <2>1, <2>2 DEF Agrees
<1> QED BY <1>1, <1>2, <1>4 DEF Holds, Known

---------------------------------------------------------------------------
\* The server reads the answer to an open request: the invited player learns of it.
LEMMA Deciding ==
  ASSUME NEW S, NEW r \in Seq(S), NEW m \in S, NEW T, NEW q \in Seq(T), q # <<>>,
         NEW a \in Place, NEW s, NEW o, NEW p, NEW k, NEW l \in BOOLEAN, NEW z,
         Holds(a, r, q, s, o, p, k), Known_login(a, r, q, l, TRUE), a # "off",
         q[1].type = "REQ_PLAY_ANS", s # "free", m.type = "ANS_PLAY",
         \/ m.response = "PLAY_ACCEPT" /\ q[1].accept /\ z = "game"
         \/ m.response # "PLAY_ACCEPT" /\ z = "free"
  PROVE  Holds(a, Append(r, m), Tail(q), z, o, p, k)
<1>1. Stream(q, s) /\ ReadsWell(a, r, p, k)
  BY DEF Holds, Known
<1>2. Stream(Tail(q), z)
  BY <1>1, StreamTailed
<1>3. l = TRUE
  BY <1>1, Alone
<1>4. s = "invited"
  <2>1. 1 \in 1 .. Len(q)
    BY Lengths
  <2> QED BY <1>1, <2>1 DEF Stream
<1>5. ASSUME ~Stuck(a, r)
      PROVE  /\ InOrder(a, r) /\ expects(headed(a, r), m)
             /\ Agrees(leads(m), Tail(q), z, o, whom(Append(r, m), p), k)
             /\ m.response = "PLAY_ACCEPT" => k = p
  <2> DEFINE h == headed(a, r)
  <2>1. /\ h \in {"idle", "asking", "wait_answer", "wait_who", "wait_play", "placing", "playing"}
        /\ Agrees(h, q, s, o, whom(r, p), k) /\ InOrder(a, r)
        /\ h \notin {"idle", "asking", "placing"} => r = <<>> /\ h = a
    BY <1>3, <1>5, Shown
  <2> HIDE DEF h
  <2>2. h \notin {"asking", "placing", "playing"}
    BY <2>1 DEF Agrees
  <2>3. h \notin {"idle", "wait_who"}
    BY <1>4, <2>1 DEF Agrees, Requested, Leaving
  <2>4. h # "wait_play"
    BY <1>4, <2>1 DEF Agrees, Requested, Leaving
  <2>5. h = "wait_answer" /\ r = <<>>
    BY <2>1, <2>2, <2>3, <2>4
  <2>6. whom(r, p) = p
    BY <2>5 DEF whom
  <2>7. p = o /\ Len(q) = 1 /\ (q[1].accept => k = p)
    BY <2>1, <2>5, <2>6 DEF Agrees
  <2>8. Tail(q) = <<>>
    BY <2>7, Tailed
  <2>9. whom(Append(r, m), p) = p
    BY WhomAppended
  <2>10. leads(m) = IF m.response = "PLAY_ACCEPT" THEN "placing" ELSE "idle"
    BY DEF leads
  <2>11. 1 .. Len(Tail(q)) = {}
    BY <2>8
  <2>12. Agrees(leads(m), Tail(q), z, o, whom(Append(r, m), p), k)
    <3>1. CASE m.response = "PLAY_ACCEPT"
      BY <2>7, <2>8, <2>9, <2>10, <3>1 DEF Agrees
    <3>2. CASE m.response # "PLAY_ACCEPT" /\ z = "free"
      BY <2>8, <2>10, <2>11, <3>2 DEF Agrees, Leaving
    <3> QED BY <3>1, <3>2
  <2>13. expects(h, m)
    BY <2>5 DEF expects
  <2> QED BY <2>1, <2>7, <2>12, <2>13 DEF h
<1> QED BY <1>2, <1>5, Sending

---------------------------------------------------------------------------
\* What the handling of another client's message does.

\* An invitation: the client was free, and has written nothing about a match.
LEMMA Invited ==
  ASSUME NEW S, NEW r \in Seq(S), NEW m \in S, NEW T, NEW q \in Seq(T),
         NEW a \in Place, NEW o, NEW p, NEW k, NEW l,
         Holds(a, r, q, "free", o, p, k), Known_login(a, r, q, TRUE, TRUE), a # "off",
         m.type = "REQ_PLAY", \A i \in 1 .. Len(q) : ~About(q[i])
  PROVE  Holds(a, Append(r, m), q, "invited", m.opponent, p, k)
<1>1. Stream(q, "invited")
  BY DEF Holds, Known, Stream, About
<1>2. ASSUME ~Stuck(a, r)
      PROVE  /\ InOrder(a, r)
             /\ \/ /\ expects(headed(a, r), m)
                   /\ Agrees(leads(m), q, "invited", m.opponent, whom(Append(r, m), p), k)
                \/ headed(a, r) \in Asking /\ ~expects(headed(a, r), m)
  <2> DEFINE h == headed(a, r)
  <2>1. /\ h \in {"idle", "asking", "wait_answer", "wait_who", "wait_play", "placing", "playing"}
        /\ Agrees(h, q, "free", o, whom(r, p), k) /\ InOrder(a, r)
    BY <1>2, Shown
  <2> HIDE DEF h
  <2>2. h \in {"idle", "wait_who", "wait_play"}
    BY <2>1 DEF Agrees
  <2>3. CASE h = "idle"
    <3>1. Len(q) \in Nat /\ (q = <<>> <=> Len(q) = 0)
      BY Lengths
    <3>2. Len(q) # 0 => 1 \in 1 .. Len(q)
      BY <3>1
    <3>3. q = <<>>
      BY <2>1, <2>3, <3>1, <3>2 DEF Agrees
    <3>4. leads(m) = "asking" /\ expects(h, m)
      BY <2>3 DEF leads, expects
    <3>5. whom(Append(r, m), p) = m.opponent
      BY WhomAppended
    <3>6. Agrees(leads(m), q, "invited", m.opponent, whom(Append(r, m), p), k)
      BY <3>3, <3>4, <3>5 DEF Agrees
    <3> QED BY <2>1, <3>4, <3>6 DEF h
  <2>4. CASE h \in Asking
    <3>1. ~expects(h, m)
      BY <2>4 DEF expects, Asking
    <3> QED BY <2>1, <2>4, <3>1 DEF h
  <2> QED BY <2>2, <2>3, <2>4 DEF Asking
<1> QED BY <1>1, <1>2, Sending

\* The asker learns that its request is accepted.
LEMMA AcceptedBy ==
  ASSUME NEW S, NEW r \in Seq(S), NEW m \in S, NEW T, NEW q \in Seq(T),
         NEW a \in Place, NEW o, NEW p, NEW k,
         Holds(a, r, q, "asker", o, p, k), Known_login(a, r, q, TRUE, TRUE), a # "off",
         m.type = "ANS_PLAY", m.response = "PLAY_ACCEPT"
  PROVE  Holds(a, Append(r, m), q, "game", o, p, k)
<1>1. Stream(q, "game")
  BY DEF Holds, Known, Stream
<1>2. ASSUME ~Stuck(a, r)
      PROVE  /\ InOrder(a, r) /\ expects(headed(a, r), m)
             /\ Agrees(leads(m), q, "game", o, whom(Append(r, m), p), k)
             /\ a = "wait_play"
  <2> DEFINE h == headed(a, r)
  <2>1. /\ h \in {"idle", "asking", "wait_answer", "wait_who", "wait_play", "placing", "playing"}
        /\ Agrees(h, q, "asker", o, whom(r, p), k) /\ InOrder(a, r)
        /\ h \notin {"idle", "asking", "placing"} => r = <<>> /\ h = a
    BY <1>2, Shown
  <2> HIDE DEF h
  <2>2. h = "wait_play" /\ r = <<>> /\ a = "wait_play"
    BY <2>1 DEF Agrees, Requested, Leaving
  <2>3. whom(r, p) = p
    BY <2>2 DEF whom
  <2>4. q = <<>> /\ p = o
    BY <2>1, <2>2, <2>3 DEF Agrees, Requested, Leaving
  <2>5. leads(m) = "placing" /\ expects(h, m)
    BY <2>2 DEF leads, expects
  <2>6. whom(Append(r, m), p) = p
    BY WhomAppended
  <2>7. Agrees(leads(m), q, "game", o, whom(Append(r, m), p), k)
    BY <2>4, <2>5, <2>6 DEF Agrees
  <2> QED BY <2>1, <2>2, <2>5, <2>7 DEF h
<1> QED BY <1>1, <1>2, Sending

\* An open request ends without a game, for either player.
LEMMA Dismissed ==
  ASSUME NEW S, NEW r \in Seq(S), NEW m \in S, NEW T, NEW q \in Seq(T),
         NEW a \in Place, NEW s \in {"asker", "invited"}, NEW o, NEW p, NEW k, NEW v,
         Holds(a, r, q, s, o, p, k), Known_login(a, r, q, TRUE, TRUE), a # "off",
         m.type = "ANS_PLAY", m.response # "PLAY_ACCEPT"
  PROVE  Holds(a, Append(r, m), q, "free", v, p, k)
<1>1. Stream(q, "free")
  BY DEF Holds, Known, Stream
<1>2. ASSUME ~Stuck(a, r)
      PROVE  /\ InOrder(a, r) /\ expects(headed(a, r), m)
             /\ Agrees(leads(m), q, "free", v, whom(Append(r, m), p), k)
  <2> DEFINE h == headed(a, r)
  <2>1. /\ h \in {"idle", "asking", "wait_answer", "wait_who", "wait_play", "placing", "playing"}
        /\ Agrees(h, q, s, o, whom(r, p), k) /\ InOrder(a, r)
    BY <1>2, Shown
  <2> HIDE DEF h
  <2>2. h \in {"wait_play", "asking", "wait_answer"}
    BY <2>1 DEF Agrees, Requested, Leaving
  <2>3. leads(m) = "idle" /\ expects(h, m)
    BY <2>2 DEF leads, expects
  <2>4. ~Leaving(q, s)
    BY DEF Leaving
  <2>5. \A i \in 1 .. Len(q) : About(q[i])
    <3>1. CASE h \in {"asking", "wait_play"}
      <4>1. q = <<>>
        BY <2>1, <2>4, <3>1 DEF Agrees, Requested
      <4>2. 1 .. Len(q) = {}
        BY <4>1
      <4> QED BY <4>2
    <3>2. CASE h = "wait_answer"
      <4>1. Len(q) = 1 /\ q[1].type = "REQ_PLAY_ANS"
        BY <2>1, <3>2 DEF Agrees
      <4> QED BY <4>1 DEF About
    <3> QED BY <2>2, <3>1, <3>2
  <2>6. Agrees(leads(m), q, "free", v, whom(Append(r, m), p), k)
    BY <2>3, <2>5 DEF Agrees, Leaving
  <2> QED BY <2>1, <2>3, <2>6 DEF h
<1> QED BY <1>1, <1>2, Sending

\* The other player has ended the game.
LEMMA Abandoned ==
  ASSUME NEW S, NEW r \in Seq(S), NEW m \in S, NEW T, NEW q \in Seq(T),
         NEW a \in Place, NEW o, NEW p, NEW k, NEW v,
         Holds(a, r, q, "game", o, p, k), Known_login(a, r, q, TRUE, TRUE), a # "off",
         m.type = "MSG_ENDGAME"
  PROVE  Holds(a, Append(r, m), q, "free", v, p, k)
<1>1. Stream(q, "free")
  BY DEF Holds, Known, Stream
<1>2. ASSUME ~Stuck(a, r)
      PROVE  /\ InOrder(a, r)
             /\ \/ /\ expects(headed(a, r), m)
                   /\ Agrees(leads(m), q, "free", v, whom(Append(r, m), p), k)
                \/ headed(a, r) \in Asking /\ ~expects(headed(a, r), m)
  <2> DEFINE h == headed(a, r)
  <2>1. /\ h \in {"idle", "asking", "wait_answer", "wait_who", "wait_play", "placing", "playing"}
        /\ Agrees(h, q, "game", o, whom(r, p), k) /\ InOrder(a, r)
    BY <1>2, Shown
  <2> HIDE DEF h
  <2>2. h \in {"idle", "wait_who", "wait_play", "placing", "playing"}
    BY <2>1 DEF Agrees
  <2>3. CASE h \in Asking
    <3>1. ~expects(h, m)
      BY <2>3 DEF expects, Asking
    <3> QED BY <2>1, <2>3, <3>1 DEF h
  <2>4. CASE h \in {"idle", "placing", "playing"}
    <3>1. leads(m) = "idle" /\ expects(h, m)
      BY <2>4 DEF leads, expects
    <3>2. q = <<>> \/ \A i \in 1 .. Len(q) : About(q[i])
      BY <2>1, <2>4 DEF Agrees
    <3>3. \A i \in 1 .. Len(q) : About(q[i])
      <4>1. q = <<>> => 1 .. Len(q) = {}
        OBVIOUS
      <4> QED BY <3>2, <4>1
    <3>4. Agrees(leads(m), q, "free", v, whom(Append(r, m), p), k)
      BY <3>1, <3>3 DEF Agrees, Leaving
    <3> QED BY <2>1, <3>1, <3>4 DEF h
  <2> QED BY <2>2, <2>3, <2>4 DEF Asking
<1> QED BY <1>1, <1>2, Sending

---------------------------------------------------------------------------
(* Logins, one client at a time, whatever crosses.                          *)

\* Nobody there.
LEMMA LoginNobody ==
  ASSUME NEW l
  PROVE  Known_login("off", <<>>, <<>>, l, FALSE)
<1>1. 1 .. Len(<<>>) = {}
  OBVIOUS
<1> QED BY <1>1 DEF Known_login

\* A new connection.
LEMMA LoginConnected ==
  Known_login("login", <<>>, <<>>, FALSE, TRUE)
<1>1. 1 .. Len(<<>>) = {}
  OBVIOUS
<1> QED BY <1>1 DEF Known_login

\* The name is sent.
LEMMA LoginSent ==
  ASSUME NEW r, NEW T, NEW q \in Seq(T), NEW m \in T, NEW l,
         Known_login("login", r, q, l, TRUE), m.type = "REQ_LOGIN"
  PROVE  Known_login("wait_login", r, Append(q, m), l, TRUE)
<1>1. ~l /\ q = <<>> /\ \A i \in 1 .. Len(r) : r[i].type # "ANS_LOGIN"
  BY DEF Known_login
<1>2. PICK t : t = Append(q, m)
  OBVIOUS
<1>3. Len(t) = 1 /\ t[1] = m
  BY <1>1, <1>2
<1>4. Known_login("wait_login", r, t, l, TRUE)
  BY ONLY <1>1, <1>3, m.type = "REQ_LOGIN" DEF Known_login
<1> QED BY <1>2, <1>4

Lobby_places == Place \ {"off", "login", "wait_login"}

\* A client that has logged in moves.
LEMMA LoginMoved ==
  ASSUME NEW r, NEW q, NEW l, NEW a \in Lobby_places, NEW b \in Lobby_places, NEW u,
         Known_login(a, r, q, l, TRUE)
  PROVE  Known_login(b, u, q, l, TRUE)
  BY DEF Known_login, Lobby_places, Place

\* It writes something.
LEMMA LoginWrote ==
  ASSUME NEW r, NEW T, NEW q \in Seq(T), NEW m \in T, NEW l,
         NEW a \in Lobby_places, NEW b \in Lobby_places,
         Known_login(a, r, q, l, TRUE), m.type \notin {"EOF", "REQ_LOGIN"}
  PROVE  Known_login(b, r, Append(q, m), l, TRUE)
<1>1. PICK t : t = Append(q, m)
  OBVIOUS
<1>2. PICK n : n = Len(q)
  OBVIOUS
<1>3. /\ n \in Nat /\ Len(t) = n + 1 /\ t[n + 1] = m
      /\ \A i \in 1 .. n : t[i] = q[i]
  BY <1>1, <1>2, Appended
<1>4. l /\ a \notin {"off", "login", "wait_login"} /\ b \notin {"off", "login", "wait_login"}
  BY DEF Known_login, Lobby_places
<1>5. \A i \in 1 .. n : q[i].type \notin {"EOF", "REQ_LOGIN"}
  BY <1>2, <1>4 DEF Known_login
<1>6. \A i \in 1 .. n + 1 : t[i].type \notin {"EOF", "REQ_LOGIN"}
  BY <1>3, <1>5
<1>7. Known_login(b, r, t, l, TRUE)
  BY ONLY <1>3, <1>4, <1>6 DEF Known_login
<1> QED BY <1>1, <1>7

\* Its process ends.
LEMMA LoginEnded ==
  ASSUME NEW r, NEW T, NEW q \in Seq(T), NEW m \in T, NEW l, NEW a, a # "off",
         Known_login(a, r, q, l, TRUE), m.type = "EOF"
  PROVE  Known_login("off", <<>>, Append(q, m), l, TRUE)
<1>1. PICK t : t = Append(q, m)
  OBVIOUS
<1>2. PICK n : n = Len(q)
  OBVIOUS
<1>3. /\ n \in Nat /\ Len(t) = n + 1 /\ t[n + 1] = m
      /\ \A i \in 1 .. n : t[i] = q[i]
  BY <1>1, <1>2, Appended
<1>4. \A i \in 1 .. n :
        /\ q[i].type # "EOF"
        /\ q[i].type = "REQ_LOGIN" => i = 1 /\ ~l
        /\ q[i].type # "REQ_LOGIN" => l
  BY <1>2 DEF Known_login
<1>5. ASSUME NEW i \in 1 .. n + 1
      PROVE  /\ t[i].type = "EOF" <=> i = n + 1
             /\ t[i].type = "REQ_LOGIN" => i = 1 /\ ~l
             /\ t[i].type \notin {"EOF", "REQ_LOGIN"} => l
  <2>1. CASE i = n + 1
    BY <1>3, <2>1
  <2>2. CASE i # n + 1
    <3>1. i \in 1 .. n
      BY <1>3, <2>2
    <3> QED BY <1>3, <1>4, <2>2, <3>1
  <2> QED BY <2>1, <2>2
<1>6. Known_login("off", <<>>, t, l, TRUE)
  BY ONLY <1>3, <1>5 DEF Known_login
<1> QED BY <1>1, <1>6

\* It reads the answer to its login.
LEMMA LoginRead ==
  ASSUME NEW S, NEW r \in Seq(S), r # <<>>, NEW q, NEW l \in BOOLEAN, NEW b,
         Known_login("wait_login", r, q, l, TRUE), r[1].type = "ANS_LOGIN",
         b = IF r[1].response = "LOGIN_OK" THEN "idle" ELSE "login"
  PROVE  Known_login(b, Tail(r), q, l, TRUE)
<1>1. PICK t : t = Tail(r)
  OBVIOUS
<1>2. PICK n : n = Len(r)
  OBVIOUS
<1>3. /\ n \in Nat /\ n >= 1 /\ Len(t) = n - 1 /\ 1 \in 1 .. n
      /\ \A i \in 1 .. n - 1 : t[i] = r[i + 1]
  BY <1>1, <1>2, Tailed
<1>4. PICK j \in 1 .. n :
        /\ q = <<>>
        /\ r[j].response = "LOGIN_OK" <=> l
        /\ \A i \in 1 .. n : r[i].type = "ANS_LOGIN" => i = j
  BY <1>2, <1>3 DEF Known_login
<1>5. j = 1
  BY <1>3, <1>4
<1>6. \A i \in 1 .. n - 1 : t[i].type # "ANS_LOGIN"
  <2> SUFFICES ASSUME NEW i \in 1 .. n - 1 PROVE t[i].type # "ANS_LOGIN"
    OBVIOUS
  <2>1. i + 1 \in 1 .. n /\ i + 1 # 1
    BY <1>3
  <2> QED BY <1>3, <1>4, <1>5, <2>1
<1>7. 1 .. Len(q) = {}
  BY <1>4
<1>8. (b = "idle" /\ l) \/ (b = "login" /\ ~l)
  <2>1. r[1].response = "LOGIN_OK" <=> l
    BY <1>4, <1>5
  <2>2. CASE r[1].response = "LOGIN_OK"
    BY <2>1, <2>2
  <2>3. CASE r[1].response # "LOGIN_OK"
    BY <2>1, <2>3
  <2> QED BY <2>2, <2>3
<1>9. Known_login(b, t, q, l, TRUE)
  BY <1>3, <1>4, <1>6, <1>7, <1>8 DEF Known_login
<1> QED BY <1>1, <1>9

---------------------------------------------------------------------------
\* Something comes that is no answer to a login.
LEMMA LoginSending ==
  ASSUME NEW S, NEW r \in Seq(S), NEW m \in S, NEW q, NEW l, NEW a, a # "off",
         Known_login(a, r, q, l, TRUE), m.type # "ANS_LOGIN"
  PROVE  Known_login(a, Append(r, m), q, l, TRUE)
<1>1. PICK t : t = Append(r, m)
  OBVIOUS
<1>2. PICK n : n = Len(r)
  OBVIOUS
<1>3. /\ n \in Nat /\ Len(t) = n + 1 /\ t[n + 1] = m
      /\ \A i \in 1 .. n : t[i] = r[i]
  BY <1>1, <1>2, Appended
<1>4. ASSUME \A i \in 1 .. n : r[i].type # "ANS_LOGIN"
      PROVE  \A i \in 1 .. n + 1 : t[i].type # "ANS_LOGIN"
  BY <1>3, <1>4
<1>5. ASSUME NEW j \in 1 .. n, r[j].type = "ANS_LOGIN", r[j].response = "LOGIN_OK" <=> l,
             \A i \in 1 .. n : r[i].type = "ANS_LOGIN" => i = j
      PROVE  /\ j \in 1 .. n + 1 /\ t[j].type = "ANS_LOGIN" /\ (t[j].response = "LOGIN_OK" <=> l)
             /\ \A i \in 1 .. n + 1 : t[i].type = "ANS_LOGIN" => i = j
  BY <1>3, <1>5
<1>6. /\ a \notin {"off", "login", "wait_login"} => l
      /\ \A i \in 1 .. Len(q) :
           /\ q[i].type = "EOF" <=> a = "off" /\ i = Len(q)
           /\ q[i].type = "REQ_LOGIN" => i = 1 /\ ~l /\ a \in {"wait_login", "off"}
           /\ q[i].type \notin {"EOF", "REQ_LOGIN"} => l
      /\ a = "login" => ~l /\ q = <<>> /\ \A i \in 1 .. n : r[i].type # "ANS_LOGIN"
  BY <1>2 DEF Known_login
<1>7. a = "wait_login" =>
        \/ /\ Len(q) = 1 /\ q[1].type = "REQ_LOGIN"
           /\ \A i \in 1 .. n : r[i].type # "ANS_LOGIN"
        \/ /\ q = <<>>
           /\ \E j \in 1 .. n :
                /\ r[j].type = "ANS_LOGIN"
                /\ r[j].response = "LOGIN_OK" <=> l
                /\ \A i \in 1 .. n : r[i].type = "ANS_LOGIN" => i = j
  BY <1>2 DEF Known_login
<1>8. a = "wait_login" =>
        \/ /\ Len(q) = 1 /\ q[1].type = "REQ_LOGIN"
           /\ \A i \in 1 .. n + 1 : t[i].type # "ANS_LOGIN"
        \/ /\ q = <<>>
           /\ \E j \in 1 .. n + 1 :
                /\ t[j].type = "ANS_LOGIN"
                /\ t[j].response = "LOGIN_OK" <=> l
                /\ \A i \in 1 .. n + 1 : t[i].type = "ANS_LOGIN" => i = j
  BY ONLY <1>4, <1>5, <1>7
<1>9. a = "login" => ~l /\ q = <<>> /\ \A i \in 1 .. n + 1 : t[i].type # "ANS_LOGIN"
  BY ONLY <1>4, <1>6
<1>10. Known_login(a, t, q, l, TRUE)
  BY ONLY <1>3, <1>6, <1>8, <1>9, a # "off" DEF Known_login
<1> QED BY <1>1, <1>10

\* The server takes a message that is neither a login nor the end.
LEMMA LoginTaken ==
  ASSUME NEW r, NEW T, NEW q \in Seq(T), q # <<>>, NEW l, NEW a,
         Known_login(a, r, q, l, TRUE), q[1].type \notin {"EOF", "REQ_LOGIN"}
  PROVE  Known_login(a, r, Tail(q), l, TRUE)
<1>1. PICK t : t = Tail(q)
  OBVIOUS
<1>2. PICK n : n = Len(q)
  OBVIOUS
<1>3. /\ n \in Nat /\ n >= 1 /\ Len(t) = n - 1 /\ 1 \in 1 .. n
      /\ \A i \in 1 .. n - 1 : t[i] = q[i + 1]
  BY <1>1, <1>2, Tailed
<1>4. /\ l /\ a \notin {"login", "wait_login"} /\ (a = "off" => r = <<>>)
      /\ \A i \in 1 .. n : /\ q[i].type = "EOF" <=> a = "off" /\ i = n
                           /\ q[i].type = "REQ_LOGIN" => i = 1
  BY <1>2, <1>3 DEF Known_login
<1>5. \A i \in 1 .. n - 1 : /\ t[i].type = "EOF" <=> a = "off" /\ i = n - 1
                            /\ t[i].type # "REQ_LOGIN"
  <2> SUFFICES ASSUME NEW i \in 1 .. n - 1
               PROVE  /\ t[i].type = "EOF" <=> a = "off" /\ i = n - 1
                      /\ t[i].type # "REQ_LOGIN"
    OBVIOUS
  <2>1. i + 1 \in 1 .. n /\ i + 1 # 1 /\ (i + 1 = n <=> i = n - 1)
    BY <1>3
  <2> QED BY <1>3, <1>4, <2>1
<1>6. Known_login(a, r, t, l, TRUE)
  BY ONLY <1>3, <1>4, <1>5 DEF Known_login
<1> QED BY <1>1, <1>6

\* The server takes the login, and the answer goes out if its reader is there.
LEMMA LoginAnswered ==
  ASSUME NEW S, NEW r \in Seq(S), NEW m \in S, NEW T, NEW q \in Seq(T), q # <<>>,
         NEW l \in BOOLEAN, NEW a, NEW g \in BOOLEAN,
         Known_login(a, r, q, l, TRUE), q[1].type = "REQ_LOGIN",
         m.type = "ANS_LOGIN", m.response = "LOGIN_OK" <=> g
  PROVE  Known_login(a, IF a = "off" THEN <<>> ELSE Append(r, m), Tail(q), g, TRUE)
<1>1. PICK t : t = Tail(q)
  OBVIOUS
<1>2. PICK n : n = Len(q)
  OBVIOUS
<1>3. /\ n \in Nat /\ n >= 1 /\ Len(t) = n - 1 /\ 1 \in 1 .. n
      /\ \A i \in 1 .. n - 1 : t[i] = q[i + 1]
      /\ t = <<>> <=> n = 1
  BY <1>1, <1>2, Tailed
<1>4. /\ ~l /\ a \in {"wait_login", "off"} /\ (a = "off" => r = <<>>)
      /\ \A i \in 1 .. n : /\ q[i].type = "EOF" <=> a = "off" /\ i = n
                           /\ q[i].type = "REQ_LOGIN" => i = 1
                           /\ q[i].type \in {"EOF", "REQ_LOGIN"}
  BY <1>2, <1>3 DEF Known_login
<1>5. \A i \in 1 .. n - 1 : /\ t[i].type = "EOF" <=> a = "off" /\ i = n - 1
                            /\ t[i].type # "REQ_LOGIN"
                            /\ t[i].type = "EOF"
  <2> SUFFICES ASSUME NEW i \in 1 .. n - 1
               PROVE  /\ t[i].type = "EOF" <=> a = "off" /\ i = n - 1
                      /\ t[i].type # "REQ_LOGIN"
                      /\ t[i].type = "EOF"
    OBVIOUS
  <2>1. i + 1 \in 1 .. n /\ i + 1 # 1 /\ (i + 1 = n <=> i = n - 1)
    BY <1>3
  <2> QED BY <1>3, <1>4, <2>1
<1>6. CASE a = "off"
  <2>1. Known_login(a, <<>>, t, g, TRUE)
    BY ONLY <1>3, <1>5, <1>6 DEF Known_login
  <2> QED BY <1>1, <1>6, <2>1
<1>7. CASE a = "wait_login"
  <2>1. PICK v : v = Append(r, m)
    OBVIOUS
  <2>2. PICK k : k = Len(r)
    OBVIOUS
  <2>3. /\ k \in Nat /\ Len(v) = k + 1 /\ v[k + 1] = m
        /\ \A i \in 1 .. k : v[i] = r[i]
    BY <2>1, <2>2, Appended
  <2>4. n = 1 /\ \A i \in 1 .. k : r[i].type # "ANS_LOGIN"
    BY <1>2, <1>7, <2>2 DEF Known_login
  <2>5. t = <<>> /\ 1 .. Len(t) = {}
    BY <1>3, <2>4
  <2>6. /\ k + 1 \in 1 .. k + 1 /\ v[k + 1].type = "ANS_LOGIN"
        /\ v[k + 1].response = "LOGIN_OK" <=> g
        /\ \A i \in 1 .. k + 1 : v[i].type = "ANS_LOGIN" => i = k + 1
    BY <2>3, <2>4
  <2>7. Known_login(a, v, t, g, TRUE)
    BY ONLY <1>7, <2>3, <2>5, <2>6 DEF Known_login
  <2> QED BY <1>1, <1>7, <2>1, <2>7
<1> QED BY <1>4, <1>6, <1>7

---------------------------------------------------------------------------
(* The same for a process that is gone, to which nothing is delivered.      *)

arrives(a, r, m) == IF a = "off" THEN <<>> ELSE Append(r, m)

\* Between the two.
LEMMA OffOrOn ==
  ASSUME NEW a, NEW r, NEW m, NEW t, NEW z, NEW v, NEW p, NEW k,
         Stream(t, z), a # "off" => Holds(a, Append(r, m), t, z, v, p, k)
  PROVE  Holds(a, arrives(a, r, m), t, z, v, p, k)
<1>1. CASE a = "off"
  BY <1>1, Gone DEF arrives
<1>2. CASE a # "off"
  BY <1>2 DEF arrives
<1> QED BY <1>1, <1>2

\* A situation that allows more.
LEMMA StreamEased ==
  ASSUME NEW T, NEW q \in Seq(T), NEW s, NEW z, Stream(q, s),
         \/ z = "free" \/ s = "asker"
         \/ \A i \in 1 .. Len(q) : ~About(q[i])
  PROVE  Stream(q, z)
  BY DEF Stream, About

\* An invitation.
LEMMA Called ==
  ASSUME NEW S, NEW r \in Seq(S), NEW m \in S, NEW T, NEW q \in Seq(T),
         NEW a \in Place, NEW o, NEW p, NEW k,
         Holds(a, r, q, "free", o, p, k), Known_login(a, r, q, TRUE, TRUE),
         m.type = "REQ_PLAY", \A i \in 1 .. Len(q) : ~About(q[i])
  PROVE  Holds(a, arrives(a, r, m), q, "invited", m.opponent, p, k)
<1>1. Stream(q, "free")
  BY DEF Holds, Known
<1>2. Stream(q, "invited")
  BY ONLY <1>1, StreamEased, q \in Seq(T), \A i \in 1 .. Len(q) : ~About(q[i])
<1>3. ASSUME a # "off"
      PROVE  Holds(a, Append(r, m), q, "invited", m.opponent, p, k)
  BY <1>3, Invited
<1> QED BY ONLY <1>2, <1>3, OffOrOn

\* Its acceptance, for who asked.
LEMMA Joined ==
  ASSUME NEW S, NEW r \in Seq(S), NEW m \in S, NEW T, NEW q \in Seq(T),
         NEW a \in Place, NEW o, NEW p, NEW k,
         Holds(a, r, q, "asker", o, p, k), Known_login(a, r, q, TRUE, TRUE),
         m.type = "ANS_PLAY", m.response = "PLAY_ACCEPT"
  PROVE  Holds(a, arrives(a, r, m), q, "game", o, p, k)
<1>1. Stream(q, "asker")
  BY DEF Holds, Known
<1>2. Stream(q, "game")
  BY ONLY <1>1, StreamEased, q \in Seq(T)
<1>3. ASSUME a # "off"
      PROVE  Holds(a, Append(r, m), q, "game", o, p, k)
  BY <1>3, AcceptedBy
<1> QED BY ONLY <1>2, <1>3, OffOrOn

\* The end of an open request.
LEMMA LetGo ==
  ASSUME NEW S, NEW r \in Seq(S), NEW m \in S, NEW T, NEW q \in Seq(T),
         NEW a \in Place, NEW s \in {"asker", "invited"}, NEW o, NEW p, NEW k, NEW v,
         Holds(a, r, q, s, o, p, k), Known_login(a, r, q, TRUE, TRUE),
         m.type = "ANS_PLAY", m.response # "PLAY_ACCEPT"
  PROVE  Holds(a, arrives(a, r, m), q, "free", v, p, k)
<1>1. Stream(q, s)
  BY DEF Holds, Known
<1>2. Stream(q, "free")
  BY ONLY <1>1, StreamEased, q \in Seq(T)
<1>3. ASSUME a # "off"
      PROVE  Holds(a, Append(r, m), q, "free", v, p, k)
  BY <1>3, Dismissed
<1> QED BY ONLY <1>2, <1>3, OffOrOn

\* The end of a game.
LEMMA LeftAlone ==
  ASSUME NEW S, NEW r \in Seq(S), NEW m \in S, NEW T, NEW q \in Seq(T),
         NEW a \in Place, NEW o, NEW p, NEW k, NEW v,
         Holds(a, r, q, "game", o, p, k), Known_login(a, r, q, TRUE, TRUE),
         m.type = "MSG_ENDGAME"
  PROVE  Holds(a, arrives(a, r, m), q, "free", v, p, k)
<1>1. Stream(q, "game")
  BY DEF Holds, Known
<1>2. Stream(q, "free")
  BY ONLY <1>1, StreamEased, q \in Seq(T)
<1>3. ASSUME a # "off"
      PROVE  Holds(a, Append(r, m), q, "free", v, p, k)
  BY <1>3, Abandoned
<1> QED BY ONLY <1>2, <1>3, OffOrOn

\* An answer that leaves the match of who is answered alone.
LEMMA Replied ==
  ASSUME NEW S, NEW r \in Seq(S), NEW m \in S, NEW T, NEW q \in Seq(T), q # <<>>,
         NEW a \in Place, NEW s, NEW o, NEW p, NEW k, NEW l \in BOOLEAN,
         Holds(a, r, q, s, o, p, k), Known_login(a, r, q, l, TRUE),
         \/ q[1].type = "REQ_LOGIN" /\ m.type = "ANS_LOGIN" /\ s = "free"
         \/ q[1].type = "REQ_WHO" /\ m.type = "ANS_WHO"
         \/ q[1].type = "REQ_PLAY" /\ m.type = "ANS_PLAY" /\ m.response # "PLAY_ACCEPT"
  PROVE  Holds(a, arrives(a, r, m), Tail(q), s, o, p, k)
<1>1. Stream(q, s)
  BY DEF Holds, Known
<1>2. Stream(Tail(q), s)
  BY ONLY <1>1, StreamTailed, q \in Seq(T), q # <<>>
<1>3. ASSUME a # "off"
      PROVE  Holds(a, Append(r, m), Tail(q), s, o, p, k)
  BY <1>3, Replying
<1> QED BY ONLY <1>2, <1>3, OffOrOn

\* The decision of who was invited.
LEMMA Decided ==
  ASSUME NEW S, NEW r \in Seq(S), NEW m \in S, NEW T, NEW q \in Seq(T), q # <<>>,
         NEW a \in Place, NEW s, NEW o, NEW p, NEW k, NEW l \in BOOLEAN, NEW z,
         Holds(a, r, q, s, o, p, k), Known_login(a, r, q, l, TRUE),
         q[1].type = "REQ_PLAY_ANS", s # "free", m.type = "ANS_PLAY",
         \/ m.response = "PLAY_ACCEPT" /\ q[1].accept /\ z = "game"
         \/ m.response # "PLAY_ACCEPT" /\ z = "free"
  PROVE  Holds(a, arrives(a, r, m), Tail(q), z, o, p, k)
<1>1. Stream(q, s)
  BY DEF Holds, Known
<1>2. Stream(Tail(q), z)
  BY ONLY <1>1, StreamTailed, q \in Seq(T), q # <<>>, s # "free"
<1>3. ASSUME a # "off"
      PROVE  Holds(a, Append(r, m), Tail(q), z, o, p, k)
  BY <1>3, Deciding
<1> QED BY ONLY <1>2, <1>3, OffOrOn

\* The request that makes a match.
LEMMA Asked ==
  ASSUME NEW S, NEW r \in Seq(S), NEW T, NEW q \in Seq(T), q # <<>>,
         NEW a \in Place, NEW s, NEW o, NEW p, NEW k, NEW l \in BOOLEAN,
         Holds(a, r, q, s, o, p, k), Known_login(a, r, q, l, TRUE),
         q[1].type = "REQ_PLAY"
  PROVE  Holds(a, r, Tail(q), "asker", q[1].opponent, p, k)
<1>1. Stream(q, s)
  BY DEF Holds, Known
<1>2. Stream(Tail(q), "asker")
  BY ONLY <1>1, StreamTailed, q \in Seq(T), q # <<>>, q[1].type = "REQ_PLAY"
<1>3. CASE a = "off"
  <2>1. r = <<>>
    BY <1>3 DEF Known_login
  <2> QED BY <1>2, <1>3, <2>1, Gone
<1>4. CASE a # "off"
  BY <1>4, Inviting
<1> QED BY <1>3, <1>4

---------------------------------------------------------------------------
(* The server, as Lobby and as BattleServerProofs see it.                   *)

\* The assumptions of BattleServer.
LEMMA Assumed ==
  /\ Server!IsFiniteSet(Client)
  /\ Null \notin Client \cup Name \cup Match \cup Server!MatchRecord
  BY ClientAssumption, NullAssumption DEF Server!IsFiniteSet, IsFiniteSet, Server!MatchRecord

\* What Lobby names of BattleServer is what BattleServerProofs names.
LEMMA SameHandlers ==
  ASSUME NEW c, NEW m
  PROVE  Srv!receive(c, m) <=> Server!receive(c, m)
<1>1. ASSUME NEW u PROVE Srv!do_login(c, u) <=> Server!do_login(c, u)
  BY DEF Srv!do_login, Server!do_login, Srv!valid_username, Server!valid_username,
         Srv!unique_username, Server!unique_username, Srv!get_clients_by_username,
         Server!get_clients_by_username, Srv!AnsLogin, Server!AnsLogin,
         Srv!login_client, Server!login_client
<1>2. Srv!send_client_list(c) <=> Server!send_client_list(c)
  BY DEF Srv!send_client_list, Server!send_client_list, Srv!WhoRow, Server!WhoRow,
         Srv!Opponent, Server!Opponent
<1>3. ASSUME NEW u PROVE Srv!process_play_request(c, u) <=> Server!process_play_request(c, u)
  BY DEF Srv!process_play_request, Server!process_play_request,
         Srv!get_clients_by_username, Server!get_clients_by_username, Srv!AnsPlay,
         Server!AnsPlay, Srv!busy, Server!busy, Srv!add_match, Server!add_match,
         Srv!ReqPlay, Server!ReqPlay
<1>4. Srv!answer_ignored(c) <=> Server!answer_ignored(c)
  BY DEF Srv!answer_ignored, Server!answer_ignored
<1>5. Srv!PlayersAlive(c) <=> Server!PlayersAlive(c)
  BY DEF Srv!PlayersAlive, Server!PlayersAlive, Srv!Players, Server!Players
<1>6. ASSUME NEW x PROVE Srv!delete_match(x) <=> Server!delete_match(x)
  BY DEF Srv!delete_match, Server!delete_match
<1>7. ASSUME NEW x PROVE Srv!process_play_req_answer(c, x) <=> Server!process_play_req_answer(c, x)
  BY <1>4, <1>5, <1>6
     DEF Srv!process_play_req_answer, Server!process_play_req_answer, Srv!AnsPlay, Server!AnsPlay
<1>8. ASSUME NEW x PROVE Srv!EndMessage(c, x) = Server!EndMessage(c, x)
  BY DEF Srv!EndMessage, Server!EndMessage, Srv!Awaiting, Server!Awaiting, Srv!AnsPlay,
         Server!AnsPlay, Srv!Endgame, Server!Endgame, Srv!Opponent, Server!Opponent
<1>9. ASSUME NEW x PROVE Srv!terminate_match(c, x) <=> Server!terminate_match(c, x)
  BY <1>5, <1>6, <1>8 DEF Srv!terminate_match, Server!terminate_match
<1>10. ASSUME NEW x PROVE Srv!process_endgame(c, x) <=> Server!process_endgame(c, x)
  BY <1>9 DEF Srv!process_endgame, Server!process_endgame
<1>11. Srv!close_client(c) <=> Server!close_client(c)
  BY <1>9 DEF Srv!close_client, Server!close_client, Srv!remove_client, Server!remove_client,
              Srv!logged_in, Server!logged_in
<1>12. Srv!stale_player_access(c) <=> Server!stale_player_access(c)
  BY <1>5 DEF Srv!stale_player_access, Server!stale_player_access
<1> QED BY <1>1, <1>2, <1>3, <1>4, <1>7, <1>10, <1>11, <1>12 DEF Srv!receive, Server!receive

\* The same of a request that has elapsed.
LEMMA SameElapsed ==
  ASSUME NEW c
  PROVE  Srv!elapsed(c) <=> Server!elapsed(c)
<1>1. Srv!PlayersAlive(c) <=> Server!PlayersAlive(c)
  BY DEF Srv!PlayersAlive, Server!PlayersAlive, Srv!Players, Server!Players
<1>2. Srv!Awaiting(c) <=> Server!Awaiting(c)
  BY DEF Srv!Awaiting, Server!Awaiting
<1>3. Srv!remove_elapsed_match(c) <=> Server!remove_elapsed_match(c)
  BY <1>1, <1>2 DEF Srv!remove_elapsed_match, Server!remove_elapsed_match, Srv!AnsPlay,
                    Server!AnsPlay, Srv!delete_match, Server!delete_match
<1>4. Srv!stale_player_access(c) <=> Server!stale_player_access(c)
  BY <1>1 DEF Srv!stale_player_access, Server!stale_player_access
<1> QED BY <1>2, <1>3, <1>4 DEF Srv!elapsed, Server!elapsed

\* The rest.
LEMMA SameRest ==
  /\ Srv!Init <=> Server!Init
  /\ Srv!shutdown <=> Server!shutdown
  /\ \A c : Srv!accept_connection(c) <=> Server!accept_connection(c)
  /\ Srv!Message = Server!Message
  /\ Srv!TypeOK <=> Server!TypeOK
  /\ \A c : Srv!Awaiting(c) <=> Server!Awaiting(c)
  /\ \A c : Srv!Opponent(c) = Server!Opponent(c)
<1>1. Srv!Init <=> Server!Init
  BY DEF Srv!Init, Server!Init
<1>2. Srv!shutdown <=> Server!shutdown
  BY DEF Srv!shutdown, Server!shutdown
<1>3. \A c : Srv!accept_connection(c) <=> Server!accept_connection(c)
  BY DEF Srv!accept_connection, Server!accept_connection
<1>4. Srv!Message = Server!Message
  BY DEF Srv!Message, Server!Message, Srv!LoginResponse, Server!LoginResponse,
         Srv!PlayResponse, Server!PlayResponse, Srv!WhoPlayer, Server!WhoPlayer
<1>5. Srv!TypeOK <=> Server!TypeOK
  BY <1>4 DEF Srv!TypeOK, Server!TypeOK, Srv!MatchRecord, Server!MatchRecord
<1>6. \A c : Srv!Awaiting(c) <=> Server!Awaiting(c)
  BY DEF Srv!Awaiting, Server!Awaiting
<1>7. \A c : Srv!Opponent(c) = Server!Opponent(c)
  BY DEF Srv!Opponent, Server!Opponent
<1> QED BY <1>1, <1>2, <1>3, <1>4, <1>5, <1>6, <1>7

---------------------------------------------------------------------------
(* The clients, as the server's steps find them.                            *)

LoginOf(d) ==
  Known_login(at[d], toClient[d], toServer[d], username[d] # Null, d \in connected)

HoldsOf(d) ==
  Holds(at[d], toClient[d], toServer[d], situation(d), facing(d), peer[d], consent[d])

Good == (\A d \in Client : LoginOf(d)) /\ (calm => \A d \in Client : HoldsOf(d))

\* The invariant, while the server runs.
LEMMA Running ==
  /\ server = "running" => (IInv <=> Base /\ Good)
  /\ server' = "running" => (IInv' <=> Base' /\ Good')
  BY DEF IInv, Logins, Readings, Knowledge, Good, LoginOf, HoldsOf, Holds

\* The channel of a client to which a handler has sent nothing, or one message.
LEMMA Channel ==
  ASSUME Types, deliver, NEW d \in Client, LoginOf(d)
  PROVE  /\ mail(sent', d) = <<>> => toClient'[d] = toClient[d]
         /\ \A x \in Server!Message : mail(sent', d) = <<x>> =>
              toClient'[d] = arrives(at[d], toClient[d], x)
<1>1. toClient'[d] = IF at[d] = "off" THEN <<>> ELSE toClient[d] \o mail(sent', d)
  BY DEF deliver
<1>2. at[d] = "off" => toClient[d] = <<>>
  BY DEF LoginOf, Known_login
<1>3. toClient[d] \in Seq(Server!Message)
  BY DEF Types
<1>4. mail(sent', d) = <<>> => toClient'[d] = toClient[d]
  BY <1>1, <1>2, <1>3
<1>5. ASSUME NEW r \in Seq(Server!Message), NEW x \in Server!Message
      PROVE  r \o <<x>> = Append(r, x)
  OBVIOUS
<1> QED BY <1>1, <1>3, <1>4, <1>5 DEF arrives

\* What a message of a client's says of its sender.
LEMMA Members ==
  ASSUME Types, NEW d \in Client
  PROVE  /\ toServer[d] \in Seq(Request) /\ toClient[d] \in Seq(Server!Message)
         /\ at[d] \in Place /\ peer[d] \in Name \cup {Null}
         /\ consent[d] \in Name \cup {Null}
  BY DEF Types

\* The login of a client whose login no handler of this step is about.
LEMMA LoginKept ==
  ASSUME Types, deliver, UNCHANGED clientVars, NEW d \in Client, LoginOf(d),
         username'[d] # Null <=> username[d] # Null,
         d \in connected' <=> d \in connected,
         \/ toServer'[d] = toServer[d]
         \/ /\ toServer[d] # <<>> /\ d \in connected
            /\ toServer[d][1].type \notin {"EOF", "REQ_LOGIN"}
            /\ toServer'[d] = Tail(toServer[d]),
         \/ mail(sent', d) = <<>>
         \/ \E x \in Server!Message : mail(sent', d) = <<x>> /\ x.type # "ANS_LOGIN"
  PROVE  LoginOf(d)'
<1> DEFINE a == at[d]
           r == toClient[d]
           q == toServer[d]
           l == username[d] # Null
           h == d \in connected
<1>1. /\ q \in Seq(Request) /\ r \in Seq(Server!Message)
      /\ Known_login(a, r, q, l, h) /\ l \in BOOLEAN
  BY Members DEF LoginOf
<1>2. Known_login(a, r, toServer'[d], l, h)
  <2>1. CASE toServer'[d] = q
    BY <1>1, <2>1
  <2>2. CASE /\ toServer[d] # <<>> /\ d \in connected
             /\ toServer[d][1].type \notin {"EOF", "REQ_LOGIN"}
             /\ toServer'[d] = Tail(toServer[d])
    <3>1. h = TRUE
      BY <2>2
    <3> HIDE DEF a, r, l, h
    <3>2. Known_login(a, r, Tail(q), l, TRUE)
      BY <1>1, <2>2, <3>1, LoginTaken
    <3> QED BY <2>2, <3>1, <3>2
  <2> QED BY <2>1, <2>2
<1>3. ASSUME NEW t, Known_login(a, r, t, l, h)
      PROVE  Known_login(a, toClient'[d], t, l, h)
  <2>1. CASE mail(sent', d) = <<>>
    BY <1>3, <2>1, Channel
  <2>2. CASE \E x \in Server!Message : mail(sent', d) = <<x>> /\ x.type # "ANS_LOGIN"
    <3>1. PICK x \in Server!Message : mail(sent', d) = <<x>> /\ x.type # "ANS_LOGIN"
      BY <2>2
    <3>2. toClient'[d] = arrives(a, r, x)
      BY <3>1, Channel
    <3>3. CASE a = "off"
      <4>1. r = <<>>
        BY <1>1, <3>3 DEF Known_login
      <4> QED BY <1>3, <3>2, <3>3, <4>1 DEF arrives
    <3>4. CASE a # "off"
      <4>1. h = TRUE
        BY <1>1, <3>4 DEF Known_login
      <4> HIDE DEF a, r, l, h
      <4>2. Known_login(a, Append(r, x), t, l, TRUE)
        BY <1>1, <1>3, <3>1, <3>4, <4>1, LoginSending
      <4> QED BY <3>2, <3>4, <4>1, <4>2 DEF arrives
    <3> QED BY <3>3, <3>4
  <2> QED BY <2>1, <2>2
<1>5. Known_login(a, toClient'[d], toServer'[d], l, h)
  BY <1>2, <1>3
<1>6. at'[d] = a
  BY DEF clientVars
<1>7. (username'[d] # Null) = l /\ (d \in connected') = h
  OBVIOUS
<1> HIDE DEF a, r, q, l, h
<1> QED BY <1>5, <1>6, <1>7 DEF LoginOf

\* What the server has of a client to which nothing happens.
LEMMA Bystander ==
  ASSUME NEW d, match'[d] = match[d],
         match[d] # Null =>
           /\ heap'[match[d]] = heap[match[d]]
           /\ username'[heap[match[d]].player1] = username[heap[match[d]].player1]
           /\ username'[heap[match[d]].player2] = username[heap[match[d]].player2]
  PROVE  situation(d)' = situation(d) /\ facing(d)' = facing(d)
  BY DEF situation, facing

\* Then what holds of it still does.
LEMMA HoldsKept ==
  ASSUME Types, deliver, UNCHANGED clientVars, NEW d \in Client, LoginOf(d), HoldsOf(d),
         toServer'[d] = toServer[d], mail(sent', d) = <<>>,
         situation(d)' = situation(d), facing(d)' = facing(d)
  PROVE  HoldsOf(d)'
<1>1. toClient'[d] = toClient[d]
  BY Channel
<1>2. at'[d] = at[d] /\ peer'[d] = peer[d] /\ consent'[d] = consent[d]
  BY DEF clientVars
<1> QED BY <1>1, <1>2 DEF HoldsOf

\* The two players of a match.
LEMMA Pair ==
  ASSUME Server!Inv, Server!MatchIntegrity, ~overlap, NEW c \in connected, match[c] # Null
  PROVE  \E e \in Client :
           /\ e = Server!Opponent(c) /\ e # c /\ e \in connected /\ e \in client_list
           /\ c \in client_list /\ c \in Client
           /\ username[c] # Null /\ username[e] # Null
           /\ match[c] \in Match /\ match[e] = match[c]
           /\ \/ heap[match[c]].player1 = c /\ heap[match[c]].player2 = e
              \/ heap[match[c]].player1 = e /\ heap[match[c]].player2 = c
           /\ heap[match[c]] # Null /\ heap[match[c]].awaiting_reply \in BOOLEAN
           /\ facing(c) = username[e] /\ facing(e) = username[c]
           /\ \A d \in connected : match[d] = match[c] => d \in {c, e}
<1> DEFINE m == match[c]
<1>1. /\ Server!TypeOK /\ Server!OwnMatch /\ Server!LoginTable
  BY DEF Server!Inv
<1>2. /\ m \in Match /\ heap[m] \in Server!MatchRecord
      /\ heap[m].player1 \in Client /\ heap[m].player2 \in Client
      /\ c = heap[m].player1 \/ c = heap[m].player2
  BY <1>1, Assumed, Server!MatchOf
<1>3. heap[m] # Null /\ heap[m].player1 # heap[m].player2
  BY <1>1 DEF Server!OwnMatch
<1>4. ASSUME NEW p \in {heap[m].player1, heap[m].player2}
      PROVE  p \in client_list /\ p \in connected /\ match[p] = m /\ username[p] # Null
  <2>1. p \in Server!Players(m)
    BY DEF Server!Players
  <2>2. p \in client_list /\ match[p] = m
    BY <1>2, <1>3, <2>1 DEF Server!MatchIntegrity
  <2> QED BY <1>1, <2>2 DEF Server!LoginTable, Server!logged_in
<1> DEFINE e == IF c = heap[m].player1 THEN heap[m].player2 ELSE heap[m].player1
<1>5. /\ e \in Client /\ e # c /\ e = Server!Opponent(c)
      /\ \/ heap[m].player1 = c /\ heap[m].player2 = e
         \/ heap[m].player1 = e /\ heap[m].player2 = c
  BY <1>2, <1>3 DEF Server!Opponent
<1>6. heap[m].awaiting_reply \in BOOLEAN
  BY <1>2 DEF Server!MatchRecord
<1>7. /\ e \in connected /\ e \in client_list /\ c \in client_list /\ match[e] = m
      /\ username[c] # Null /\ username[e] # Null
  BY <1>4, <1>5
<1>8. facing(c) = username[e] /\ facing(e) = username[c]
  <2>1. m # Null
    OBVIOUS
  <2> HIDE DEF e
  <2> QED BY <1>5, <1>7, <2>1 DEF facing
<1>9. \A d \in connected : match[d] = m => d \in {c, e}
  <2> SUFFICES ASSUME NEW d \in connected, match[d] = m PROVE d \in {c, e}
    OBVIOUS
  <2>1. d \in Server!Players(m)
    BY <1>1 DEF Server!OwnMatch
  <2> HIDE DEF e
  <2> QED BY <1>5, <2>1 DEF Server!Players
<1> HIDE DEF e
<1>10. c \in Client
  BY <1>1 DEF Server!TypeOK
<1> QED BY <1>2, <1>3, <1>5, <1>6, <1>7, <1>8, <1>9, <1>10

---------------------------------------------------------------------------
(* A handler's step, in the server.                                         *)

\* The messages that a handler sends to one client: one at most, and the answer to a
\* login only if that is what it handles.
LEMMA OneEach ==
  ASSUME Server!Inv, Server!Inv', NEW c \in connected, NEW m,
         Server!receive(c, m) \/ Server!elapsed(c), NEW d
  PROVE  \/ mail(sent', d) = <<>>
         \/ \E x \in Server!Message : /\ mail(sent', d) = <<x>>
                                      /\ x.type = "ANS_LOGIN" => m.type = "REQ_LOGIN"
<1> DEFINE w == match[c]
           Fits(x) == x.type = "ANS_LOGIN" => m.type = "REQ_LOGIN"
<1>1. Server!TypeOK /\ Server!OwnMatch /\ sent' \in Seq(Server!Message)
  BY DEF Server!Inv, Server!TypeOK
<1>2. \/ sent' = <<>>
      \/ \E x : sent' = <<x>> /\ Fits(x)
      \/ \E x, y : sent' = <<x, y>> /\ x.to # y.to /\ Fits(x) /\ Fits(y)
  <2>1. ASSUME w # Null PROVE heap[w].player1 # heap[w].player2
    BY <1>1, <2>1 DEF Server!OwnMatch
  <2>2. /\ \A p, res, o : Server!AnsPlay(p, res, o).to = p /\ Fits(Server!AnsPlay(p, res, o))
        /\ \A p, u : Fits(Server!ReqPlay(p, u))
        /\ \A x : Fits(Server!EndMessage(c, x))
    BY DEF Server!AnsPlay, Server!ReqPlay, Server!EndMessage, Server!Endgame
  <2>3. CASE m.type = "REQ_LOGIN" /\ Server!do_login(c, m.username)
    BY <2>3 DEF Server!do_login
  <2>4. CASE m.type = "REQ_WHO" /\ Server!send_client_list(c)
    <3>1. PICK x : sent' = <<x>> /\ x.type = "ANS_WHO"
      BY <2>4 DEF Server!send_client_list
    <3> QED BY <3>1
  <2> HIDE DEF Fits
  <2>5. CASE m.type = "REQ_PLAY" /\ Server!process_play_request(c, m.opponent)
    BY <2>2, <2>5 DEF Server!process_play_request
  <2>6. CASE m.type = "REQ_PLAY_ANS" /\ Server!process_play_req_answer(c, m.accept)
    BY <2>1, <2>2, <2>6 DEF Server!process_play_req_answer, Server!answer_ignored
  <2>7. CASE \E x : Server!terminate_match(c, x)
    BY <2>2, <2>7 DEF Server!terminate_match
  <2>8. CASE Server!stale_player_access(c)
    BY <2>8 DEF Server!stale_player_access
  <2>9. CASE Server!remove_elapsed_match(c)
    BY <2>1, <2>2, <2>9 DEF Server!remove_elapsed_match, Server!Awaiting
  <2> QED
    BY <2>3, <2>4, <2>5, <2>6, <2>7, <2>8, <2>9
       DEF Server!receive, Server!elapsed, Server!process_endgame, Server!close_client
<1>3. CASE sent' = <<>>
  BY <1>3, NoMail
<1>4. CASE \E x : sent' = <<x>> /\ Fits(x)
  <2>1. PICK x : sent' = <<x>> /\ Fits(x)
    BY <1>4
  <2>2. x \in Server!Message
    BY <1>1, <2>1
  <2>3. mail(sent', d) = IF x.to = d THEN <<x>> ELSE <<>>
    BY <2>1, OneMail
  <2> QED BY <2>1, <2>2, <2>3
<1>5. CASE \E x, y : sent' = <<x, y>> /\ x.to # y.to /\ Fits(x) /\ Fits(y)
  <2>1. PICK x, y : sent' = <<x, y>> /\ x.to # y.to /\ Fits(x) /\ Fits(y)
    BY <1>5
  <2>2. x \in Server!Message /\ y \in Server!Message
    BY <1>1, <2>1
  <2>3. mail(sent', d) = IF x.to = d THEN <<x>> ELSE IF y.to = d THEN <<y>> ELSE <<>>
    BY <2>1, TwoMails
  <2> QED BY <2>1, <2>2, <2>3
<1> QED BY <1>2, <1>3, <1>4, <1>5

\* The end of a match, seen from the pointers.
LEMMA Deleted ==
  ASSUME Server!Inv, NEW c \in connected, match[c] # Null, Server!delete_match(match[c])
  PROVE  /\ match'[c] = Null
         /\ \A d \in Client : match'[d] \in {match[d], Null}
         /\ \A d \in Client : d # c /\ d # Server!Opponent(c) => match'[d] = match[d]
         /\ match'[Server!Opponent(c)] = Null
         /\ \A w \in Match : w # match[c] => heap'[w] = heap[w]
<1>1. Server!TypeOK /\ Server!OwnMatch
  BY DEF Server!Inv
<1>2. /\ heap[match[c]].player1 \in Client /\ heap[match[c]].player2 \in Client
      /\ c = heap[match[c]].player1 \/ c = heap[match[c]].player2
  BY <1>1, Assumed, Server!MatchOf
<1>3. match' = [match EXCEPT ![heap[match[c]].player1] = Null,
                             ![heap[match[c]].player2] = Null]
  BY DEF Server!delete_match
<1>4. heap' = [heap EXCEPT ![match[c]] = Null]
  BY DEF Server!delete_match
<1>5. match \in [Client -> Match \cup {Null}] /\ heap \in [Match -> Server!MatchRecord \cup {Null}]
  BY <1>1 DEF Server!TypeOK
<1> QED BY <1>2, <1>3, <1>4, <1>5 DEF Server!Opponent

\* A handler is a step of the server as BattleServer has it.
LEMMA HandlerNext ==
  ASSUME server = "running", NEW c \in connected, Server!Inv, NEW m \in Request,
         m.type = "REQ_LOGIN" => username[c] = Null,
         m.type \notin {"EOF", "REQ_LOGIN"} => username[c] # Null,
         Server!receive(c, m) \/ Server!elapsed(c)
  PROVE  Server!Next
<1>1. c \in Client
  BY DEF Server!Inv, Server!TypeOK
<1>2. CASE Server!receive(c, m)
  <2>1. CASE m.type = "REQ_LOGIN" /\ Server!do_login(c, m.username)
    <3>1. m.username \in Name
      BY <2>1 DEF Request
    <3> QED BY <1>1, <2>1, <3>1 DEF Server!Handle, Server!dispatch_message, Server!logged_in,
                                    Server!Next, Server!go_server
  <2>2. CASE m.type = "REQ_WHO" /\ Server!send_client_list(c)
    BY <1>1, <2>2 DEF Server!Handle, Server!dispatch_message, Server!logged_in, Server!Next,
                      Server!go_server
  <2>3. CASE m.type = "REQ_PLAY" /\ Server!process_play_request(c, m.opponent)
    <3>1. m.opponent \in Name
      BY <2>3 DEF Request
    <3> QED BY <1>1, <2>3, <3>1 DEF Server!Handle, Server!dispatch_message, Server!logged_in,
                                    Server!Next, Server!go_server
  <2>4. CASE m.type = "REQ_PLAY_ANS" /\ Server!process_play_req_answer(c, m.accept)
    <3>1. m.accept \in BOOLEAN
      BY <2>4 DEF Request
    <3> QED BY <1>1, <2>4, <3>1 DEF Server!Handle, Server!dispatch_message, Server!logged_in,
                                    Server!Next, Server!go_server
  <2>5. CASE m.type = "MSG_ENDGAME" /\ Server!process_endgame(c, m.disconnected)
    <3>1. m.disconnected \in BOOLEAN
      BY <2>5 DEF Request
    <3> QED BY <1>1, <2>5, <3>1 DEF Server!Handle, Server!dispatch_message, Server!logged_in,
                                    Server!Next, Server!go_server
  <2>6. CASE Server!close_client(c)
    BY <1>1, <2>6 DEF Server!Handle, Server!Next, Server!go_server
  <2>7. CASE Server!stale_player_access(c)
    BY <1>1, <2>7 DEF Server!Handle, Server!Next, Server!go_server
  <2> QED BY <1>2, <2>1, <2>2, <2>3, <2>4, <2>5, <2>6, <2>7 DEF Server!receive
<1>3. CASE Server!elapsed(c)
  BY <1>1, <1>3 DEF Server!elapsed, Server!Handle, Server!Next, Server!go_server
<1> QED BY <1>2, <1>3

\* Who is not connected stays in no match.
LEMMA AbsentKept ==
  ASSUME Server!Inv, Absent, NEW c \in connected, NEW m,
         Server!receive(c, m) \/ Server!elapsed(c)
  PROVE  Absent'
<1>1. Server!TypeOK /\ c \in Client /\ match \in [Client -> Match \cup {Null}]
  BY DEF Server!Inv, Server!TypeOK
<1>2. CASE UNCHANGED <<connected, match>>
  BY <1>2 DEF Absent
<1>3. ASSUME NEW u, Server!process_play_request(c, u), match' # match
      PROVE  Absent'
  <2>1. PICK e \in client_list : Server!add_match(c, e) /\ connected' = connected
    BY <1>3 DEF Server!process_play_request, Server!get_clients_by_username
  <2>2. e \in connected
    BY DEF Server!Inv, Server!LoginTable
  <2>3. \A d \in Client : d \notin {c, e} => match'[d] = match[d]
    BY <1>1, <2>1 DEF Server!add_match
  <2> QED BY <2>1, <2>2, <2>3 DEF Absent
<1>4. ASSUME match[c] # Null, Server!delete_match(match[c]), connected \ {c} \subseteq connected'
      PROVE  Absent'
  BY <1>1, <1>4, Deleted DEF Absent
<1>5. ASSUME NEW x, Server!terminate_match(c, x), connected \ {c} \subseteq connected'
      PROVE  Absent'
  <2>1. CASE match[c] = Null /\ UNCHANGED match
    BY <1>1, <1>5, <2>1 DEF Absent
  <2>2. CASE match[c] # Null /\ Server!delete_match(match[c])
    BY <1>4, <1>5, <2>2
  <2> QED BY <1>5, <2>1, <2>2 DEF Server!terminate_match
<1>6. CASE Server!receive(c, m)
  <2>1. CASE Server!do_login(c, m.username)
    BY <1>2, <2>1 DEF Server!do_login
  <2>2. CASE Server!send_client_list(c)
    BY <1>2, <2>2 DEF Server!send_client_list
  <2>3. CASE Server!process_play_request(c, m.opponent)
    BY <1>2, <1>3, <2>3 DEF Server!process_play_request
  <2>4. CASE Server!process_play_req_answer(c, m.accept)
    <3>1. CASE UNCHANGED match
      BY <1>2, <2>4, <3>1 DEF Server!process_play_req_answer
    <3>2. CASE ~Server!answer_ignored(c) /\ Server!delete_match(match[c])
      BY <1>4, <2>4, <3>2 DEF Server!process_play_req_answer, Server!answer_ignored
    <3> QED BY <2>4, <3>1, <3>2 DEF Server!process_play_req_answer
  <2>5. CASE Server!process_endgame(c, m.disconnected)
    BY <1>5, <2>5 DEF Server!process_endgame
  <2>6. CASE Server!close_client(c)
    BY <1>5, <2>6 DEF Server!close_client, Server!remove_client
  <2>7. CASE Server!stale_player_access(c)
    BY <1>2, <2>7 DEF Server!stale_player_access
  <2> QED BY <1>6, <2>1, <2>2, <2>3, <2>4, <2>5, <2>6, <2>7 DEF Server!receive
<1>7. CASE Server!elapsed(c)
  <2>1. CASE Server!remove_elapsed_match(c)
    BY <1>4, <2>1 DEF Server!remove_elapsed_match, Server!Awaiting
  <2>2. CASE Server!stale_player_access(c)
    BY <1>2, <2>2 DEF Server!stale_player_access
  <2> QED BY <1>7, <2>1, <2>2 DEF Server!elapsed
<1> QED BY <1>6, <1>7

\* What a step of the server's starts from: the client is there, and has sent what it
\* may send.
LEMMA Sender ==
  ASSUME Types, Server!Inv, NEW c \in Client, toServer[c] # <<>>, LoginOf(c)
  PROVE  /\ c \in connected /\ Head(toServer[c]) = toServer[c][1]
         /\ toServer[c] \in Seq(Request) /\ toServer[c][1] \in Request
         /\ 1 \in 1 .. Len(toServer[c])
         /\ toServer[c][1].type = "REQ_LOGIN" => username[c] = Null
         /\ toServer[c][1].type \notin {"EOF", "REQ_LOGIN"} => username[c] # Null
<1> DEFINE q == toServer[c]
           a == at[c]
           r == toClient[c]
           l == username[c] # Null
           h == c \in connected
<1>1. q \in Seq(Request) /\ q # <<>>
  BY Members
<1>2. /\ Head(q) = q[1] /\ 1 \in 1 .. Len(q) /\ q[1] \in Request
  BY <1>1, Tailed
<1>3. Known_login(a, r, q, l, h)
  BY DEF LoginOf
<1>4. h
  BY <1>1, <1>3 DEF Known_login
<1>5. /\ q[1].type = "REQ_LOGIN" => ~l
      /\ q[1].type \notin {"EOF", "REQ_LOGIN"} => l
  BY <1>2, <1>3 DEF Known_login
<1> QED BY <1>1, <1>2, <1>4, <1>5

\* Messages are handled and requests elapse as BattleServer says.
LEMMA Handled ==
  ASSUME Base, server = "running", NEW c \in Client, LoginOf(c), serve(c) \/ elapsed(c)
  PROVE  /\ c \in connected
         /\ \E m \in Request :
              /\ m.type = "REQ_LOGIN" => username[c] = Null
              /\ m.type \notin {"EOF", "REQ_LOGIN"} => username[c] # Null
              /\ Server!receive(c, m) \/ Server!elapsed(c)
         /\ Server!Next
<1>1. Types /\ Server!Inv /\ Absent
  BY DEF Base
<1>2. c \in connected
  <2>1. CASE serve(c)
    BY <1>1, <2>1, Sender DEF serve
  <2>2. CASE elapsed(c)
    <3>1. match[c] # Null
      BY <2>2, SameElapsed
         DEF elapsed, Server!elapsed, Server!remove_elapsed_match, Server!Awaiting
    <3> QED BY <1>1, <3>1 DEF Absent
  <2> QED BY <2>1, <2>2
<1>3. \E m \in Request :
        /\ m.type = "REQ_LOGIN" => username[c] = Null
        /\ m.type \notin {"EOF", "REQ_LOGIN"} => username[c] # Null
        /\ Server!receive(c, m) \/ Server!elapsed(c)
  <2>1. CASE serve(c)
    BY <1>1, <2>1, Sender, SameHandlers DEF serve
  <2>2. CASE elapsed(c)
    <3>1. [type |-> "EOF"] \in Request
      BY DEF Request
    <3> QED BY <2>2, <3>1, SameElapsed DEF elapsed
  <2> QED BY <2>1, <2>2
<1>4. Server!Next
  <2>1. PICK m \in Request :
          /\ m.type = "REQ_LOGIN" => username[c] = Null
          /\ m.type \notin {"EOF", "REQ_LOGIN"} => username[c] # Null
          /\ Server!receive(c, m) \/ Server!elapsed(c)
    BY <1>3
  <2> QED BY <1>1, <1>2, <2>1, HandlerNext
<1> QED BY <1>2, <1>3, <1>4

\* The server's part of a step, and the types.
LEMMA ServerBase ==
  ASSUME Base, server = "running", NEW c \in Client, LoginOf(c), serve(c) \/ elapsed(c)
  PROVE  Base' /\ c \in connected
<1>1. /\ Types /\ Server!Inv /\ Server!MatchIntegrity /\ Absent /\ Server!TypeOK
      /\ c \in Client
  BY DEF Base, Server!Inv
<1>2. /\ c \in connected
      /\ \E m \in Request :
           /\ m.type = "REQ_LOGIN" => username[c] = Null
           /\ m.type \notin {"EOF", "REQ_LOGIN"} => username[c] # Null
           /\ Server!receive(c, m) \/ Server!elapsed(c)
      /\ Server!Next
  BY Handled
<1>4. PICK m \in Request :
        /\ m.type = "REQ_LOGIN" => username[c] = Null
        /\ m.type \notin {"EOF", "REQ_LOGIN"} => username[c] # Null
        /\ Server!receive(c, m) \/ Server!elapsed(c)
  BY <1>2
<1>5. Server!Next
  BY <1>2
<1>6. Server!Inv' /\ Server!MatchIntegrity'
  BY <1>1, <1>5, Assumed, Server!NextInv, Server!NextIntegrity
<1>7. Absent'
  BY <1>1, <1>2, <1>4, AbsentKept
<1>8. toServer' \in [Client -> Seq(Request)] /\ late' \in BOOLEAN
  <2>1. CASE serve(c)
    <3>1. Tail(toServer[c]) \in Seq(Request)
      BY <1>1, <2>1, Tailed, Members DEF serve
    <3>2. toServer' = [toServer EXCEPT ![c] = Tail(@)] /\ late' \in BOOLEAN
      BY <1>1, <2>1 DEF serve, Types
    <3> QED BY <1>1, <3>1, <3>2 DEF Types
  <2>2. CASE elapsed(c)
    BY <1>1, <2>2 DEF elapsed, Types
  <2> QED BY <2>1, <2>2
<1>9. deliver /\ UNCHANGED clientVars
  BY DEF serve, elapsed
<1>10. toClient' \in [Client -> Seq(Server!Message)]
  <2>1. \A d \in Client : mail(sent', d) \in Seq(Server!Message)
    <3> SUFFICES ASSUME NEW d \in Client PROVE mail(sent', d) \in Seq(Server!Message)
      OBVIOUS
    <3>1. mail(sent', d) = <<>> \/ \E x \in Server!Message : mail(sent', d) = <<x>>
      BY <1>1, <1>2, <1>4, <1>6, OneEach
    <3>2. <<>> \in Seq(Server!Message) /\ \A x \in Server!Message : <<x>> \in Seq(Server!Message)
      OBVIOUS
    <3> QED BY ONLY <3>1, <3>2
  <2>2. \A d \in Client : toClient[d] \in Seq(Server!Message)
    BY <1>1 DEF Types
  <2>3. toClient' = [d \in Client |->
           IF at[d] = "off" THEN <<>> ELSE toClient[d] \o mail(sent', d)]
    BY <1>9 DEF deliver
  <2> QED BY <2>1, <2>2, <2>3
<1>11. Types'
  BY <1>1, <1>8, <1>9, <1>10 DEF Types, clientVars
<1> QED BY <1>2, <1>6, <1>7, <1>11 DEF Base

---------------------------------------------------------------------------
(* A handler's step, in the logins.                                         *)

\* What one message to c is for every client.
LEMMA OnlyTo ==
  ASSUME Server!Inv', NEW x, sent' = <<x>>, NEW d
  PROVE  /\ x \in Server!Message
         /\ x.to # d => mail(sent', d) = <<>>
         /\ x.to = d => mail(sent', d) = <<x>>
<1>1. sent' \in Seq(Server!Message)
  BY DEF Server!Inv, Server!TypeOK
<1>2. x \in Server!Message
  BY <1>1
<1>3. mail(sent', d) = IF x.to = d THEN <<x>> ELSE <<>>
  BY OneMail
<1> QED BY <1>2, <1>3

\* A step of the server keeps the logins.
LEMMA ServeLogins ==
  ASSUME Base, Base', \A d \in Client : LoginOf(d), NEW c \in connected, c \in Client,
         toServer[c] # <<>>, Server!receive(c, toServer[c][1]), server' # "crashed",
         deliver, UNCHANGED clientVars,
         toServer' = [toServer EXCEPT ![c] = Tail(@)]
  PROVE  \A d \in Client : LoginOf(d)'
<1> DEFINE q == toServer[c]
           m == q[1]
<1>1. Types /\ Server!Inv /\ Server!Inv'
  BY DEF Base
<1>2. /\ q \in Seq(Request) /\ m \in Request /\ 1 \in 1 .. Len(q)
      /\ m.type = "REQ_LOGIN" => username[c] = Null
  BY <1>1, Sender
<1>3. /\ toServer'[c] = Tail(q)
      /\ \A d \in Client : d # c => toServer'[d] = toServer[d]
  BY <1>1 DEF Types
<1>4. username \in [Client -> Name \cup {Null}]
  BY <1>1 DEF Server!Inv, Server!TypeOK
<1>5. ASSUME NEW d \in Client,
             username'[d] # Null <=> username[d] # Null, d \in connected' <=> d \in connected,
             m.type # "REQ_LOGIN" \/ mail(sent', d) = <<>>,
             d # c \/ m.type \notin {"EOF", "REQ_LOGIN"}
      PROVE  LoginOf(d)'
  <2>1. \/ mail(sent', d) = <<>>
        \/ \E x \in Server!Message : mail(sent', d) = <<x>> /\ x.type # "ANS_LOGIN"
    BY <1>1, <1>5, OneEach
  <2>2. \/ toServer'[d] = toServer[d]
        \/ /\ toServer[d] # <<>> /\ d \in connected
           /\ toServer[d][1].type \notin {"EOF", "REQ_LOGIN"}
           /\ toServer'[d] = Tail(toServer[d])
    BY <1>3, <1>5
  <2> QED BY <1>1, <1>5, <2>1, <2>2, LoginKept
<1>6. CASE m.type = "REQ_LOGIN"
  <2>1. Server!do_login(c, m.username)
    BY <1>6 DEF Server!receive
  <2>2. m.username \in Name /\ m.username # Null
    BY <1>2, <1>6, NullAssumption DEF Request
  <2>3. PICK x : sent' = <<x>> /\ x.to = c /\ x.type = "ANS_LOGIN"
                 /\ (x.response = "LOGIN_OK" <=> username'[c] # Null)
    BY <1>2, <1>4, <1>6, <2>1, <2>2
       DEF Server!do_login, Server!AnsLogin, Server!login_client, Server!valid_username
  <2>4. connected' = connected /\ \A d \in Client : d # c => username'[d] = username[d]
    BY <1>4, <2>1 DEF Server!do_login, Server!login_client
  <2>5. ASSUME NEW d \in Client, d # c PROVE LoginOf(d)'
    <3>1. mail(sent', d) = <<>>
      BY <1>1, <2>3, <2>5, OnlyTo
    <3> QED BY <1>5, <2>4, <2>5, <3>1
  <2>6. LoginOf(c)'
    <3> DEFINE a == at[c]
               r == toClient[c]
               l == username[c] # Null
               g == username'[c] # Null
    <3>1. x \in Server!Message /\ mail(sent', c) = <<x>>
      BY <1>1, <2>3, OnlyTo
    <3>2. toClient'[c] = IF a = "off" THEN <<>> ELSE Append(r, x)
      BY <1>1, <3>1, Channel DEF arrives
    <3>3. Known_login(a, r, q, l, TRUE)
      BY DEF LoginOf
    <3>4. /\ r \in Seq(Server!Message) /\ l \in BOOLEAN /\ g \in BOOLEAN
          /\ (x.response = "LOGIN_OK" <=> g)
      BY <1>1, <2>3, Members
    <3> HIDE DEF l, g, a, r
    <3>5. Known_login(a, IF a = "off" THEN <<>> ELSE Append(r, x), Tail(q), g, TRUE)
      BY <1>2, <1>6, <2>3, <3>1, <3>3, <3>4, LoginAnswered
    <3>6. at'[c] = a
      BY DEF clientVars, a
    <3>7. (username'[c] # Null) = g /\ (c \in connected') = TRUE
      BY <2>4 DEF g
    <3> QED BY <1>3, <3>2, <3>5, <3>6, <3>7 DEF LoginOf
  <2> QED BY <2>5, <2>6
<1>7. CASE m.type = "EOF"
  <2>1. Server!close_client(c)
    BY <1>7 DEF Server!receive, Server!stale_player_access
  <2>2. /\ connected' = connected \ {c} /\ username' = [username EXCEPT ![c] = Null]
    BY <2>1 DEF Server!close_client, Server!remove_client
  <2>3. ASSUME NEW d \in Client, d # c PROVE LoginOf(d)'
    BY <1>4, <1>5, <1>7, <2>2, <2>3
  <2>4. LoginOf(c)'
    <3>1. at[c] = "off" /\ Len(q) = 1
      BY <1>2, <1>7 DEF LoginOf, Known_login
    <3>2. Tail(q) = <<>>
      BY <1>2, <3>1, Tailed
    <3>3. toClient'[c] = <<>>
      BY <3>1 DEF deliver
    <3>4. at'[c] = "off"
      BY <3>1 DEF clientVars
    <3>5. Known_login("off", <<>>, <<>>, username'[c] # Null, FALSE)
      BY LoginNobody
    <3>6. (c \in connected') = FALSE
      BY <2>2
    <3> QED BY <1>3, <3>2, <3>3, <3>4, <3>5, <3>6 DEF LoginOf
  <2> QED BY <2>3, <2>4
<1>8. CASE m.type \notin {"EOF", "REQ_LOGIN"}
  <2>1. UNCHANGED <<connected, username>>
    BY <1>8 DEF Server!receive, Server!send_client_list, Server!process_play_request,
               Server!process_play_req_answer, Server!process_endgame,
               Server!stale_player_access
  <2> QED BY <1>5, <1>8, <2>1
<1> QED BY <1>6, <1>7, <1>8

\* An elapsed request changes no login.
LEMMA ElapsedLogins ==
  ASSUME Base, Base', \A d \in Client : LoginOf(d), NEW c \in connected,
         Server!elapsed(c), deliver, UNCHANGED <<clientVars, toServer>>
  PROVE  \A d \in Client : LoginOf(d)'
<1> SUFFICES ASSUME NEW d \in Client PROVE LoginOf(d)'
  OBVIOUS
<1>1. Types /\ Server!Inv /\ Server!Inv'
  BY DEF Base
<1>2. UNCHANGED <<connected, username>>
  BY DEF Server!elapsed, Server!remove_elapsed_match, Server!stale_player_access
<1> DEFINE m == [type |-> "EOF"]
<1>3. \/ mail(sent', d) = <<>>
      \/ \E x \in Server!Message : /\ mail(sent', d) = <<x>>
                                   /\ x.type = "ANS_LOGIN" => m.type = "REQ_LOGIN"
  BY <1>1, OneEach
<1>4. m.type # "REQ_LOGIN"
  OBVIOUS
<1>5. UNCHANGED clientVars /\ toServer'[d] = toServer[d]
  BY DEF clientVars
<1> QED BY <1>1, <1>2, <1>3, <1>4, <1>5, LoginKept

---------------------------------------------------------------------------
(* A handler's step, in what the clients know.                              *)

\* Who gets nothing.
LEMMA Silent ==
  ASSUME Types, deliver, UNCHANGED clientVars, NEW d \in Client, LoginOf(d),
         mail(sent', d) = <<>>,
         Holds(at[d], toClient[d], toServer'[d], situation(d)', facing(d)', peer[d], consent[d])
  PROVE  HoldsOf(d)'
<1>1. toClient'[d] = toClient[d]
  BY Channel
<1>2. at'[d] = at[d] /\ peer'[d] = peer[d] /\ consent'[d] = consent[d]
  BY DEF clientVars
<1> QED BY <1>1, <1>2 DEF HoldsOf

\* Who gets one message.
LEMMA Addressed ==
  ASSUME Types, deliver, UNCHANGED clientVars, NEW d \in Client, LoginOf(d),
         NEW x \in Server!Message, mail(sent', d) = <<x>>,
         Holds(at[d], arrives(at[d], toClient[d], x), toServer'[d], situation(d)', facing(d)',
               peer[d], consent[d])
  PROVE  HoldsOf(d)'
<1>1. toClient'[d] = arrives(at[d], toClient[d], x)
  BY Channel
<1>2. at'[d] = at[d] /\ peer'[d] = peer[d] /\ consent'[d] = consent[d]
  BY DEF clientVars
<1> QED BY <1>1, <1>2 DEF HoldsOf

\* Who is in no match is free, and who is not connected is in none.
LEMMA Free ==
  ASSUME NEW d
  PROVE  /\ match[d] = Null => situation(d) = "free" /\ facing(d) = Null
         /\ match'[d] = Null => situation(d)' = "free" /\ facing(d)' = Null
         /\ situation(d) = "free" <=> match[d] = Null
  BY DEF situation, facing

\* While nothing has crossed, who has a match is logged in.
LEMMA Playing ==
  ASSUME Base, ~overlap, NEW d \in Client, match[d] # Null
  PROVE  d \in connected /\ username[d] # Null
<1>1. d \in connected
  BY DEF Base, Absent
<1> QED BY <1>1, Pair DEF Base

\* Nothing happens to the matches, or to the names of who has one.
LEMMA MatchesKept ==
  ASSUME Base, ~overlap, UNCHANGED <<match, heap>>,
         \A d \in Client : username[d] # Null => username'[d] = username[d],
         NEW d \in Client
  PROVE  situation(d)' = situation(d) /\ facing(d)' = facing(d)
<1>1. CASE match[d] = Null
  BY <1>1, Bystander
<1>2. CASE match[d] # Null
  <2>1. d \in connected
    BY <1>2, Playing
  <2>2. Server!Inv /\ Server!MatchIntegrity
    BY DEF Base
  <2>3. PICK e \in Client :
          /\ d \in Client /\ username[d] # Null /\ username[e] # Null
          /\ \/ heap[match[d]].player1 = d /\ heap[match[d]].player2 = e
             \/ heap[match[d]].player1 = e /\ heap[match[d]].player2 = d
    BY <1>2, <2>1, <2>2, Pair
  <2> QED BY <2>3, Bystander
<1> QED BY <1>1, <1>2

\* A step in which the server only answers c.
LEMMA AnswerHolds ==
  ASSUME Base, Base', ~overlap, NEW c \in Client, c \in connected,
         \A d \in Client : LoginOf(d) /\ HoldsOf(d),
         toServer[c] # <<>>, deliver, UNCHANGED clientVars,
         toServer' = [toServer EXCEPT ![c] = Tail(@)],
         UNCHANGED <<match, heap>>,
         \A d \in Client : username[d] # Null => username'[d] = username[d],
         NEW x, sent' = <<x>>, x.to = c,
         \/ toServer[c][1].type = "REQ_LOGIN" /\ x.type = "ANS_LOGIN"
         \/ toServer[c][1].type = "REQ_WHO" /\ x.type = "ANS_WHO"
         \/ toServer[c][1].type = "REQ_PLAY" /\ x.type = "ANS_PLAY" /\ x.response # "PLAY_ACCEPT"
  PROVE  \A d \in Client : HoldsOf(d)'
<1>1. Types /\ Server!Inv /\ Server!Inv'
  BY DEF Base
<1>2. /\ toServer'[c] = Tail(toServer[c])
      /\ \A d \in Client : d # c => toServer'[d] = toServer[d]
  BY <1>1 DEF Types
<1>3. ASSUME NEW d \in Client, d # c PROVE HoldsOf(d)'
  <2>1. mail(sent', d) = <<>>
    BY <1>1, <1>3, OnlyTo
  <2>2. situation(d)' = situation(d) /\ facing(d)' = facing(d)
    BY MatchesKept
  <2> QED BY <1>1, <1>2, <1>3, <2>1, <2>2, HoldsKept
<1>4. HoldsOf(c)'
  <2> DEFINE a == at[c]
             r == toClient[c]
             q == toServer[c]
             p == peer[c]
             k == consent[c]
             l == username[c] # Null
  <2>1. x \in Server!Message /\ mail(sent', c) = <<x>>
    BY <1>1, OnlyTo
  <2>2. situation(c)' = situation(c) /\ facing(c)' = facing(c)
    BY MatchesKept
  <2>3. q[1].type = "REQ_LOGIN" => situation(c) = "free"
    BY <1>1, Sender, Playing, Free
  <2>4. /\ q \in Seq(Request) /\ r \in Seq(Server!Message) /\ a \in Place /\ l \in BOOLEAN
    BY <1>1, Members
  <2>5. Known_login(a, r, q, l, TRUE) /\ Holds(a, r, q, situation(c), facing(c), p, k)
    BY DEF LoginOf, HoldsOf
  <2> HIDE DEF a, r, p, k, l
  <2>6. Holds(a, arrives(a, r, x), Tail(q), situation(c), facing(c), p, k)
    <3> DEFINE s == situation(c)
               o == facing(c)
    <3>1. \/ q[1].type = "REQ_LOGIN" /\ x.type = "ANS_LOGIN" /\ s = "free"
          \/ q[1].type = "REQ_WHO" /\ x.type = "ANS_WHO"
          \/ q[1].type = "REQ_PLAY" /\ x.type = "ANS_PLAY" /\ x.response # "PLAY_ACCEPT"
      BY <2>3
    <3> HIDE DEF s, o
    <3>2. Holds(a, r, q, s, o, p, k)
      BY <2>5 DEF s, o
    <3>3. q # <<>>
      OBVIOUS
    <3> HIDE DEF q
    <3>4. Holds(a, arrives(a, r, x), Tail(q), s, o, p, k)
      BY ONLY <2>1, <2>4, <2>5, <3>1, <3>2, <3>3, Replied
    <3> QED BY <3>4 DEF s, o
  <2> QED BY <1>1, <1>2, <2>1, <2>2, <2>6, Addressed DEF a, r, p, k
<1> QED BY <1>3, <1>4

\* The login.
LEMMA LoginHolds ==
  ASSUME Base, Base', ~overlap, NEW c \in Client, c \in connected,
         \A d \in Client : LoginOf(d) /\ HoldsOf(d),
         toServer[c] # <<>>, deliver, UNCHANGED clientVars,
         toServer' = [toServer EXCEPT ![c] = Tail(@)],
         toServer[c][1].type = "REQ_LOGIN", NEW u, Server!do_login(c, u)
  PROVE  \A d \in Client : HoldsOf(d)'
<1>1. username[c] = Null
  BY Sender DEF Base
<1>2. username \in [Client -> Name \cup {Null}]
  BY DEF Base, Server!Inv, Server!TypeOK
<1>3. PICK x : sent' = <<x>> /\ x.to = c /\ x.type = "ANS_LOGIN"
  BY DEF Server!do_login, Server!AnsLogin
<1>4. \A d \in Client : username[d] # Null => username'[d] = username[d]
  BY <1>1, <1>2 DEF Server!do_login, Server!login_client
<1>5. UNCHANGED <<match, heap>>
  BY DEF Server!do_login
<1> QED BY <1>3, <1>4, <1>5, AnswerHolds

\* The list of the players.
LEMMA WhoHolds ==
  ASSUME Base, Base', ~overlap, NEW c \in Client, c \in connected,
         \A d \in Client : LoginOf(d) /\ HoldsOf(d),
         toServer[c] # <<>>, deliver, UNCHANGED clientVars,
         toServer' = [toServer EXCEPT ![c] = Tail(@)],
         toServer[c][1].type = "REQ_WHO", Server!send_client_list(c)
  PROVE  \A d \in Client : HoldsOf(d)'
<1>1. PICK x : sent' = <<x>> /\ x.to = c /\ x.type = "ANS_WHO"
  BY DEF Server!send_client_list
<1>2. UNCHANGED <<match, heap>> /\ UNCHANGED username
  BY DEF Server!send_client_list
<1> QED BY <1>1, <1>2, AnswerHolds

\* A request to play: the two players of the new match, and the others.
LEMMA AskHolds ==
  ASSUME Base, Base', ~overlap, ~overlap', NEW c \in Client, c \in connected,
         \A d \in Client : LoginOf(d) /\ HoldsOf(d),
         toServer[c] # <<>>, deliver, UNCHANGED clientVars,
         toServer' = [toServer EXCEPT ![c] = Tail(@)],
         toServer[c][1].type = "REQ_PLAY",
         Server!process_play_request(c, toServer[c][1].opponent),
         ~\E n \in DOMAIN sent' : /\ sent'[n].type = "REQ_PLAY"
                                  /\ about_a_match(toServer[sent'[n].to])
  PROVE  \A d \in Client : HoldsOf(d)'
<1> DEFINE u == toServer[c][1].opponent
<1>1. Types /\ Server!Inv /\ Server!Inv' /\ Server!TypeOK /\ Server!OwnMatch /\ Server!LoginTable
  BY DEF Base, Server!Inv
<1>2. /\ toServer'[c] = Tail(toServer[c])
      /\ \A d \in Client : d # c => toServer'[d] = toServer[d]
  BY <1>1 DEF Types
<1>3. UNCHANGED <<connected, client_list, username>>
  BY DEF Server!process_play_request
<1>4. CASE \E res : res # "PLAY_ACCEPT" /\ sent' = <<Server!AnsPlay(c, res, c)>>
                    /\ UNCHANGED <<match, heap>>
  <2>1. PICK x : sent' = <<x>> /\ x.to = c /\ x.type = "ANS_PLAY" /\ x.response # "PLAY_ACCEPT"
    BY <1>4 DEF Server!AnsPlay
  <2> QED BY <1>3, <1>4, <2>1, AnswerHolds
<1>5. ASSUME NEW e \in Server!get_clients_by_username(u), e # c, ~Server!busy(e),
             Server!add_match(c, e), sent' = <<Server!ReqPlay(e, username[c])>>,
             overlap' = (overlap \/ match[c] # Null)
      PROVE  \A d \in Client : HoldsOf(d)'
  <2> DEFINE x == Server!ReqPlay(e, username[c])
  <2>1. /\ e \in Client /\ e \in connected /\ username[e] = u /\ username[e] # Null
        /\ match[e] = Null /\ match[c] = Null
    BY <1>1, <1>5 DEF Server!get_clients_by_username, Server!LoginTable, Server!logged_in,
                      Server!busy, Server!TypeOK
  <2>2. PICK w \in Match :
          /\ heap[w] = Null
          /\ heap' = [heap EXCEPT ![w] = [player1 |-> c, player2 |-> e,
                                          awaiting_reply |-> TRUE]]
          /\ match' = [match EXCEPT ![c] = w, ![e] = w]
    BY <1>5 DEF Server!add_match
  <2>3. /\ match'[c] = w /\ match'[e] = w /\ w # Null
        /\ heap'[w] = [player1 |-> c, player2 |-> e, awaiting_reply |-> TRUE]
        /\ \A d \in Client : d \notin {c, e} => match'[d] = match[d]
        /\ \A v \in Match : v # w => heap'[v] = heap[v]
    BY <1>1, <1>5, <2>1, <2>2, NullAssumption DEF Server!TypeOK
  <2>4. /\ situation(c)' = "asker" /\ facing(c)' = u
        /\ situation(e)' = "invited" /\ facing(e)' = username[c]
    BY <1>3, <1>5, <2>1, <2>3 DEF situation, facing
  <2>5. /\ situation(e) = "free"
    BY <2>1, Free
  <2>6. x.to = e /\ x.type = "REQ_PLAY" /\ x.opponent = username[c] /\ sent' = <<x>>
    BY <1>5 DEF Server!ReqPlay
  <2> HIDE DEF x, u
  <2>7. /\ x \in Server!Message /\ mail(sent', e) = <<x>>
        /\ \A d \in Client : d # e => mail(sent', d) = <<>>
    BY <1>1, <2>6, OnlyTo
  <2>8. HoldsOf(c)'
    <3> DEFINE a == at[c]
               r == toClient[c]
               q == toServer[c]
               p == peer[c]
               k == consent[c]
               l == username[c] # Null
               s == situation(c)
               o == facing(c)
    <3>1. /\ q \in Seq(Request) /\ r \in Seq(Server!Message) /\ a \in Place /\ l \in BOOLEAN
          /\ Known_login(a, r, q, l, TRUE) /\ Holds(a, r, q, s, o, p, k)
          /\ q # <<>> /\ q[1].type = "REQ_PLAY" /\ q[1].opponent = u
      BY <1>1, Members DEF LoginOf, HoldsOf, u
    <3> HIDE DEF a, r, q, p, k, l, s, o
    <3>2. Holds(a, r, Tail(q), "asker", u, p, k)
      BY ONLY <3>1, Asked
    <3> QED BY <1>1, <1>2, <1>5, <2>4, <2>7, <3>2, Silent DEF a, r, q, p, k
  <2>9. HoldsOf(e)'
    <3> DEFINE a == at[e]
               r == toClient[e]
               q == toServer[e]
               p == peer[e]
               k == consent[e]
               o == facing(e)
    <3>1. /\ q \in Seq(Request) /\ r \in Seq(Server!Message) /\ a \in Place
      BY <1>1, <2>1, Members
    <3>2. Known_login(a, r, q, TRUE, TRUE)
      <4>1. (username[e] # Null) = TRUE /\ (e \in connected) = TRUE
        BY <2>1
      <4> QED BY <2>1, <4>1 DEF LoginOf
    <3>3. Holds(a, r, q, "free", o, p, k)
      BY <2>1, <2>5 DEF HoldsOf
    <3>4. \A i \in 1 .. Len(q) : ~About(q[i])
      <4>1. DOMAIN sent' = {1} /\ sent'[1] = x
        BY <2>6
      <4>2. ~about_a_match(q)
        BY <2>6, <4>1
      <4>3. DOMAIN q = 1 .. Len(q)
        BY <3>1
      <4> QED BY <4>2, <4>3 DEF about_a_match, About
    <3> HIDE DEF a, r, q, p, k, o
    <3>5. Holds(a, arrives(a, r, x), q, "invited", x.opponent, p, k)
      BY ONLY <2>6, <2>7, <3>1, <3>2, <3>3, <3>4, Called
    <3> QED BY <1>1, <1>2, <1>5, <2>1, <2>4, <2>6, <2>7, <3>5, Addressed DEF a, r, q, p, k
  <2>10. ASSUME NEW d \in Client, d \notin {c, e} PROVE HoldsOf(d)'
    <3>1. match'[d] = match[d]
      BY <2>3, <2>10
    <3>2. ASSUME match[d] # Null PROVE heap'[match[d]] = heap[match[d]]
      <4>1. d \in connected
        BY <3>2, Playing
      <4>2. heap[match[d]] # Null /\ match[d] \in Match
        BY <1>1, <3>2, <4>1 DEF Server!OwnMatch, Server!TypeOK
      <4> QED BY <2>2, <2>3, <4>2
    <3>3. situation(d)' = situation(d) /\ facing(d)' = facing(d)
      BY <1>3, <3>1, <3>2, Bystander
    <3>4. mail(sent', d) = <<>>
      BY <2>7, <2>10
    <3> QED BY <1>1, <1>2, <2>10, <3>3, <3>4, HoldsKept
  <2> QED BY <2>8, <2>9, <2>10
<1> QED BY <1>4, <1>5 DEF Server!process_play_request

\* The situations of the two players of a match.
LEMMA Situations ==
  ASSUME Base, ~overlap, NEW c \in connected, match[c] # Null
  PROVE  \E e \in Client :
           /\ e = Server!Opponent(c) /\ e # c /\ e \in connected
           /\ c \in Client /\ username[c] # Null /\ username[e] # Null
           /\ match[c] \in Match /\ match[e] = match[c]
           /\ \/ heap[match[c]].player1 = c /\ heap[match[c]].player2 = e
              \/ heap[match[c]].player1 = e /\ heap[match[c]].player2 = c
           /\ Server!Awaiting(c) =>
                /\ situation(c) \in {"asker", "invited"}
                /\ situation(e) \in {"asker", "invited"}
                /\ c # heap[match[c]].player1 => situation(c) = "invited" /\ situation(e) = "asker"
           /\ ~Server!Awaiting(c) => situation(c) = "game" /\ situation(e) = "game"
           /\ c = heap[match[c]].player1 => situation(c) # "invited"
           /\ facing(c) = username[e] /\ facing(e) = username[c]
           /\ \A d \in Client \ {c, e} : match[d] # match[c]
<1>1. Server!Inv /\ Server!MatchIntegrity
  BY DEF Base
<1>2. PICK e \in Client :
           /\ e = Server!Opponent(c) /\ e # c /\ e \in connected /\ e \in client_list
           /\ c \in client_list /\ c \in Client
           /\ username[c] # Null /\ username[e] # Null
           /\ match[c] \in Match /\ match[e] = match[c]
           /\ \/ heap[match[c]].player1 = c /\ heap[match[c]].player2 = e
              \/ heap[match[c]].player1 = e /\ heap[match[c]].player2 = c
           /\ heap[match[c]] # Null /\ heap[match[c]].awaiting_reply \in BOOLEAN
           /\ facing(c) = username[e] /\ facing(e) = username[c]
           /\ \A d \in connected : match[d] = match[c] => d \in {c, e}
  BY <1>1, Pair
<1>3. ASSUME Server!Awaiting(c)
      PROVE  /\ situation(c) \in {"asker", "invited"}
             /\ situation(e) \in {"asker", "invited"}
             /\ c # heap[match[c]].player1 => situation(c) = "invited" /\ situation(e) = "asker"
  BY <1>2, <1>3 DEF Server!Awaiting, situation
<1>4. ASSUME ~Server!Awaiting(c) PROVE situation(c) = "game" /\ situation(e) = "game"
  BY <1>2, <1>4 DEF Server!Awaiting, situation
<1>5. c = heap[match[c]].player1 => situation(c) # "invited"
  BY <1>2 DEF situation
<1>6. \A d \in Client \ {c, e} : match[d] # match[c]
  BY <1>2, Playing
<1> QED BY <1>2, <1>3, <1>4, <1>5, <1>6

\* A change of one match, seen by who is not in it.
LEMMA OthersKept ==
  ASSUME Base, ~overlap, NEW d \in Client,
         match[d] # Null => match'[d] = match[d] /\ heap'[match[d]] = heap[match[d]],
         match[d] = Null => match'[d] = Null,
         \A b \in Client : match[b] # Null /\ match[b] = match[d] => username'[b] = username[b]
  PROVE  situation(d)' = situation(d) /\ facing(d)' = facing(d)
<1>1. CASE match[d] = Null
  BY <1>1, Bystander
<1>2. CASE match[d] # Null
  <2>1. d \in connected
    BY <1>2, Playing
  <2>2. PICK e \in Client :
           /\ d \in Client /\ match[e] = match[d]
           /\ \/ heap[match[d]].player1 = d /\ heap[match[d]].player2 = e
              \/ heap[match[d]].player1 = e /\ heap[match[d]].player2 = d
    BY <1>2, <2>1, Situations
  <2>3. username'[d] = username[d] /\ username'[e] = username[e]
    BY <1>2, <2>2
  <2> QED BY <1>2, <2>2, <2>3, Bystander
<1> QED BY <1>1, <1>2

\* The end of c's match, for everybody.
LEMMA EndedMatch ==
  ASSUME Base, ~overlap, NEW c \in connected, match[c] # Null,
         Server!delete_match(match[c]), NEW e \in Client, e = Server!Opponent(c),
         \A d \in Client : d # c => username'[d] = username[d]
  PROVE  /\ situation(c)' = "free" /\ facing(c)' = Null
         /\ situation(e)' = "free" /\ facing(e)' = Null
         /\ \A d \in Client : d # c /\ d # e =>
              situation(d)' = situation(d) /\ facing(d)' = facing(d)
<1>1. Server!Inv /\ Server!TypeOK
  BY DEF Base, Server!Inv
<1>2. \A d \in Client \ {c, e} : match[d] # match[c]
  BY Situations
<1>3. /\ match'[c] = Null /\ match'[e] = Null
      /\ \A d \in Client : d # c /\ d # e => match'[d] = match[d]
      /\ \A w \in Match : w # match[c] => heap'[w] = heap[w]
  BY <1>1, Deleted
<1>4. /\ situation(c)' = "free" /\ facing(c)' = Null
      /\ situation(e)' = "free" /\ facing(e)' = Null
  BY <1>3 DEF situation, facing
<1>5. ASSUME NEW d \in Client, d # c, d # e
      PROVE  situation(d)' = situation(d) /\ facing(d)' = facing(d)
  <2>1. match'[d] = match[d] /\ match[d] # match[c]
    BY <1>2, <1>3, <1>5
  <2>2. match[d] # Null => match[d] \in Match
    BY <1>1 DEF Server!TypeOK
  <2>3. \A b \in Client : match[b] # Null /\ match[b] = match[d] => username'[b] = username[b]
    BY <2>1
  <2>4. match[d] # Null => heap'[match[d]] = heap[match[d]]
    BY <1>3, <2>1, <2>2
  <2> QED BY <2>1, <2>3, <2>4, OthersKept
<1> QED BY <1>4, <1>5

\* What is known of a client in no match does not tell an opponent's name.
LEMMA FreeFacing ==
  ASSUME NEW a, NEW r, NEW q, NEW o, NEW v, NEW p, NEW k,
         Holds(a, r, q, "free", o, p, k)
  PROVE  Holds(a, r, q, "free", v, p, k)
  BY DEF Holds, Known, Agrees

\* The server has read the end of what a client had with a match, or of its stream.
LEMMA Ended ==
  ASSUME NEW S, NEW r \in Seq(S), NEW T, NEW q \in Seq(T), q # <<>>, NEW a \in Place,
         NEW s, NEW o, NEW p, NEW k, NEW v, NEW l \in BOOLEAN,
         Holds(a, r, q, s, o, p, k), Known_login(a, r, q, l, TRUE),
         \/ q[1].type \in {"MSG_ENDGAME", "EOF"}
         \/ q[1].type = "REQ_PLAY_ANS" /\ s = "free"
  PROVE  Holds(a, r, Tail(q), "free", v, p, k)
<1>1. CASE q[1].type = "EOF"
  <2>1. Stream(q, s)
    BY DEF Holds, Known
  <2>2. Stream(Tail(q), "free")
    BY ONLY <2>1, StreamTailed, q \in Seq(T), q # <<>>
  <2>3. a = "off" /\ r = <<>>
    <3>1. a = "off"
      BY <1>1, <2>1, Alone
    <3> QED BY <3>1 DEF Known_login
  <2> QED BY <2>2, <2>3, Gone
<1>2. CASE q[1].type # "EOF"
  BY <1>2, Forgetting
<1> QED BY <1>1, <1>2

\* The end of a match, or of its sender's stream.
LEMMA TerminateHolds ==
  ASSUME Base, Base', ~overlap, NEW c \in Client, c \in connected,
         \A d \in Client : LoginOf(d) /\ HoldsOf(d),
         toServer[c] # <<>>, deliver, UNCHANGED clientVars,
         toServer' = [toServer EXCEPT ![c] = Tail(@)],
         toServer[c][1].type \in {"MSG_ENDGAME", "EOF"},
         NEW g, Server!terminate_match(c, g),
         \A d \in Client : d # c => username'[d] = username[d]
  PROVE  \A d \in Client : HoldsOf(d)'
<1>1. Types /\ Server!Inv /\ Server!Inv'
  BY DEF Base
<1>2. /\ toServer'[c] = Tail(toServer[c])
      /\ \A d \in Client : d # c => toServer'[d] = toServer[d]
  BY <1>1 DEF Types
<1>3. ASSUME mail(sent', c) = <<>>, situation(c)' = "free"
      PROVE  HoldsOf(c)'
  <2> DEFINE a == at[c]
             r == toClient[c]
             q == toServer[c]
             p == peer[c]
             k == consent[c]
             l == username[c] # Null
             s == situation(c)
             o == facing(c)
             v == facing(c)'
  <2>1. /\ q \in Seq(Request) /\ r \in Seq(Server!Message) /\ a \in Place /\ l \in BOOLEAN
        /\ Known_login(a, r, q, l, TRUE) /\ Holds(a, r, q, s, o, p, k)
        /\ q # <<>> /\ q[1].type \in {"MSG_ENDGAME", "EOF"}
    BY <1>1, Members DEF LoginOf, HoldsOf
  <2> HIDE DEF a, r, q, p, k, l, s, o, v
  <2>2. Holds(a, r, Tail(q), "free", v, p, k)
    BY ONLY <2>1, Ended
  <2> QED BY <1>1, <1>2, <1>3, <2>2, Silent DEF a, r, q, p, k, v
<1>4. CASE match[c] = Null /\ sent' = <<>> /\ UNCHANGED <<match, heap>>
  <2>1. \A d \in Client : mail(sent', d) = <<>>
    BY <1>4, NoMail
  <2>2. ASSUME NEW d \in Client, d # c PROVE HoldsOf(d)'
    <3>1. \A b \in Client : match[b] # Null /\ match[b] = match[d] => username'[b] = username[b]
      BY <1>4
    <3>2. situation(d)' = situation(d) /\ facing(d)' = facing(d)
      BY <1>4, <3>1, OthersKept
    <3> QED BY <1>1, <1>2, <2>1, <2>2, <3>2, HoldsKept
  <2>3. HoldsOf(c)'
    BY <1>3, <1>4, <2>1, Free
  <2> QED BY <2>2, <2>3
<1>5. CASE /\ match[c] # Null /\ sent' = <<Server!EndMessage(c, g)>>
           /\ Server!delete_match(match[c])
  <2>1. PICK e \in Client :
           /\ e = Server!Opponent(c) /\ e # c /\ e \in connected /\ username[e] # Null
           /\ Server!Awaiting(c) => situation(e) \in {"asker", "invited"}
           /\ ~Server!Awaiting(c) => situation(e) = "game"
    BY <1>5, Situations
  <2>2. /\ situation(c)' = "free" /\ facing(c)' = Null
        /\ situation(e)' = "free" /\ facing(e)' = Null
        /\ \A d \in Client : d # c /\ d # e =>
              situation(d)' = situation(d) /\ facing(d)' = facing(d)
    BY <1>5, <2>1, EndedMatch
  <2>3. PICK x : /\ sent' = <<x>> /\ x.to = e
                 /\ Server!Awaiting(c) => x.type = "ANS_PLAY" /\ x.response # "PLAY_ACCEPT"
                 /\ ~Server!Awaiting(c) => x.type = "MSG_ENDGAME"
    BY <1>5, <2>1 DEF Server!EndMessage, Server!AnsPlay, Server!Endgame
  <2>4. /\ x \in Server!Message /\ mail(sent', e) = <<x>>
        /\ \A d \in Client : d # e => mail(sent', d) = <<>>
    BY <1>1, <2>3, OnlyTo
  <2>5. HoldsOf(c)'
    BY <1>3, <2>1, <2>2, <2>4
  <2>6. HoldsOf(e)'
    <3> DEFINE a == at[e]
               r == toClient[e]
               q == toServer[e]
               p == peer[e]
               k == consent[e]
               o == facing(e)
               s == situation(e)
    <3>1. /\ q \in Seq(Request) /\ r \in Seq(Server!Message) /\ a \in Place
      BY <1>1, Members
    <3>2. Known_login(a, r, q, TRUE, TRUE)
      <4>1. (username[e] # Null) = TRUE /\ (e \in connected) = TRUE
        BY <2>1
      <4> QED BY <4>1 DEF LoginOf
    <3>3. Holds(a, r, q, s, o, p, k)
      BY DEF HoldsOf
    <3>4. \/ s \in {"asker", "invited"} /\ x.type = "ANS_PLAY" /\ x.response # "PLAY_ACCEPT"
          \/ s = "game" /\ x.type = "MSG_ENDGAME"
      BY <2>1, <2>3
    <3> HIDE DEF a, r, q, p, k, o, s
    <3>5. Holds(a, arrives(a, r, x), q, "free", Null, p, k)
      <4>1. CASE s \in {"asker", "invited"} /\ x.type = "ANS_PLAY" /\ x.response # "PLAY_ACCEPT"
        BY ONLY <2>4, <3>1, <3>2, <3>3, <4>1, LetGo
      <4>2. CASE s = "game" /\ x.type = "MSG_ENDGAME"
        BY ONLY <2>4, <3>1, <3>2, <3>3, <4>2, LeftAlone
      <4> QED BY <3>4, <4>1, <4>2
    <3> QED BY <1>1, <1>2, <2>1, <2>2, <2>4, <3>5, Addressed DEF a, r, q, p, k
  <2>7. ASSUME NEW d \in Client, d # c, d # e PROVE HoldsOf(d)'
    BY <1>1, <1>2, <2>2, <2>4, <2>7, HoldsKept
  <2> QED BY <2>5, <2>6, <2>7
<1> QED BY <1>4, <1>5 DEF Server!terminate_match

\* The invited player's decision reaches both.
LEMMA DecisionHolds ==
  ASSUME Base, Base', ~overlap, NEW c \in Client, c \in connected,
         \A d \in Client : LoginOf(d) /\ HoldsOf(d),
         toServer[c] # <<>>, deliver, UNCHANGED clientVars,
         toServer' = [toServer EXCEPT ![c] = Tail(@)],
         toServer[c][1].type = "REQ_PLAY_ANS",
         Server!process_play_req_answer(c, toServer[c][1].accept)
  PROVE  \A d \in Client : HoldsOf(d)'
<1> DEFINE g == toServer[c][1].accept
<1>1. Types /\ Server!Inv /\ Server!Inv' /\ Server!TypeOK
  BY DEF Base, Server!Inv
<1>2. /\ toServer'[c] = Tail(toServer[c])
      /\ \A d \in Client : d # c => toServer'[d] = toServer[d]
  BY <1>1 DEF Types
<1>3. UNCHANGED username
  BY DEF Server!process_play_req_answer
<1>4. situation(c) \in {"free", "invited"}
  <2>1. 1 \in 1 .. Len(toServer[c])
    BY <1>1, Sender
  <2>2. Stream(toServer[c], situation(c))
    BY DEF HoldsOf, Holds, Known
  <2> QED BY <2>1, <2>2 DEF Stream
<1>5. /\ toServer[c] \in Seq(Request) /\ toClient[c] \in Seq(Server!Message) /\ at[c] \in Place
      /\ Known_login(at[c], toClient[c], toServer[c], username[c] # Null, TRUE)
      /\ Holds(at[c], toClient[c], toServer[c], situation(c), facing(c), peer[c], consent[c])
  BY <1>1, Members DEF LoginOf, HoldsOf
<1>6. CASE Server!answer_ignored(c) /\ sent' = <<>> /\ UNCHANGED <<match, heap>>
  <2>1. situation(c) = "free"
    BY <1>4, <1>6, Situations, Free DEF Server!answer_ignored
  <2>2. \A d \in Client : mail(sent', d) = <<>>
    BY <1>6, NoMail
  <2>3. \A d \in Client : situation(d)' = situation(d) /\ facing(d)' = facing(d)
    BY <1>3, <1>6, MatchesKept
  <2>4. ASSUME NEW d \in Client, d # c PROVE HoldsOf(d)'
    BY <1>1, <1>2, <2>2, <2>3, <2>4, HoldsKept
  <2>5. HoldsOf(c)'
    <3> DEFINE a == at[c]
               r == toClient[c]
               q == toServer[c]
               p == peer[c]
               k == consent[c]
               l == username[c] # Null
               o == facing(c)
    <3>1. /\ q \in Seq(Request) /\ r \in Seq(Server!Message) /\ a \in Place /\ l \in BOOLEAN
          /\ Known_login(a, r, q, l, TRUE) /\ Holds(a, r, q, "free", o, p, k)
          /\ q # <<>> /\ q[1].type = "REQ_PLAY_ANS"
      BY <1>5, <2>1
    <3> HIDE DEF a, r, q, p, k, l, o
    <3>2. Holds(a, r, Tail(q), "free", o, p, k)
      BY ONLY <3>1, Ended
    <3> QED BY <1>1, <1>2, <2>1, <2>2, <2>3, <3>2, Silent DEF a, r, q, p, k, o
  <2> QED BY <2>4, <2>5
<1>7. ASSUME ~Server!answer_ignored(c),
             NEW res, res = IF g THEN "PLAY_ACCEPT" ELSE "PLAY_DECLINE",
             sent' = <<Server!AnsPlay(heap[match[c]].player1, res, heap[match[c]].player2),
                       Server!AnsPlay(heap[match[c]].player2, res, heap[match[c]].player1)>>,
             IF g THEN heap' = [heap EXCEPT ![match[c]].awaiting_reply = FALSE] /\ UNCHANGED match
                  ELSE Server!delete_match(match[c])
      PROVE  \A d \in Client : HoldsOf(d)'
  <2>1. match[c] # Null /\ c # heap[match[c]].player1 /\ situation(c) = "invited"
    BY <1>4, <1>7, Free DEF Server!answer_ignored
  <2>2. PICK e \in Client :
           /\ e = Server!Opponent(c) /\ e # c /\ e \in connected
           /\ username[c] # Null /\ username[e] # Null
           /\ match[c] \in Match /\ match[e] = match[c]
           /\ heap[match[c]].player1 = e /\ heap[match[c]].player2 = c
           /\ Server!Awaiting(c) => situation(c) = "invited" /\ situation(e) = "asker"
           /\ ~Server!Awaiting(c) => situation(c) = "game"
           /\ \A d \in Client \ {c, e} : match[d] # match[c]
    BY <2>1, Situations
  <2>3. situation(e) = "asker"
    BY <2>1, <2>2
  <2>4. PICK x, y : /\ sent' = <<x, y>> /\ x.to = e /\ y.to = c
                    /\ x.type = "ANS_PLAY" /\ y.type = "ANS_PLAY"
                    /\ x.response = res /\ y.response = res
    BY <1>7, <2>2 DEF Server!AnsPlay
  <2>5. /\ x \in Server!Message /\ y \in Server!Message
        /\ mail(sent', e) = <<x>> /\ mail(sent', c) = <<y>>
        /\ \A d \in Client : d # c /\ d # e => mail(sent', d) = <<>>
    <3>1. sent' \in Seq(Server!Message)
      BY <1>1 DEF Server!Inv, Server!TypeOK
    <3>2. x \in Server!Message /\ y \in Server!Message
      BY <2>4, <3>1
    <3>3. ASSUME NEW d
          PROVE  mail(sent', d) = IF x.to = d THEN <<x>> ELSE IF y.to = d THEN <<y>> ELSE <<>>
      BY <2>2, <2>4, TwoMails
    <3> QED BY <2>2, <2>4, <3>2, <3>3
  <2> DEFINE z == IF g THEN "game" ELSE "free"
  <2>6. /\ situation(c)' = z /\ situation(e)' = z
        /\ g => facing(c)' = facing(c) /\ facing(e)' = facing(e)
        /\ \A d \in Client : d # c /\ d # e =>
              situation(d)' = situation(d) /\ facing(d)' = facing(d)
    <3>1. CASE g
      <4>1. heap' = [heap EXCEPT ![match[c]].awaiting_reply = FALSE] /\ UNCHANGED match
        BY <1>7, <3>1
      <4>2. /\ heap[match[c]] \in Server!MatchRecord
            /\ heap \in [Match -> Server!MatchRecord \cup {Null}]
            /\ match \in [Client -> Match \cup {Null}]
        BY <1>1, <2>1, Assumed, Server!MatchOf DEF Server!Inv, Server!TypeOK
      <4>3. /\ heap'[match[c]].awaiting_reply = FALSE
            /\ heap'[match[c]].player1 = e /\ heap'[match[c]].player2 = c
            /\ \A w \in Match : w # match[c] => heap'[w] = heap[w]
        BY <2>2, <4>1, <4>2 DEF Server!MatchRecord
      <4>4. /\ situation(c)' = "game" /\ situation(e)' = "game"
            /\ facing(c)' = facing(c) /\ facing(e)' = facing(e)
        BY <1>3, <2>1, <2>2, <4>1, <4>3 DEF situation, facing
      <4>5. ASSUME NEW d \in Client, d # c, d # e
            PROVE  situation(d)' = situation(d) /\ facing(d)' = facing(d)
        <5>1. match'[d] = match[d] /\ (match[d] # Null => heap'[match[d]] = heap[match[d]])
          BY <2>2, <4>1, <4>2, <4>3, <4>5
        <5> QED BY <1>3, <5>1, Bystander
      <4> QED BY <3>1, <4>4, <4>5
    <3>2. CASE ~g
      <4>1. Server!delete_match(match[c])
        BY <1>7, <3>2
      <4> QED BY <1>3, <2>1, <2>2, <3>2, <4>1, EndedMatch
    <3> QED BY <3>1, <3>2
  <2>7. \/ res = "PLAY_ACCEPT" /\ g /\ z = "game"
        \/ res # "PLAY_ACCEPT" /\ z = "free"
    BY <1>7
  <2> HIDE DEF z
  <2>8. HoldsOf(c)'
    <3> DEFINE a == at[c]
               r == toClient[c]
               q == toServer[c]
               p == peer[c]
               k == consent[c]
               l == username[c] # Null
               o == facing(c)
               v == facing(c)'
    <3>1. /\ q \in Seq(Request) /\ r \in Seq(Server!Message) /\ a \in Place /\ l \in BOOLEAN
          /\ Known_login(a, r, q, l, TRUE) /\ Holds(a, r, q, "invited", o, p, k)
          /\ q # <<>> /\ q[1].type = "REQ_PLAY_ANS"
      BY <1>5, <2>1
    <3>2. \/ y.response = "PLAY_ACCEPT" /\ q[1].accept /\ z = "game"
          \/ y.response # "PLAY_ACCEPT" /\ z = "free"
      BY <2>4, <2>7
    <3>3. z = "game" => v = o
      BY <2>6, <2>7
    <3>4. "invited" # "free"
      OBVIOUS
    <3> HIDE DEF a, r, q, p, k, l, o, v
    <3>5. Holds(a, arrives(a, r, y), Tail(q), z, o, p, k)
      BY ONLY <2>4, <2>5, <3>1, <3>2, <3>4, Decided
    <3>6. Holds(a, arrives(a, r, y), Tail(q), z, v, p, k)
      <4>1. CASE z = "game"
        BY <3>3, <3>5, <4>1
      <4>2. CASE z = "free"
        BY <3>5, <4>2, FreeFacing
      <4> QED BY <2>7, <4>1, <4>2
    <3> QED BY <1>1, <1>2, <2>5, <2>6, <3>6, Addressed DEF a, r, q, p, k, v
  <2>9. HoldsOf(e)'
    <3> DEFINE a == at[e]
               r == toClient[e]
               q == toServer[e]
               p == peer[e]
               k == consent[e]
               o == facing(e)
               v == facing(e)'
    <3>1. /\ q \in Seq(Request) /\ r \in Seq(Server!Message) /\ a \in Place
      BY <1>1, Members
    <3>2. Known_login(a, r, q, TRUE, TRUE)
      <4>1. (username[e] # Null) = TRUE /\ (e \in connected) = TRUE
        BY <2>2
      <4> QED BY <4>1 DEF LoginOf
    <3>3. Holds(a, r, q, "asker", o, p, k)
      BY <2>3 DEF HoldsOf
    <3>4. g => v = o
      BY <2>6
    <3> HIDE DEF a, r, q, p, k, o, v
    <3>5. Holds(a, arrives(a, r, x), q, z, v, p, k)
      <4>1. CASE res = "PLAY_ACCEPT" /\ g /\ z = "game"
        <5>1. Holds(a, arrives(a, r, x), q, "game", o, p, k)
          BY ONLY <2>4, <2>5, <3>1, <3>2, <3>3, <4>1, Joined
        <5> QED BY <3>4, <4>1, <5>1
      <4>2. CASE res # "PLAY_ACCEPT" /\ z = "free"
        <5>1. "asker" \in {"asker", "invited"}
          OBVIOUS
        <5>2. Holds(a, arrives(a, r, x), q, "free", v, p, k)
          BY ONLY <2>4, <2>5, <3>1, <3>2, <3>3, <4>2, <5>1, LetGo
        <5> QED BY <4>2, <5>2
      <4> QED BY <2>7, <4>1, <4>2
    <3> QED BY <1>1, <1>2, <2>2, <2>5, <2>6, <3>5, Addressed DEF a, r, q, p, k, v
  <2>10. ASSUME NEW d \in Client, d # c, d # e PROVE HoldsOf(d)'
    BY <1>1, <1>2, <2>5, <2>6, <2>10, HoldsKept
  <2> QED BY <2>8, <2>9, <2>10
<1> QED BY <1>6, <1>7 DEF Server!process_play_req_answer

\* A request that has elapsed ends for both players.
LEMMA ElapsedHolds ==
  ASSUME Base, Base', ~overlap, NEW c \in Client, c \in connected,
         \A d \in Client : LoginOf(d) /\ HoldsOf(d),
         deliver, UNCHANGED clientVars, UNCHANGED toServer,
         Server!remove_elapsed_match(c)
  PROVE  \A d \in Client : HoldsOf(d)'
<1>1. Types /\ Server!Inv /\ Server!Inv' /\ Server!TypeOK
  BY DEF Base, Server!Inv
<1>2. UNCHANGED username /\ match[c] # Null /\ Server!Awaiting(c) /\ Server!delete_match(match[c])
  BY DEF Server!remove_elapsed_match, Server!Awaiting
<1>3. PICK e \in Client :
         /\ e = Server!Opponent(c) /\ e # c /\ e \in connected
         /\ username[c] # Null /\ username[e] # Null
         /\ \/ heap[match[c]].player1 = c /\ heap[match[c]].player2 = e
            \/ heap[match[c]].player1 = e /\ heap[match[c]].player2 = c
         /\ situation(c) \in {"asker", "invited"} /\ situation(e) \in {"asker", "invited"}
  BY <1>2, Situations
<1>4. /\ situation(c)' = "free" /\ facing(c)' = Null
      /\ situation(e)' = "free" /\ facing(e)' = Null
      /\ \A d \in Client : d # c /\ d # e =>
            situation(d)' = situation(d) /\ facing(d)' = facing(d)
  BY <1>2, <1>3, EndedMatch
<1>5. PICK x, y : /\ sent' = <<x, y>> /\ x.to # y.to /\ x.to \in {c, e} /\ y.to \in {c, e}
                  /\ x.type = "ANS_PLAY" /\ x.response # "PLAY_ACCEPT"
                  /\ y.type = "ANS_PLAY" /\ y.response # "PLAY_ACCEPT"
  BY <1>3 DEF Server!remove_elapsed_match, Server!AnsPlay
<1>6. /\ x \in Server!Message /\ y \in Server!Message
      /\ \A d \in Client : d # c /\ d # e => mail(sent', d) = <<>>
      /\ \A d \in {c, e} : mail(sent', d) \in {<<x>>, <<y>>}
  <2>1. sent' \in Seq(Server!Message)
    BY <1>1 DEF Server!Inv, Server!TypeOK
  <2>2. x \in Server!Message /\ y \in Server!Message
    BY <1>5, <2>1
  <2>3. ASSUME NEW d
        PROVE  mail(sent', d) = IF x.to = d THEN <<x>> ELSE IF y.to = d THEN <<y>> ELSE <<>>
    BY <1>5, TwoMails
  <2> QED BY <1>3, <1>5, <2>2, <2>3
<1>7. ASSUME NEW d \in {c, e} PROVE HoldsOf(d)'
  <2> DEFINE a == at[d]
             r == toClient[d]
             q == toServer[d]
             p == peer[d]
             k == consent[d]
             s == situation(d)
             o == facing(d)
  <2>1. /\ d \in Client /\ q \in Seq(Request) /\ r \in Seq(Server!Message) /\ a \in Place
    BY <1>1, Members
  <2>2. Known_login(a, r, q, TRUE, TRUE)
    <3>1. (username[d] # Null) = TRUE /\ (d \in connected) = TRUE
      BY <1>3
    <3> QED BY <2>1, <3>1 DEF LoginOf
  <2>3. Holds(a, r, q, s, o, p, k) /\ s \in {"asker", "invited"}
    BY <1>3, <2>1 DEF HoldsOf
  <2>4. PICK m \in Server!Message : /\ mail(sent', d) = <<m>>
                                    /\ m.type = "ANS_PLAY" /\ m.response # "PLAY_ACCEPT"
    BY <1>5, <1>6
  <2> HIDE DEF a, r, q, p, k, s, o
  <2>5. Holds(a, arrives(a, r, m), q, "free", Null, p, k)
    BY ONLY <2>1, <2>2, <2>3, <2>4, LetGo
  <2>6. toServer'[d] = q /\ situation(d)' = "free" /\ facing(d)' = Null
    BY <1>4 DEF q
  <2> QED BY <1>1, <2>1, <2>4, <2>5, <2>6, Addressed DEF a, r, p, k
<1>8. ASSUME NEW d \in Client, d # c, d # e PROVE HoldsOf(d)'
  BY <1>1, <1>4, <1>6, <1>8, HoldsKept
<1> QED BY <1>7, <1>8

---------------------------------------------------------------------------
(* The server's steps.                                                      *)

\* What a crash leaves: nothing more is sent.
LEMMA CrashKeeps ==
  ASSUME IInv, Base', deliver, UNCHANGED clientVars, server' # "running", sent' = <<>>,
         calm' => calm, server = "running"
  PROVE  IInv'
<1>1. /\ Types /\ \A d \in Client : LoginOf(d)
      /\ calm => \A d \in Client : ReadsWell(at[d], toClient[d], peer[d], consent[d])
  BY DEF IInv, Base, Logins, LoginOf, Readings
<1>2. \A d \in Client : toClient'[d] = toClient[d]
  BY <1>1, NoMail, Channel
<1>3. at' = at /\ peer' = peer /\ consent' = consent
  BY DEF clientVars
<1>4. Readings'
  BY <1>1, <1>2, <1>3 DEF Readings
<1> QED BY <1>4 DEF IInv, Logins, Knowledge

\* The handling of a message.
LEMMA ServeInv ==
  ASSUME IInv, NEW c \in Client, serve(c)
  PROVE  IInv'
<1>1. /\ server = "running" /\ Base /\ Good /\ toServer[c] # <<>>
      /\ \A d \in Client : LoginOf(d)
  BY Running DEF serve, IInv, Good
<1>2. Base' /\ c \in connected
  BY <1>1, ServerBase
<1> DEFINE m == toServer[c][1]
<1>3. /\ Server!receive(c, m)
      /\ deliver /\ UNCHANGED clientVars /\ toServer' = [toServer EXCEPT ![c] = Tail(@)]
  BY <1>1, Sender, SameHandlers DEF serve, Base
<1>5. calm' => calm
  <2>1. late => late'
    BY <1>1 DEF serve
  <2>2. overlap => overlap'
    BY <1>3 DEF Server!receive, Server!do_login, Server!send_client_list,
                Server!process_play_request, Server!process_play_req_answer,
                Server!process_endgame, Server!close_client, Server!stale_player_access
  <2> QED BY <1>3, <2>1, <2>2 DEF calm, clientVars
<1>6. CASE Server!stale_player_access(c)
  BY <1>1, <1>2, <1>3, <1>5, <1>6, CrashKeeps DEF Server!stale_player_access
<1>7. CASE ~Server!stale_player_access(c)
  <2>1. server' = "running"
    BY <1>1, <1>3, <1>7
       DEF Server!receive, Server!do_login, Server!send_client_list,
           Server!process_play_request, Server!process_play_req_answer,
           Server!process_endgame, Server!close_client
  <2>2. \A d \in Client : LoginOf(d)'
    BY <1>1, <1>2, <1>3, <2>1, ServeLogins
  <2>3. ASSUME calm'
        PROVE  \A d \in Client : HoldsOf(d)'
    <3>1. /\ ~overlap /\ ~overlap' /\ ~late'
          /\ \A d \in Client : LoginOf(d) /\ HoldsOf(d)
      BY <1>1, <1>5, <2>3 DEF calm, Good
    <3>2. CASE m.type = "REQ_LOGIN"
      BY <1>1, <1>2, <1>3, <3>1, <3>2, LoginHolds DEF Server!receive
    <3>3. CASE m.type = "REQ_WHO"
      BY <1>1, <1>2, <1>3, <3>1, <3>3, WhoHolds DEF Server!receive
    <3>4. CASE m.type = "REQ_PLAY"
      <4>1. ~\E n \in DOMAIN sent' : /\ sent'[n].type = "REQ_PLAY"
                                     /\ about_a_match(toServer[sent'[n].to])
        BY <3>1 DEF serve
      <4> QED BY <1>1, <1>2, <1>3, <3>1, <3>4, <4>1, AskHolds DEF Server!receive
    <3>5. CASE m.type = "REQ_PLAY_ANS"
      <4>1. Server!process_play_req_answer(c, m.accept)
        BY <1>3, <1>7, <3>5 DEF Server!receive
      <4> QED BY <1>1, <1>2, <1>3, <3>1, <3>5, <4>1, DecisionHolds
    <3>6. CASE m.type = "MSG_ENDGAME"
      <4>1. Server!terminate_match(c, m.disconnected) /\ UNCHANGED username
        BY <1>3, <1>7, <3>6 DEF Server!receive, Server!process_endgame
      <4> QED BY <1>1, <1>2, <1>3, <3>1, <3>6, <4>1, TerminateHolds
    <3>7. CASE m.type = "EOF"
      <4>1. Server!terminate_match(c, TRUE) /\ username' = [username EXCEPT ![c] = Null]
        BY <1>3, <1>7, <3>7 DEF Server!receive, Server!close_client, Server!remove_client
      <4>2. \A d \in Client : d # c => username'[d] = username[d]
        BY <1>1, <4>1 DEF Base, Server!Inv, Server!TypeOK
      <4> QED BY <1>1, <1>2, <1>3, <3>1, <3>7, <4>1, <4>2, TerminateHolds
    <3> QED BY <1>3, <1>7, <3>2, <3>3, <3>4, <3>5, <3>6, <3>7 DEF Server!receive
  <2>4. Good'
    BY <2>2, <2>3 DEF Good
  <2> QED BY <1>2, <2>1, <2>4, Running
<1> QED BY <1>6, <1>7

\* An elapsed request.
LEMMA ElapsedInv ==
  ASSUME IInv, NEW c \in Client, elapsed(c)
  PROVE  IInv'
<1>1. Server!elapsed(c) /\ server = "running"
  BY SameElapsed DEF elapsed, Server!elapsed
<1>2. Base /\ Good /\ \A d \in Client : LoginOf(d)
  BY <1>1, Running DEF Good
<1>3. Base' /\ c \in connected
  BY <1>1, <1>2, ServerBase
<1>4. deliver /\ UNCHANGED clientVars /\ UNCHANGED toServer /\ UNCHANGED late
  BY DEF elapsed
<1>5. calm' => calm
  <2>1. overlap' = overlap
    BY <1>1 DEF Server!elapsed, Server!remove_elapsed_match, Server!stale_player_access
  <2> QED BY <1>4, <2>1 DEF calm, clientVars
<1>6. CASE Server!stale_player_access(c)
  BY <1>1, <1>2, <1>3, <1>4, <1>5, <1>6, CrashKeeps DEF Server!stale_player_access
<1>7. CASE Server!remove_elapsed_match(c)
  <2>1. server' = "running"
    BY <1>1, <1>7 DEF Server!remove_elapsed_match
  <2>2. \A d \in Client : LoginOf(d)'
    BY <1>1, <1>2, <1>3, <1>4, ElapsedLogins
  <2>3. ASSUME calm'
        PROVE  \A d \in Client : HoldsOf(d)'
    <3>1. ~overlap /\ \A d \in Client : LoginOf(d) /\ HoldsOf(d)
      BY <1>2, <1>5, <2>3 DEF calm, Good
    <3> QED BY <1>2, <1>3, <1>4, <1>7, <3>1, ElapsedHolds
  <2>4. Good'
    BY <2>2, <2>3 DEF Good
  <2> QED BY <1>3, <2>1, <2>4, Running
<1> QED BY <1>1, <1>6, <1>7 DEF Server!elapsed

\* A signal.
LEMMA ShutdownInv ==
  ASSUME IInv, shutdown
  PROVE  IInv'
<1>1. Server!shutdown /\ server = "running" /\ server' = "exited" /\ overlap' = overlap
  BY SameRest DEF shutdown, Server!shutdown
<1>2. Server!Next
  BY <1>1 DEF Server!Next, Server!go_server
<1>3. Server!Inv' /\ Server!MatchIntegrity'
  BY <1>2, Assumed, Server!NextInv, Server!NextIntegrity DEF IInv, Base
<1>4. Absent'
  BY <1>1 DEF Server!shutdown, Absent
<1>5. UNCHANGED <<toServer, toClient, at, peer, consent, crossed, late>>
  BY DEF shutdown, clientVars
<1>6. Types'
  BY <1>5 DEF IInv, Base, Types
<1>7. Readings'
  BY <1>1, <1>5 DEF IInv, Readings, calm
<1> QED BY <1>1, <1>3, <1>4, <1>6, <1>7 DEF IInv, Base, Logins, Knowledge

\* A new connection.
LEMMA ConnectInv ==
  ASSUME IInv, NEW c \in Client, connect_to_server(c)
  PROVE  IInv'
<1>1. /\ Server!accept_connection(c) /\ server = "running" /\ server' = server
      /\ at[c] = "off" /\ at' = [at EXCEPT ![c] = "login"]
      /\ UNCHANGED <<toServer, toClient, peer, consent, crossed, late, overlap, heap>>
  BY SameRest DEF connect_to_server, Server!accept_connection, go
<1>2. Base /\ Good /\ Types /\ Absent /\ Server!Inv /\ Server!MatchIntegrity /\ Server!TypeOK
  BY <1>1, Running DEF Base, Server!Inv
<1>3. Server!Next
  BY <1>1 DEF Server!Next, Server!go_server, Server!Handle
<1>4. Server!Inv' /\ Server!MatchIntegrity'
  BY <1>2, <1>3, Assumed, Server!NextInv, Server!NextIntegrity
<1>5. /\ c \notin connected /\ connected' = connected \cup {c}
      /\ username' = [username EXCEPT ![c] = Null] /\ match' = [match EXCEPT ![c] = Null]
  BY <1>1 DEF Server!accept_connection
<1>6. match[c] = Null /\ match' = match
  <2>1. match[c] = Null
    BY <1>2, <1>5 DEF Absent
  <2> QED BY <1>2, <1>5, <2>1 DEF Server!TypeOK
<1>7. Absent'
  BY <1>2, <1>5, <1>6 DEF Absent
<1>8. Types'
  BY <1>1, <1>2 DEF Types, Place
<1>9. /\ at'[c] = "login" /\ username'[c] = Null
      /\ \A d \in Client : d # c => at'[d] = at[d] /\ username'[d] = username[d]
  BY <1>1, <1>2, <1>5 DEF Types, Server!TypeOK
<1>10. toClient[c] = <<>> /\ toServer[c] = <<>>
  BY <1>2, <1>5 DEF Good, LoginOf, Known_login
<1>11. \A d \in Client : LoginOf(d)'
  <2>1. ASSUME NEW d \in Client, d # c PROVE LoginOf(d)'
    <3>1. LoginOf(d)
      BY <1>2 DEF Good
    <3> QED BY <1>1, <1>5, <1>9, <2>1, <3>1 DEF LoginOf
  <2>2. LoginOf(c)'
    <3>1. (username'[c] # Null) = FALSE /\ (c \in connected') = TRUE
      BY <1>5, <1>9
    <3>2. Known_login(at'[c], toClient'[c], toServer'[c], FALSE, TRUE)
      BY <1>1, <1>9, <1>10, LoginConnected
    <3> QED BY <3>1, <3>2 DEF LoginOf
  <2> QED BY <2>1, <2>2
<1>12. ASSUME calm'
       PROVE  \A d \in Client : HoldsOf(d)'
  <2>1. ~overlap /\ \A d \in Client : HoldsOf(d)
    BY <1>1, <1>2, <1>12 DEF calm, Good
  <2>2. ASSUME NEW d \in Client, d # c PROVE HoldsOf(d)'
    <3>1. situation(d)' = situation(d) /\ facing(d)' = facing(d)
      BY <1>1, <1>2, <1>6, <1>9, <2>1, OthersKept
    <3> QED BY <1>1, <1>9, <2>1, <2>2, <3>1 DEF HoldsOf
  <2>3. HoldsOf(c)'
    <3>1. situation(c)' = "free"
      BY <1>6, Free
    <3>2. Holds("login", <<>>, <<>>, "free", facing(c)', peer[c], consent[c])
      <4>1. 1 .. Len(<<>>) = {}
        OBVIOUS
      <4> QED BY <4>1 DEF Holds, ReadsWell, Known, Agrees, Stream, Stuck, InOrder, Accepted, headed
    <3> QED BY <1>1, <1>9, <1>10, <3>1, <3>2 DEF HoldsOf
  <2> QED BY <2>2, <2>3
<1>13. Good'
  BY <1>11, <1>12 DEF Good
<1> QED BY <1>1, <1>2, <1>4, <1>7, <1>8, <1>13, Running DEF Base

---------------------------------------------------------------------------
(* The clients' steps.                                                      *)

\* A step of one client: what must be shown of it.
LEMMA ClientStep ==
  ASSUME IInv, noHandler, Types', NEW c \in Client,
         \A d \in Client : d # c =>
           /\ at'[d] = at[d] /\ toClient'[d] = toClient[d] /\ toServer'[d] = toServer[d]
           /\ peer'[d] = peer[d] /\ consent'[d] = consent[d],
         calm' => calm,
         server = "running" =>
           Known_login(at'[c], toClient'[c], toServer'[c], username[c] # Null, c \in connected),
         calm' => ReadsWell(at'[c], toClient'[c], peer'[c], consent'[c]),
         calm' /\ server = "running" =>
           Known(at'[c], toClient'[c], toServer'[c], situation(c), facing(c), peer'[c], consent'[c])
  PROVE  IInv'
<1>1. UNCHANGED <<server, connected, client_list, logged_count, username, match, heap, overlap>>
      /\ sent' = <<>>
  BY DEF noHandler
<1>2. Server!Inv' /\ Server!MatchIntegrity' /\ Absent'
  BY <1>1 DEF IInv, Base, Absent, Server!Inv, Server!TypeOK, Server!OwnMatch, Server!LoginTable,
              Server!LoggedCountExact, Server!MatchIntegrity, Server!Players, Server!logged_in
<1>3. \A d \in Client : situation(d)' = situation(d) /\ facing(d)' = facing(d)
  BY <1>1 DEF situation, facing
<1>4. ASSUME server = "running", NEW d \in Client
      PROVE  Known_login(at'[d], toClient'[d], toServer'[d], username'[d] # Null, d \in connected')
  <2>1. Known_login(at[d], toClient[d], toServer[d], username[d] # Null, d \in connected)
    BY <1>4 DEF IInv, Logins
  <2> QED BY <1>1, <1>4, <2>1
<1>5. ASSUME calm', NEW d \in Client
      PROVE  ReadsWell(at'[d], toClient'[d], peer'[d], consent'[d])
  <2>1. ReadsWell(at[d], toClient[d], peer[d], consent[d])
    BY <1>5 DEF IInv, Readings
  <2> QED BY <1>5, <2>1
<1>6. ASSUME calm', server = "running", NEW d \in Client
      PROVE  Known(at'[d], toClient'[d], toServer'[d], situation(d)', facing(d)', peer'[d],
                   consent'[d])
  <2>1. Known(at[d], toClient[d], toServer[d], situation(d), facing(d), peer[d], consent[d])
    BY <1>6 DEF IInv, Knowledge
  <2> QED BY <1>3, <1>6, <2>1
<1> QED BY <1>1, <1>2, <1>4, <1>5, <1>6 DEF IInv, Base, Logins, Readings, Knowledge

\* What is known of the client that takes a step.
LEMMA Stepping ==
  ASSUME IInv, NEW c \in Client
  PROVE  /\ Types /\ toServer[c] \in Seq(Request) /\ toClient[c] \in Seq(Server!Message)
         /\ at[c] \in Place /\ peer[c] \in Name \cup {Null}
         /\ consent[c] \in Name \cup {Null}
         /\ calm => ReadsWell(at[c], toClient[c], peer[c], consent[c])
         /\ calm /\ server = "running" =>
              Known(at[c], toClient[c], toServer[c], situation(c), facing(c), peer[c], consent[c])
         /\ server = "running" /\ at[c] # "off" =>
              /\ (c \in connected) = TRUE
              /\ Known_login(at[c], toClient[c], toServer[c], username[c] # Null, TRUE)
<1>1. Types
  BY DEF IInv, Base
<1>2. ASSUME server = "running", at[c] # "off"
      PROVE  /\ (c \in connected) = TRUE
             /\ Known_login(at[c], toClient[c], toServer[c], username[c] # Null, TRUE)
  <2>1. Known_login(at[c], toClient[c], toServer[c], username[c] # Null, c \in connected)
    BY <1>2 DEF IInv, Logins
  <2>2. c \in connected
    BY <1>2, <2>1 DEF Known_login
  <2>3. (c \in connected) = TRUE
    BY <2>2
  <2> QED BY <2>1, <2>3
<1> QED BY <1>1, <1>2, Members DEF IInv, Readings, Knowledge

\* Client c is now at b, with t to read and q to be read of it, playing with x, having
\* accepted y.
MovesTo(c, b, t, q, x, y) ==
  /\ at' = [at EXCEPT ![c] = b]
  /\ toClient' = [toClient EXCEPT ![c] = t]
  /\ toServer' = [toServer EXCEPT ![c] = q]
  /\ peer' = [peer EXCEPT ![c] = x]
  /\ consent' = [consent EXCEPT ![c] = y]

\* What is to be shown of the new place.
LEMMA Moved ==
  ASSUME IInv, noHandler, NEW c \in Client, NEW b \in Place, NEW t \in Seq(Server!Message),
         NEW q \in Seq(Request), NEW x \in Name \cup {Null}, NEW y \in Name \cup {Null},
         MovesTo(c, b, t, q, x, y), crossed' \in BOOLEAN, late' \in BOOLEAN, calm' => calm,
         server = "running" => Known_login(b, t, q, username[c] # Null, c \in connected),
         calm' => ReadsWell(b, t, x, y),
         calm' /\ server = "running" => Known(b, t, q, situation(c), facing(c), x, y)
  PROVE  IInv'
<1>1. Types
  BY DEF IInv, Base
<1>2. /\ at'[c] = b /\ toClient'[c] = t /\ toServer'[c] = q /\ peer'[c] = x /\ consent'[c] = y
      /\ \A d \in Client : d # c =>
           /\ at'[d] = at[d] /\ toClient'[d] = toClient[d] /\ toServer'[d] = toServer[d]
           /\ peer'[d] = peer[d] /\ consent'[d] = consent[d]
  BY <1>1 DEF MovesTo, Types
<1>3. Types'
  BY <1>1 DEF MovesTo, Types
<1>4. /\ server = "running" => Known_login(at'[c], toClient'[c], toServer'[c], username[c] # Null, c \in connected)
      /\ calm' => ReadsWell(at'[c], toClient'[c], peer'[c], consent'[c])
  BY <1>2
<1>5. ASSUME calm', server = "running"
      PROVE  Known(at'[c], toClient'[c], toServer'[c], situation(c), facing(c), peer'[c], consent'[c])
  BY <1>2, <1>5
<1> QED BY <1>2, <1>3, <1>4, <1>5, ClientStep

\* The same, for a client that is connected, if only what changes is written down.
LEMMA Placed ==
  ASSUME Types, NEW c \in Client
  PROVE  /\ UNCHANGED toClient => toClient' = [toClient EXCEPT ![c] = toClient[c]]
         /\ UNCHANGED toServer => toServer' = [toServer EXCEPT ![c] = toServer[c]]
         /\ UNCHANGED peer => peer' = [peer EXCEPT ![c] = peer[c]]
         /\ UNCHANGED consent => consent' = [consent EXCEPT ![c] = consent[c]]
  BY DEF Types

\* A message written.
LEMMA Written ==
  ASSUME Types, NEW c \in Client, NEW m \in Request, send(c, m)
  PROVE  /\ Append(toServer[c], m) \in Seq(Request)
         /\ toServer' = [toServer EXCEPT ![c] = Append(toServer[c], m)]
         /\ late' \in BOOLEAN /\ (late => late')
         /\ ~late' /\ About(m) =>
              \A i \in 1 .. Len(toClient[c]) : toClient[c][i].type # "REQ_PLAY"
<1>1. toServer' = [toServer EXCEPT ![c] = Append(@, m)]
      /\ late' = (late \/ (about_a_match(<<m>>) /\ invited(c)))
  BY DEF send
<1>2. /\ toServer[c] \in Seq(Request) /\ toClient[c] \in Seq(Server!Message) /\ late \in BOOLEAN
      /\ toServer \in [Client -> Seq(Request)]
  BY DEF Types
<1>3. /\ Append(toServer[c], m) \in Seq(Request)
      /\ toServer' = [toServer EXCEPT ![c] = Append(toServer[c], m)]
  BY <1>1, <1>2
<1>4. late' \in BOOLEAN /\ (late => late')
  BY <1>1, <1>2
<1>5. ASSUME ~late', About(m)
      PROVE  \A i \in 1 .. Len(toClient[c]) : toClient[c][i].type # "REQ_PLAY"
  <2>1. about_a_match(<<m>>)
    <3>1. 1 \in DOMAIN <<m>> /\ <<m>>[1] = m
      OBVIOUS
    <3> QED BY <1>5, <3>1 DEF about_a_match, About
  <2>2. ~invited(c)
    BY <1>1, <1>5, <2>1
  <2>3. DOMAIN toClient[c] = 1 .. Len(toClient[c])
    BY <1>2
  <2> QED BY <2>2, <2>3 DEF invited
<1> QED BY <1>3, <1>4, <1>5

\* do_login().
LEMMA DoLoginInv ==
  ASSUME IInv, NEW c \in Client, NEW u \in Name, do_login(c, u)
  PROVE  IInv'
<1> DEFINE m == [type |-> "REQ_LOGIN", username |-> u]
           r == toClient[c]
           q == toServer[c]
           s == situation(c)
           o == facing(c)
           p == peer[c]
           k == consent[c]
           l == username[c] # Null
<1>1. /\ send(c, m) /\ noHandler /\ at[c] = "login" /\ at' = [at EXCEPT ![c] = "wait_login"]
      /\ UNCHANGED <<toClient, peer, consent, crossed, overlap>>
  BY DEF do_login, go, noHandler
<1>2. m \in Request /\ m.type = "REQ_LOGIN"
  BY DEF Request
<1>3. /\ Types /\ q \in Seq(Request) /\ r \in Seq(Server!Message)
      /\ p \in Name \cup {Null} /\ k \in Name \cup {Null}
      /\ calm => ReadsWell("login", r, p, k)
      /\ calm /\ server = "running" => Known("login", r, q, s, o, p, k)
      /\ server = "running" =>
           (c \in connected) = TRUE /\ Known_login("login", r, q, l, TRUE)
  BY <1>1, Stepping
<1> HIDE DEF m
<1>4. /\ MovesTo(c, "wait_login", r, Append(q, m), p, k) /\ Append(q, m) \in Seq(Request)
      /\ late' \in BOOLEAN /\ crossed' \in BOOLEAN
  BY <1>1, <1>2, <1>3, Written, Placed DEF MovesTo, Types
<1>5. calm' => calm
  BY <1>1, <1>2, <1>3, Written DEF calm
<1> HIDE DEF r, q, s, o, p, k, l
<1>6. ASSUME server = "running"
      PROVE  Known_login("wait_login", r, Append(q, m), l, c \in connected)
  <2>1. Known_login("wait_login", r, Append(q, m), l, TRUE)
    BY ONLY <1>2, <1>3, <1>6, LoginSent
  <2> QED BY ONLY <1>3, <1>6, <2>1
<1>7. ASSUME calm'
      PROVE  /\ ReadsWell("wait_login", r, p, k)
             /\ server = "running" => Known("wait_login", r, Append(q, m), s, o, p, k)
  <2>1. ReadsWell("login", r, p, k)
    BY <1>3, <1>5, <1>7
  <2>2. server = "running" => Known("login", r, q, s, o, p, k)
    BY <1>3, <1>5, <1>7
  <2> QED BY ONLY <1>2, <1>3, <2>1, <2>2, LoggingIn
<1>8. "wait_login" \in Place
  BY DEF Place
<1> QED BY <1>1, <1>3, <1>4, <1>5, <1>6, <1>7, <1>8, Moved DEF s, o, l

\* A client that has logged in writes something.
LEMMA Writing ==
  ASSUME IInv, NEW c \in Client, NEW m \in Request, m.type \notin {"EOF", "REQ_LOGIN"},
         noHandler, send(c, m), UNCHANGED <<toClient, crossed>>,
         at[c] \in Lobby_places, NEW b \in Lobby_places, at' = [at EXCEPT ![c] = b],
         NEW x \in Name \cup {Null}, peer' = [peer EXCEPT ![c] = x],
         NEW y \in Name \cup {Null}, consent' = [consent EXCEPT ![c] = y],
         ReadsWell(at[c], toClient[c], peer[c], consent[c]) /\
           (About(m) => \A i \in 1 .. Len(toClient[c]) : toClient[c][i].type # "REQ_PLAY")
         => /\ ReadsWell(b, toClient[c], x, y)
            /\ Known(at[c], toClient[c], toServer[c], situation(c), facing(c), peer[c], consent[c])
               => Known(b, toClient[c], Append(toServer[c], m), situation(c), facing(c), x, y)
  PROVE  IInv'
<1> DEFINE a == at[c]
           r == toClient[c]
           q == toServer[c]
           s == situation(c)
           o == facing(c)
           p == peer[c]
           k == consent[c]
           l == username[c] # Null
           Quiet == About(m) => \A i \in 1 .. Len(r) : r[i].type # "REQ_PLAY"
<1>1. UNCHANGED <<toClient, crossed, overlap>>
  BY DEF noHandler
<1>2. a # "off" /\ b \in Place
  BY DEF Lobby_places
<1>3. /\ Types /\ q \in Seq(Request) /\ r \in Seq(Server!Message)
      /\ calm => ReadsWell(a, r, p, k)
      /\ calm /\ server = "running" => Known(a, r, q, s, o, p, k)
      /\ server = "running" => (c \in connected) = TRUE /\ Known_login(a, r, q, l, TRUE)
  BY <1>2, Stepping
<1>4. /\ MovesTo(c, b, r, Append(q, m), x, y) /\ Append(q, m) \in Seq(Request)
      /\ late' \in BOOLEAN /\ crossed' \in BOOLEAN
  BY <1>1, <1>3, Written, Placed DEF MovesTo, Types
<1>5. /\ calm' => calm
      /\ calm' => Quiet
  BY <1>1, <1>3, Written DEF calm
<1>6. ReadsWell(a, r, p, k) /\ Quiet =>
        /\ ReadsWell(b, r, x, y)
        /\ Known(a, r, q, s, o, p, k) => Known(b, r, Append(q, m), s, o, x, y)
  OBVIOUS
<1>7. a \in Lobby_places
  OBVIOUS
<1> HIDE DEF a, r, q, s, o, p, k, l, Quiet
<1>8. ASSUME server = "running"
      PROVE  Known_login(b, r, Append(q, m), l, c \in connected)
  <2>1. Known_login(b, r, Append(q, m), l, TRUE)
    BY ONLY <1>3, <1>7, <1>8, LoginWrote, m \in Request, m.type \notin {"EOF", "REQ_LOGIN"},
            b \in Lobby_places
  <2> QED BY ONLY <1>3, <1>8, <2>1
<1>9. ASSUME calm'
      PROVE  ReadsWell(b, r, x, y) /\ (server = "running" => Known(b, r, Append(q, m), s, o, x, y))
  BY <1>3, <1>5, <1>6, <1>9
<1> QED BY <1>1, <1>2, <1>3, <1>4, <1>5, <1>8, <1>9, Moved DEF s, o, l

\* It moves, and writes nothing.
LEMMA Moving ==
  ASSUME IInv, NEW c \in Client, noHandler, UNCHANGED <<toClient, toServer, peer, crossed, late>>,
         at[c] \in Lobby_places, NEW b \in Lobby_places, at' = [at EXCEPT ![c] = b],
         NEW y \in Name \cup {Null}, consent' = [consent EXCEPT ![c] = y],
         ReadsWell(at[c], toClient[c], peer[c], consent[c])
         => /\ ReadsWell(b, toClient[c], peer[c], y)
            /\ Known(at[c], toClient[c], toServer[c], situation(c), facing(c), peer[c], consent[c])
               => Known(b, toClient[c], toServer[c], situation(c), facing(c), peer[c], y)
  PROVE  IInv'
<1> DEFINE a == at[c]
           r == toClient[c]
           q == toServer[c]
           s == situation(c)
           o == facing(c)
           p == peer[c]
           k == consent[c]
           l == username[c] # Null
<1>1. UNCHANGED <<toClient, toServer, peer, crossed, late, overlap>>
  BY DEF noHandler
<1>2. a # "off" /\ b \in Place
  BY DEF Lobby_places
<1>3. /\ Types /\ q \in Seq(Request) /\ r \in Seq(Server!Message) /\ p \in Name \cup {Null}
      /\ calm => ReadsWell(a, r, p, k)
      /\ calm /\ server = "running" => Known(a, r, q, s, o, p, k)
      /\ server = "running" => (c \in connected) = TRUE /\ Known_login(a, r, q, l, TRUE)
  BY <1>2, Stepping
<1>4. /\ MovesTo(c, b, r, q, p, y) /\ late' \in BOOLEAN /\ crossed' \in BOOLEAN
  BY <1>1, <1>3, Placed DEF MovesTo, Types
<1>5. calm' => calm
  BY <1>1 DEF calm
<1>6. ReadsWell(a, r, p, k) =>
        /\ ReadsWell(b, r, p, y)
        /\ Known(a, r, q, s, o, p, k) => Known(b, r, q, s, o, p, y)
  OBVIOUS
<1>7. a \in Lobby_places
  OBVIOUS
<1> HIDE DEF a, r, q, s, o, p, k, l
<1>8. ASSUME server = "running"
      PROVE  Known_login(b, r, q, l, c \in connected)
  <2>1. Known_login(b, r, q, l, TRUE)
    BY ONLY <1>3, <1>7, <1>8, LoginMoved, b \in Lobby_places
  <2> QED BY ONLY <1>3, <1>8, <2>1
<1>9. ASSUME calm'
      PROVE  ReadsWell(b, r, p, y) /\ (server = "running" => Known(b, r, q, s, o, p, y))
  BY <1>3, <1>5, <1>6, <1>9
<1> QED BY <1>1, <1>2, <1>3, <1>4, <1>5, <1>8, <1>9, Moved DEF s, o, l

\* What print_player_list() and send_play_request() have in common.
LEMMA RequestInv ==
  ASSUME IInv, NEW c \in Client, NEW m \in Request, noHandler, send(c, m),
         UNCHANGED <<toClient, consent, crossed>>,
         at[c] = "idle", NEW b, at' = [at EXCEPT ![c] = b],
         NEW x \in Name \cup {Null}, peer' = [peer EXCEPT ![c] = x],
         \/ b = "wait_who" /\ m.type = "REQ_WHO" /\ x = peer[c]
         \/ b = "wait_play" /\ m.type = "REQ_PLAY" /\ x = m.opponent
  PROVE  IInv'
<1> DEFINE r == toClient[c]
           q == toServer[c]
           s == situation(c)
           o == facing(c)
           p == peer[c]
           k == consent[c]
<1>1. /\ Types /\ q \in Seq(Request) /\ r \in Seq(Server!Message) /\ k \in Name \cup {Null}
  BY Stepping
<1>2. m.type \notin {"EOF", "REQ_LOGIN"} /\ at[c] \in Lobby_places /\ b \in Lobby_places
  BY DEF Lobby_places, Place
<1>3. consent' = [consent EXCEPT ![c] = k]
  BY <1>1, Placed
<1>4. UNCHANGED <<toClient, crossed>>
  OBVIOUS
<1>5. \/ b = "wait_who" /\ m.type = "REQ_WHO" /\ x = p
      \/ b = "wait_play" /\ m.type = "REQ_PLAY" /\ x = m.opponent
  OBVIOUS
<1> HIDE DEF r, q, s, o, p, k
<1>6. ASSUME ReadsWell("idle", r, p, k)
      PROVE  /\ ReadsWell(b, r, x, k)
             /\ Known("idle", r, q, s, o, p, k) => Known(b, r, Append(q, m), s, o, x, k)
  BY ONLY <1>1, <1>5, <1>6, Requesting, m \in Request
<1> QED BY <1>1, <1>2, <1>3, <1>4, <1>6, Writing DEF r, q, s, o, p, k

\* The list of the players is asked for.
LEMMA WhoInv ==
  ASSUME IInv, NEW c \in Client, print_player_list(c)
  PROVE  IInv'
<1> DEFINE m == [type |-> "REQ_WHO"]
<1>1. m \in Request /\ m.type = "REQ_WHO"
  BY DEF Request
<1>2. Types /\ peer[c] \in Name \cup {Null}
  BY Stepping
<1>3. peer' = [peer EXCEPT ![c] = peer[c]]
  BY <1>2, Placed DEF print_player_list
<1> HIDE DEF m
<1>4. /\ noHandler /\ send(c, m) /\ UNCHANGED <<toClient, consent, crossed>>
      /\ at[c] = "idle" /\ at' = [at EXCEPT ![c] = "wait_who"]
  BY DEF print_player_list, go, m
<1> QED BY <1>1, <1>2, <1>3, <1>4, RequestInv

\* A player is invited.
LEMMA PlayRequestInv ==
  ASSUME IInv, NEW c \in Client, NEW u \in Name, send_play_request(c, u)
  PROVE  IInv'
<1> DEFINE m == [type |-> "REQ_PLAY", opponent |-> u]
<1>1. m \in Request /\ m.type = "REQ_PLAY" /\ m.opponent = u
  BY DEF Request
<1> HIDE DEF m
<1>2. /\ noHandler /\ send(c, m) /\ UNCHANGED <<toClient, consent, crossed>>
      /\ at[c] = "idle" /\ at' = [at EXCEPT ![c] = "wait_play"]
      /\ peer' = [peer EXCEPT ![c] = u]
  BY DEF send_play_request, go, m
<1> QED BY <1>1, <1>2, RequestInv

\* The end of a game.
LEMMA EndgameInv ==
  ASSUME IInv, NEW c \in Client, NEW g \in BOOLEAN, send_msg_endgame(c, g)
  PROVE  IInv'
<1> DEFINE m == [type |-> "MSG_ENDGAME", disconnected |-> g]
           r == toClient[c]
           q == toServer[c]
           s == situation(c)
           o == facing(c)
           p == peer[c]
           k == consent[c]
<1>1. m \in Request /\ m.type = "MSG_ENDGAME"
  BY DEF Request
<1>2. /\ Types /\ q \in Seq(Request) /\ r \in Seq(Server!Message) /\ k \in Name \cup {Null}
  BY Stepping
<1> HIDE DEF m
<1>3. /\ noHandler /\ send(c, m) /\ UNCHANGED <<toClient, consent, crossed>>
      /\ at[c] = "playing" /\ at' = [at EXCEPT ![c] = "idle"]
      /\ peer' = [peer EXCEPT ![c] = Null]
  BY DEF send_msg_endgame, go, m
<1>4. /\ "playing" \in Lobby_places /\ "idle" \in Lobby_places /\ Null \in Name \cup {Null}
      /\ m.type \notin {"EOF", "REQ_LOGIN"} /\ About(m)
  BY <1>1 DEF Lobby_places, Place, About
<1>5. consent' = [consent EXCEPT ![c] = k]
  BY <1>2, <1>3, Placed
<1> HIDE DEF r, q, s, o, p, k
<1>6. ASSUME ReadsWell("playing", r, p, k), \A i \in 1 .. Len(r) : r[i].type # "REQ_PLAY"
      PROVE  /\ ReadsWell("idle", r, Null, k)
             /\ Known("playing", r, q, s, o, p, k) => Known("idle", r, Append(q, m), s, o, Null, k)
  BY ONLY <1>1, <1>2, <1>6, LeavingGame
<1> QED BY <1>1, <1>2, <1>3, <1>4, <1>5, <1>6, Writing DEF r, q, s, o, p, k

\* The answer to an invitation.
LEMMA AnswerInv ==
  ASSUME IInv, NEW c \in Client, NEW g \in BOOLEAN, answer(c, g)
  PROVE  IInv'
<1> DEFINE m == [type |-> "REQ_PLAY_ANS", accept |-> g]
           y == IF g THEN peer[c] ELSE Null
           r == toClient[c]
           q == toServer[c]
           s == situation(c)
           o == facing(c)
           p == peer[c]
           k == consent[c]
<1>1. m \in Request /\ m.type = "REQ_PLAY_ANS" /\ m.accept = g
  BY DEF Request
<1>2. /\ Types /\ q \in Seq(Request) /\ r \in Seq(Server!Message) /\ p \in Name \cup {Null}
      /\ y \in Name \cup {Null} /\ (g => y = p)
  BY Stepping
<1> HIDE DEF m, y
<1>3. /\ noHandler /\ UNCHANGED <<toClient, peer, crossed>>
      /\ at[c] = "asking" /\ at' = [at EXCEPT ![c] = "wait_answer"]
      /\ consent' = [consent EXCEPT ![c] = y]
      /\ IF r = <<>> THEN send(c, m) ELSE UNCHANGED <<toServer, late>>
  BY DEF answer, go, m, y
<1>4. /\ "asking" \in Lobby_places /\ "wait_answer" \in Lobby_places
      /\ m.type \notin {"EOF", "REQ_LOGIN"}
  BY <1>1 DEF Lobby_places, Place
<1>5. peer' = [peer EXCEPT ![c] = p]
  BY <1>2, <1>3, Placed
<1> HIDE DEF r, q, s, o, p, k
<1>6. CASE r = <<>>
  <2>1. ReadsWell("wait_answer", r, p, y)
    BY ONLY <1>1, <1>2, <1>6, Answering
  <2>2. Known("asking", r, q, s, o, p, k) => Known("wait_answer", r, Append(q, m), s, o, p, y)
    BY ONLY <1>1, <1>2, <1>6, Answering
  <2>3. send(c, m) /\ UNCHANGED <<toClient, crossed>>
    BY <1>3, <1>6
  <2> QED BY <1>1, <1>2, <1>3, <1>4, <1>5, <2>1, <2>2, <2>3, Writing DEF r, q, s, o, p, k
<1>7. CASE r # <<>>
  <2>1. ASSUME ReadsWell("asking", r, p, k)
        PROVE  /\ ReadsWell("wait_answer", r, p, y)
               /\ Known("asking", r, q, s, o, p, k) => Known("wait_answer", r, q, s, o, p, y)
    BY ONLY <1>2, <1>7, <2>1, GivingUp
  <2>2. UNCHANGED <<toClient, toServer, peer, crossed, late>>
    BY <1>3, <1>7
  <2> QED BY <1>2, <1>3, <1>4, <2>1, <2>2, Moving DEF r, q, s, o, p, k
<1> QED BY <1>6, <1>7

\* It is not given.
LEMMA NotAnsweredInv ==
  ASSUME IInv, NEW c \in Client, not_answered(c)
  PROVE  IInv'
<1> DEFINE r == toClient[c]
           q == toServer[c]
           s == situation(c)
           o == facing(c)
           p == peer[c]
           k == consent[c]
<1>1. /\ q \in Seq(Request) /\ r \in Seq(Server!Message) /\ r # <<>>
  BY Stepping DEF not_answered
<1>2. /\ noHandler /\ UNCHANGED <<toClient, toServer, peer, crossed, late>>
      /\ at[c] = "asking" /\ at' = [at EXCEPT ![c] = "wait_answer"]
      /\ consent' = [consent EXCEPT ![c] = Null]
  BY DEF not_answered, go
<1>3. "asking" \in Lobby_places /\ "wait_answer" \in Lobby_places /\ Null \in Name \cup {Null}
  BY DEF Lobby_places, Place
<1> HIDE DEF r, q, s, o, p, k
<1>4. ASSUME ReadsWell("asking", r, p, k)
      PROVE  /\ ReadsWell("wait_answer", r, p, Null)
             /\ Known("asking", r, q, s, o, p, k) => Known("wait_answer", r, q, s, o, p, Null)
  BY ONLY <1>1, <1>4, GivingUp
<1> QED BY <1>2, <1>3, <1>4, Moving DEF r, q, s, o, p, k

\* The ships are placed.
LEMMA PlaceShipsInv ==
  ASSUME IInv, NEW c \in Client, place_ships(c)
  PROVE  IInv'
<1> DEFINE r == toClient[c]
           q == toServer[c]
           s == situation(c)
           o == facing(c)
           p == peer[c]
           k == consent[c]
<1>1. /\ Types /\ q \in Seq(Request) /\ r \in Seq(Server!Message) /\ k \in Name \cup {Null}
  BY Stepping
<1>2. /\ noHandler /\ UNCHANGED <<toClient, toServer, peer, crossed, late>>
      /\ at[c] = "placing" /\ at' = [at EXCEPT ![c] = "playing"]
      /\ UNCHANGED consent
  BY DEF place_ships, go
<1>3. consent' = [consent EXCEPT ![c] = k]
  BY <1>1, <1>2, Placed
<1>4. "placing" \in Lobby_places /\ "playing" \in Lobby_places
  BY DEF Lobby_places, Place
<1> HIDE DEF r, q, s, o, p, k
<1>5. ASSUME ReadsWell("placing", r, p, k)
      PROVE  /\ ReadsWell("playing", r, p, k)
             /\ Known("placing", r, q, s, o, p, k) => Known("playing", r, q, s, o, p, k)
  BY ONLY <1>1, <1>5, Placing
<1> QED BY <1>1, <1>2, <1>3, <1>4, <1>5, Moving DEF r, q, s, o, p, k

\* What a process that ends leaves behind.
LEMMA EndsInv ==
  ASSUME IInv, NEW c \in Client, at[c] # "off", process_ends(c), NEW q \in Seq(Request),
         toServer' = [toServer EXCEPT ![c] = q],
         crossed' \in BOOLEAN, late' \in BOOLEAN, calm' => calm,
         server = "running" => Known_login("off", <<>>, q, username[c] # Null, TRUE),
         calm' => q = Append(toServer[c], [type |-> "EOF"])
  PROVE  IInv'
<1> DEFINE a == at[c]
           r == toClient[c]
           t == toServer[c]
           s == situation(c)
           o == facing(c)
           p == peer[c]
           k == consent[c]
           m == [type |-> "EOF"]
<1>1. /\ t \in Seq(Request)
      /\ calm /\ server = "running" => Known(a, r, t, s, o, p, k)
      /\ server = "running" => (c \in connected) = TRUE
  BY Stepping
<1>2. /\ m \in Request /\ m.type = "EOF" /\ "off" \in Place /\ <<>> \in Seq(Server!Message)
      /\ Null \in Name \cup {Null}
  BY DEF Request, Place
<1>3. noHandler /\ MovesTo(c, "off", <<>>, q, Null, Null)
  BY DEF process_ends, MovesTo
<1>4. server = "running" => Known_login("off", <<>>, q, username[c] # Null, c \in connected)
  BY <1>1
<1>5. calm' => q = Append(t, m)
  OBVIOUS
<1> HIDE DEF a, r, t, s, o, p, k, m
<1>6. ReadsWell("off", <<>>, Null, Null)
  BY ONLY <1>1, <1>2, Ending
<1>7. ASSUME calm', server = "running"
      PROVE  Known("off", <<>>, q, s, o, Null, Null)
  <2>1. Known(a, r, t, s, o, p, k)
    BY <1>1, <1>7
  <2>2. Known("off", <<>>, Append(t, m), s, o, Null, Null)
    BY ONLY <1>1, <1>2, <2>1, Ending
  <2> QED BY <1>5, <1>7, <2>2
<1> QED BY <1>2, <1>3, <1>4, <1>6, <1>7, Moved DEF s, o

\* It ends by itself.
LEMMA ExitsInv ==
  ASSUME IInv, NEW c \in Client, at[c] # "off", exits(c), UNCHANGED crossed
  PROVE  IInv'
<1> DEFINE a == at[c]
           r == toClient[c]
           q == toServer[c]
           m == [type |-> "EOF"]
           l == username[c] # Null
<1>1. m \in Request /\ m.type = "EOF"
  BY DEF Request
<1>2. /\ Types /\ q \in Seq(Request) /\ r \in Seq(Server!Message)
      /\ server = "running" => Known_login(a, r, q, l, TRUE)
  BY Stepping
<1> HIDE DEF m
<1>3. /\ process_ends(c) /\ send(c, m) /\ UNCHANGED <<crossed, overlap>>
  BY DEF exits, process_ends, noHandler, m
<1>4. /\ Append(q, m) \in Seq(Request)
      /\ toServer' = [toServer EXCEPT ![c] = Append(q, m)]
      /\ late' \in BOOLEAN /\ crossed' \in BOOLEAN /\ (calm' => calm)
  BY <1>1, <1>2, <1>3, Written DEF Types, calm
<1>5. a # "off"
  OBVIOUS
<1> HIDE DEF a, r, q, l
<1>6. server = "running" => Known_login("off", <<>>, Append(q, m), l, TRUE)
  BY ONLY <1>1, <1>2, <1>5, LoginEnded
<1> QED BY <1>3, <1>4, <1>6, EndsInv DEF m, q, l

\* A command reads what the main loop was told of.
LEMMA StaleReportInv ==
  ASSUME IInv, NEW c \in Client, stale_report(c)
  PROVE  IInv'
<1> DEFINE r == toClient[c]
           q == toServer[c]
           z == [type |-> "EOF"]
           l == username[c] # Null
<1>1. PICK m \in Request : /\ m.type \in {"REQ_WHO", "REQ_PLAY"}
                           /\ toServer' = [toServer EXCEPT ![c] = @ \o <<m, z>>]
  BY DEF stale_report, Request
<1>2. z \in Request /\ z.type = "EOF"
  BY DEF Request
<1>3. /\ Types /\ q \in Seq(Request) /\ r \in Seq(Server!Message) /\ at[c] = "idle"
      /\ server = "running" => Known_login("idle", r, q, l, TRUE)
  BY Stepping DEF stale_report
<1> HIDE DEF z
<1>4. q \o <<m, z>> = Append(Append(q, m), z) /\ Append(q, m) \in Seq(Request)
      /\ Append(Append(q, m), z) \in Seq(Request)
  BY <1>2, <1>3
<1>5. toServer' = [toServer EXCEPT ![c] = Append(Append(q, m), z)]
  BY <1>1, <1>4
<1>6. process_ends(c) /\ crossed' = TRUE /\ late' \in BOOLEAN
  BY <1>3 DEF stale_report, Types
<1>7. "idle" \in Lobby_places /\ "idle" # "off" /\ m.type \notin {"EOF", "REQ_LOGIN"}
  BY <1>1 DEF Lobby_places, Place
<1>8. ~calm'
  BY <1>6 DEF calm
<1> HIDE DEF r, q, l
<1>9. ASSUME server = "running"
      PROVE  Known_login("off", <<>>, Append(Append(q, m), z), l, TRUE)
  <2>1. Known_login("idle", r, Append(q, m), l, TRUE)
    BY ONLY <1>1, <1>3, <1>7, <1>9, LoginWrote
  <2> QED BY ONLY <1>2, <1>4, <1>7, <2>1, LoginEnded
<1> QED BY <1>3, <1>4, <1>5, <1>6, <1>7, <1>8, <1>9, EndsInv DEF l

\* A message is read.
LEMMA ReadInv ==
  ASSUME IInv, NEW c \in Client, read(c)
  PROVE  IInv'
<1> DEFINE a == at[c]
           r == toClient[c]
           q == toServer[c]
           s == situation(c)
           o == facing(c)
           p == peer[c]
           k == consent[c]
           l == username[c] # Null
           b == at'[c]
           x == peer'[c]
           m == r[1]
<1>1. /\ r # <<>> /\ noHandler /\ UNCHANGED <<toServer, late, overlap>>
      /\ toClient' = [toClient EXCEPT ![c] = Tail(@)]
      /\ consent' = [consent EXCEPT ![c] = Null]
  BY DEF read, noHandler
<1>2. /\ Types /\ q \in Seq(Request) /\ r \in Seq(Server!Message) /\ a \in Place
      /\ p \in Name \cup {Null}
      /\ calm => ReadsWell(a, r, p, k)
      /\ calm /\ server = "running" => Known(a, r, q, s, o, p, k)
      /\ server = "running" /\ a # "off" =>
           (c \in connected) = TRUE /\ Known_login(a, r, q, l, TRUE)
  BY Stepping
<1>3. /\ Head(r) = m /\ m \in Server!Message /\ Tail(r) \in Seq(Server!Message)
  <2>1. 1 \in 1 .. Len(r)
    BY <1>1, <1>2, Tailed
  <2> QED BY <1>1, <1>2, <2>1, Tailed
<1>4. \/ get_server_message(c, m) /\ UNCHANGED crossed
      \/ /\ blocked_read(c, m)
         /\ crossed' = (crossed \/ m.type # awaited(c))
         /\ peer' = IF at'[c] = "placing" THEN peer ELSE [peer EXCEPT ![c] = Null]
  BY <1>3 DEF read
<1>5. m.type = "REQ_PLAY" => m.opponent \in Name \cup {Null}
  BY <1>3 DEF Server!Message
<1>6. at \in [Client -> Place] /\ peer \in [Client -> Name \cup {Null}] /\ crossed \in BOOLEAN
  BY <1>2 DEF Types
<1> HIDE DEF m
<1>7. /\ b \in Place /\ x \in Name \cup {Null} /\ crossed' \in BOOLEAN /\ (crossed => crossed')
      /\ at' = [at EXCEPT ![c] = b] /\ peer' = [peer EXCEPT ![c] = x] /\ a # "off"
  <2>1. CASE get_server_message(c, m) /\ UNCHANGED crossed
    BY <1>5, <1>6, <2>1 DEF get_server_message, Place
  <2>2. CASE /\ blocked_read(c, m)
             /\ crossed' = (crossed \/ m.type # awaited(c))
             /\ peer' = IF at'[c] = "placing" THEN peer ELSE [peer EXCEPT ![c] = Null]
    <3>1. at' = [at EXCEPT ![c] = b] /\ b \in Place /\ a # "off"
      BY <1>6, <2>2 DEF blocked_read, Place
    <3>2. x \in Name \cup {Null} /\ peer' = [peer EXCEPT ![c] = x]
      BY <1>6, <2>2
    <3> QED BY <1>6, <2>2, <3>1, <3>2
  <2> QED BY <1>4, <2>1, <2>2
<1>8. calm' => calm
  BY <1>1, <1>7 DEF calm
<1>9. /\ a = "wait_login" => m.type = "ANS_LOGIN" /\ b = IF m.response = "LOGIN_OK" THEN "idle" ELSE "login"
      /\ a # "wait_login" => a \in Lobby_places /\ b \in Lobby_places
  BY <1>4, <1>6 DEF get_server_message, blocked_read, Lobby_places, Place
<1>10. ASSUME ~crossed'
       PROVE  ~Stuck(a, r)
  BY <1>4, <1>10 DEF get_server_message, blocked_read, awaited, Stuck, Asking, expects, m
<1>11. ASSUME ~crossed', expects(a, m)
       PROVE  /\ b = leads(m)
              /\ leads(m) = "placing" => x = p
              /\ leads(m) = "asking" => x = m.opponent
  <2>1. CASE get_server_message(c, m) /\ UNCHANGED crossed
    BY <1>6, <1>11, <2>1 DEF get_server_message, expects, leads
  <2>2. CASE /\ blocked_read(c, m)
             /\ crossed' = (crossed \/ m.type # awaited(c))
             /\ peer' = IF at'[c] = "placing" THEN peer ELSE [peer EXCEPT ![c] = Null]
    BY <1>6, <1>11, <2>2 DEF blocked_read, expects, leads, awaited
  <2> QED BY <1>4, <2>1, <2>2
<1>12. MovesTo(c, b, Tail(r), q, x, Null) /\ late' \in BOOLEAN
  BY <1>1, <1>2, <1>7, Placed DEF MovesTo, Types
<1> HIDE DEF a, r, q, s, o, p, k, l, b, x
<1>13. ASSUME server = "running"
       PROVE  Known_login(b, Tail(r), q, l, c \in connected)
  <2>1. CASE a = "wait_login"
    <3>1. l \in BOOLEAN
      BY DEF l
    <3>2. r[1].type = "ANS_LOGIN" /\ b = IF r[1].response = "LOGIN_OK" THEN "idle" ELSE "login"
      BY <1>9, <2>1 DEF m
    <3>3. Known_login("wait_login", r, q, l, TRUE)
      BY <1>2, <1>7, <1>13, <2>1
    <3>4. Known_login(b, Tail(r), q, l, TRUE)
      BY ONLY <1>1, <1>2, <3>1, <3>2, <3>3, LoginRead
    <3> QED BY <1>2, <1>7, <1>13, <3>4
  <2>2. CASE a # "wait_login"
    <3>1. Known_login(a, r, q, l, TRUE) /\ a \in Lobby_places /\ b \in Lobby_places
      BY <1>2, <1>7, <1>9, <1>13, <2>2
    <3>2. Known_login(b, Tail(r), q, l, TRUE)
      BY ONLY <3>1, LoginMoved
    <3> QED BY <1>2, <1>7, <1>13, <3>2
  <2> QED BY <2>1, <2>2
<1>14. ASSUME calm'
       PROVE  /\ ReadsWell(b, Tail(r), x, Null)
              /\ server = "running" => Known(b, Tail(r), q, s, o, x, Null)
  <2>1. /\ ReadsWell(a, r, p, k) /\ ~Stuck(a, r)
        /\ server = "running" => Known(a, r, q, s, o, p, k)
    BY <1>2, <1>8, <1>10, <1>14 DEF calm
  <2>2. expects(a, r[1])
    <3>1. InOrder(a, r) /\ 1 \in 1 .. Len(r)
      BY <1>1, <1>2, <2>1, Tailed DEF ReadsWell
    <3> QED BY <3>1 DEF InOrder, before
  <2>3. /\ b = leads(r[1])
        /\ leads(r[1]) = "placing" => x = p
        /\ leads(r[1]) = "asking" => x = r[1].opponent
    BY <1>11, <1>14, <2>2 DEF calm, m
  <2>4. /\ ReadsWell(leads(r[1]), Tail(r), x, Null)
        /\ Known(a, r, q, s, o, p, k) => Known(leads(r[1]), Tail(r), q, s, o, x, Null)
    BY ONLY <1>1, <1>2, <2>1, <2>3, ReadIt
  <2> QED BY <2>1, <2>3, <2>4
<1>15. Null \in Name \cup {Null}
  OBVIOUS
<1> QED BY <1>1, <1>2, <1>3, <1>7, <1>8, <1>12, <1>13, <1>14, <1>15, Moved DEF s, o, l

---------------------------------------------------------------------------
(* The invariant, and what follows from it.                                 *)

\* It holds when nobody is there yet.
LEMMA InitIInv == Init => IInv
<1> SUFFICES ASSUME Init PROVE IInv
  OBVIOUS
<1>1. Server!Init
  BY SameRest DEF Init
<1>2. Server!Inv /\ Server!MatchIntegrity
  BY <1>1, Assumed, Server!InitInv, Server!InitIntegrity
<1>3. /\ connected = {} /\ match = [c \in Client |-> Null]
      /\ username = [c \in Client |-> Null]
  BY <1>1 DEF Server!Init
<1>4. Types /\ Absent
  <2>1. <<>> \in Seq(Request) /\ <<>> \in Seq(Server!Message) /\ "off" \in Place
    BY DEF Place
  <2>2. Types
    BY <2>1 DEF Init, Types
  <2>3. Absent
    BY <1>3 DEF Absent
  <2> QED BY <2>2, <2>3
<1>5. ASSUME NEW c \in Client
      PROVE  /\ at[c] = "off" /\ toClient[c] = <<>> /\ toServer[c] = <<>>
             /\ (c \in connected) = FALSE
  BY <1>3 DEF Init
<1>6. Stream(<<>>, "free") /\ \A s : Stream(<<>>, s)
  <2>1. 1 .. Len(<<>>) = {}
    OBVIOUS
  <2> QED BY <2>1 DEF Stream
<1>7. \A c \in Client : LoginOf(c) /\ HoldsOf(c)
  BY <1>5, <1>6, LoginNobody, Gone DEF LoginOf, HoldsOf
<1> QED BY <1>2, <1>4, <1>7 DEF IInv, Base, Logins, Readings, Knowledge, LoginOf, HoldsOf, Holds

\* Every step keeps it.
LEMMA NextIInv == IInv /\ [Next]_vars => IInv'
<1> SUFFICES ASSUME IInv, [Next]_vars PROVE IInv'
  OBVIOUS
<1>1. ASSUME NEW c \in Client, connect_to_server(c) PROVE IInv'
  BY <1>1, ConnectInv
<1>2. ASSUME NEW c \in Client, serve(c) PROVE IInv'
  BY <1>2, ServeInv
<1>3. ASSUME NEW c \in Client, elapsed(c) PROVE IInv'
  BY <1>3, ElapsedInv
<1>4. ASSUME NEW c \in Client, user(c) PROVE IInv'
  <2>1. ASSUME NEW u \in Name, do_login(c, u) PROVE IInv'
    BY <2>1, DoLoginInv
  <2>2. ASSUME NEW u \in Name, send_play_request(c, u) PROVE IInv'
    BY <2>2, PlayRequestInv
  <2>3. CASE print_player_list(c)
    BY <2>3, WhoInv
  <2>4. ASSUME NEW g \in BOOLEAN, answer(c, g) PROVE IInv'
    BY <2>4, AnswerInv
  <2>5. CASE place_ships(c)
    BY <2>5, PlaceShipsInv
  <2>6. ASSUME NEW g \in BOOLEAN, send_msg_endgame(c, g) PROVE IInv'
    BY <2>6, EndgameInv
  <2>7. CASE quit(c)
    BY <2>7, ExitsInv DEF quit
  <2> QED BY <1>4, <2>1, <2>2, <2>3, <2>4, <2>5, <2>6, <2>7 DEF user
<1>5. ASSUME NEW c \in Client, not_answered(c) PROVE IInv'
  BY <1>5, NotAnsweredInv
<1>6. ASSUME NEW c \in Client, read(c) PROVE IInv'
  BY <1>6, ReadInv
<1>7. ASSUME NEW c \in Client, exit_failure(c) PROVE IInv'
  BY <1>7, ExitsInv DEF exit_failure, unexpected
<1>8. ASSUME NEW c \in Client, server_closed(c) PROVE IInv'
  BY <1>8, ExitsInv DEF server_closed
<1>9. ASSUME NEW c \in Client, stale_report(c) PROVE IInv'
  BY <1>9, StaleReportInv
<1>10. CASE shutdown
  BY <1>10, ShutdownInv
<1>11. CASE UNCHANGED vars
  <2>1. \A d \in Client : situation(d)' = situation(d) /\ facing(d)' = facing(d)
    BY <1>11 DEF vars, situation, facing
  <2>2. UNCHANGED <<server, connected, client_list, logged_count, username, match, heap,
                    sent, overlap>>
    BY <1>11 DEF vars
  <2>3. Server!Inv' /\ Server!MatchIntegrity'
    BY <2>2 DEF IInv, Base, Server!Inv, Server!TypeOK, Server!OwnMatch, Server!LoginTable,
                Server!LoggedCountExact, Server!MatchIntegrity, Server!Players, Server!logged_in
  <2>4. Types' /\ Absent' /\ Logins' /\ Readings'
    BY <1>11 DEF vars, IInv, Base, Types, Absent, Logins, Readings, calm
  <2>5. Knowledge'
    BY <1>11, <2>1 DEF vars, IInv, Knowledge, calm
  <2> QED BY <2>3, <2>4, <2>5 DEF IInv, Base
<1>12. CASE Stopped
  BY <1>11, <1>12 DEF Stopped
<1> QED BY <1>1, <1>2, <1>3, <1>4, <1>5, <1>6, <1>7, <1>8, <1>9, <1>10, <1>11, <1>12 DEF Next

\* Whatever crosses, the types and the logins stay right; and as long as nothing
\* has crossed, every client is where the messages it will read, and the server's
\* view of it, say.
THEOREM Inductive == Spec => []IInv
<1>1. Init => IInv
  BY InitIInv
<1>2. IInv /\ [Next]_vars => IInv'
  BY NextIInv
<1> QED BY <1>1, <1>2, PTL DEF Spec

\* Type correctness of Lobby.
THEOREM TypeCorrect == Spec => []TypeOK
<1>1. IInv => TypeOK
  BY SameRest DEF IInv, Base, Types, Server!Inv, TypeOK
<1> QED BY <1>1, Inductive, PTL

\* Nothing has crossed: then no client ends its process at a message it takes for
\* invalid.
THEOREM NothingInvalidAlways == Spec => []NothingInvalid
<1>1. IInv => NothingInvalid
  <2> SUFFICES ASSUME IInv, NEW c \in Client, unexpected(c), calm PROVE FALSE
    BY DEF NothingInvalid
  <2> DEFINE a == at[c]
             r == toClient[c]
  <2>1. /\ r \in Seq(Server!Message) /\ r # <<>> /\ ReadsWell(a, r, peer[c], consent[c])
        /\ a \in {"wait_login", "idle", "playing"}
        /\ Head(r).type \notin IF a = "wait_login" THEN {"ANS_LOGIN"} ELSE {"REQ_PLAY", "MSG_ENDGAME"}
    BY Stepping DEF unexpected
  <2>2. Head(r) = r[1] /\ 1 \in 1 .. Len(r)
    BY <2>1, Tailed
  <2>3. expects(a, r[1])
    BY <2>1, <2>2 DEF ReadsWell, Stuck, Asking, InOrder, before
  <2> QED BY <2>1, <2>2, <2>3 DEF expects
<1> QED BY <1>1, Inductive, PTL

\* A client that plays has a match, confirmed, against the player it believes to play
\* with, or the end of the game is on its way to it.
THEOREM GamesAgreeAlways == Spec => []GamesAgree
<1>1. IInv => GamesAgree
  <2> SUFFICES ASSUME IInv, calm, server = "running", NEW c \in Client,
                      at[c] \in {"placing", "playing"},
                      ~\E i \in DOMAIN toClient[c] : toClient[c][i].type = "MSG_ENDGAME"
               PROVE  /\ match[c] # Null /\ ~Srv!Awaiting(c)
                      /\ username[Srv!Opponent(c)] = peer[c]
    BY DEF GamesAgree
  <2> DEFINE a == at[c]
             r == toClient[c]
             q == toServer[c]
  <2>1. /\ r \in Seq(Server!Message) /\ ReadsWell(a, r, peer[c], consent[c])
        /\ Known(a, r, q, situation(c), facing(c), peer[c], consent[c])
    BY Stepping
  <2>2. r = <<>>
    <3> SUFFICES ASSUME r # <<>> PROVE FALSE
      OBVIOUS
    <3>1. 1 \in 1 .. Len(r) /\ DOMAIN r = 1 .. Len(r)
      BY <2>1, Tailed
    <3>2. expects(a, r[1])
      BY <2>1, <3>1 DEF ReadsWell, Stuck, Asking, InOrder, before
    <3> QED BY <3>1, <3>2 DEF expects
  <2>3. situation(c) = "game" /\ peer[c] = facing(c)
    BY <2>1, <2>2 DEF Known, Stuck, Asking, headed, whom, Agrees
  <2>4. match[c] # Null /\ ~heap[match[c]].awaiting_reply
    BY <2>3 DEF situation
  <2> QED BY <2>3, <2>4, SameRest DEF facing, Server!Awaiting, Server!Opponent
<1> QED BY <1>1, Inductive, PTL

\* A client blocked in a read with nothing to read has a message at the server that is
\* still to be handled, or a request that is still open there.
THEOREM SomethingComesAlways == Spec => []SomethingComes
<1>1. IInv => SomethingComes
  <2> SUFFICES ASSUME IInv, calm, server = "running", NEW c \in Client,
                      waiting(c), toClient[c] = <<>>, toServer[c] = <<>>
               PROVE  Srv!Awaiting(c)
    BY DEF SomethingComes
  <2> DEFINE a == at[c]
             l == username[c] # Null
  <2>1. /\ Known(a, <<>>, <<>>, situation(c), facing(c), peer[c], consent[c])
        /\ a # "off" => Known_login(a, <<>>, <<>>, l, TRUE)
    BY Stepping
  <2>2. a \in {"wait_login", "wait_who", "wait_play", "wait_answer"}
    BY DEF waiting
  <2>3. 1 .. Len(<<>>) = {} /\ Len(<<>>) = 0
    OBVIOUS
  <2>4. a # "wait_login"
    BY <2>1, <2>3 DEF Known_login
  <2>5. Agrees(a, <<>>, situation(c), facing(c), peer[c], consent[c])
    BY <2>1, <2>2 DEF Known, Stuck, headed, whom
  <2>6. situation(c) \in {"asker", "invited"}
    BY <2>2, <2>3, <2>4, <2>5 DEF Agrees, Requested
  <2>7. match[c] # Null /\ heap[match[c]].awaiting_reply
    BY <2>6 DEF situation
  <2> QED BY <2>7, SameRest DEF Server!Awaiting
<1> QED BY <1>1, Inductive, PTL

\* As long as nothing has crossed, an invited client enters a game only if its user has
\* accepted the invitation it then plays on.
THEOREM ConsentWhenCalmAlways == Spec => ConsentWhenCalm
<1>1. IInv /\ [Next]_vars =>
        [\A c \in Client :
           calm /\ at[c] = "wait_answer" /\ at'[c] = "placing" => consent[c] = peer[c]]_vars
  <2> SUFFICES ASSUME IInv, Next, NEW c \in Client, calm, at[c] = "wait_answer",
                      at'[c] = "placing"
               PROVE  consent[c] = peer[c]
    BY DEF vars
  <2>1. Types
    BY Stepping
  <2>2. read(c)
    <3>1. at' # at /\ at \in [Client -> Place]
      BY <2>1 DEF Types
    <3>2. ASSUME NEW d, NEW b, at' = [at EXCEPT ![d] = b]
          PROVE  b = "placing" /\ c = d
      BY <2>1, <3>2 DEF Types
    <3>4. ASSUME NEW d \in Client, user(d) PROVE FALSE
      BY <3>1, <3>2, <3>4 DEF user, do_login, send_play_request, print_player_list, answer,
                              place_ships, send_msg_endgame, quit, exits, process_ends, go
    <3>5. ASSUME NEW d \in Client,
                 \/ connect_to_server(d) \/ not_answered(d) \/ exit_failure(d)
                 \/ server_closed(d) \/ stale_report(d)
          PROVE  FALSE
      BY <3>1, <3>2, <3>5 DEF connect_to_server, not_answered, exit_failure, server_closed,
                              stale_report, exits, process_ends, go
    <3>6. ASSUME \/ \E d \in Client : serve(d) \/ elapsed(d)
                 \/ shutdown \/ Stopped
          PROVE  FALSE
      BY <3>1, <3>6 DEF serve, elapsed, shutdown, Stopped, clientVars, vars
    <3>7. ASSUME NEW d \in Client, read(d), d # c PROVE FALSE
      BY <2>1, <3>2, <3>7 DEF read, get_server_message, blocked_read, Types
    <3> QED BY <3>4, <3>5, <3>6, <3>7 DEF Next
  <2> DEFINE r == toClient[c]
  <2>3. r # <<>> /\ r \in Seq(Server!Message) /\ ReadsWell("wait_answer", r, peer[c], consent[c])
    BY <2>2, Stepping DEF read
  <2>4. Head(r) = r[1]
    BY <2>3, Tailed
  <2>5. r[1].type = "ANS_PLAY" /\ r[1].response = "PLAY_ACCEPT"
    BY <2>1, <2>2, <2>4 DEF read, get_server_message, blocked_read, Types
  <2> QED BY <2>3, <2>5 DEF ReadsWell, Accepted
<1> QED BY <1>1, Inductive, PTL DEF Spec, ConsentWhenCalm
---------------------------------------------------------------------------
(* What the clients make the server do.                                     *)

Handlers == <<server, connected, client_list, logged_count, username, match, heap, overlap>>

\* Whatever the clients do, and in whatever order their messages come, the server takes
\* the steps that BattleServer allows its clients to cause.
LEMMA ServerStep == IInv /\ [Next]_vars => Server!Next \/ UNCHANGED Handlers
<1> SUFFICES ASSUME IInv, [Next]_vars PROVE Server!Next \/ UNCHANGED Handlers
  OBVIOUS
<1>1. ASSUME NEW c \in Client, serve(c) \/ elapsed(c) PROVE Server!Next
  <2>1. server = "running"
    BY <1>1, SameElapsed
       DEF serve, elapsed, Server!elapsed, Server!remove_elapsed_match,
           Server!stale_player_access
  <2>2. Base /\ LoginOf(c)
    BY <2>1, Running DEF Good
  <2> QED BY <1>1, <2>1, <2>2, Handled
<1>2. ASSUME NEW c \in Client, connect_to_server(c) PROVE Server!Next
  BY <1>2, SameRest
     DEF connect_to_server, Server!accept_connection, Server!Next, Server!go_server,
         Server!Handle
<1>3. CASE shutdown
  BY <1>3, SameRest DEF shutdown, Server!shutdown, Server!Next, Server!go_server
<1>4. CASE noHandler \/ UNCHANGED vars
  BY <1>4 DEF noHandler, vars, Handlers
<1>5. ASSUME NEW c \in Client,
             \/ user(c) \/ not_answered(c) \/ read(c) \/ exit_failure(c)
             \/ server_closed(c) \/ stale_report(c)
      PROVE  noHandler
  BY <1>5 DEF user, do_login, print_player_list, send_play_request, answer, place_ships,
              send_msg_endgame, quit, exits, process_ends, not_answered, read, exit_failure,
              unexpected, server_closed, stale_report
<1> QED BY <1>1, <1>2, <1>3, <1>4, <1>5 DEF Next, Stopped

\* The clients and the server together keep the book of matches: until a request
\* replaces its sender's own match, each step of theirs enters, confirms or strikes one
\* match as MatchBook allows, or none.
THEOREM KeepsBookAlways == Spec => Server!KeepsBook
<1>1. IInv /\ [Next]_vars => [overlap' \/ Server!Book!Next]_Server!Book!vars
  <2> SUFFICES ASSUME IInv, [Next]_vars
               PROVE  [overlap' \/ Server!Book!Next]_Server!Book!vars
    OBVIOUS
  <2>1. CASE Server!Next
    BY <2>1, Assumed, Server!BookStep DEF IInv, Base
  <2>2. CASE UNCHANGED Handlers
    <3>1. heap' = heap /\ client_list' = client_list
      BY <2>2 DEF Handlers
    <3>2. Server!Entries' = Server!Entries
      BY <3>1 DEF Server!Entries, Server!Matches, Server!entry
    <3> QED BY <3>1, <3>2 DEF Server!Book!vars
  <2> QED BY <2>1, <2>2, ServerStep
<1>2. Init => Server!Book!Init
  <2> SUFFICES ASSUME Server!Init PROVE Server!Book!Init
    BY SameRest DEF Init
  <2>1. Server!Matches = {}
    BY DEF Server!Init, Server!Matches
  <2> QED BY <2>1 DEF Server!Init, Server!Book!Init, Server!Entries
<1> QED BY <1>1, <1>2, Inductive, PTL DEF Spec, Server!KeepsBook

=============================================================================
