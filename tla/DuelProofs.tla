----------------------------- MODULE DuelProofs -----------------------------
(***************************************************************************)
(* The game over UDP: proofs for any table, any number of ships and games,  *)
(* and a network that loses, delays, reorders and, if Duplicates, copies.   *)
(*                                                                          *)
(* The invariant has three parts.  TypeOK; Always, which holds whatever the *)
(* clients accept: how the end of a game goes through the server, and that  *)
(* who has lost has no ship left; and Calm, which holds until a stale       *)
(* datagram is accepted.  Calm relates both clients to the fresh datagrams  *)
(* between them.  What makes it inductive is Due, the status a client comes *)
(* to with what is already on its way: in those terms the two alternate     *)
(* strictly, although READY and a result can be overtaken by a shot.        *)
(* Nothing is said of the table of a client that has left, except when it   *)
(* has lost.                                                                *)
(***************************************************************************)
EXTENDS Duel, FiniteSetTheorems, SequenceTheorems, TLAPS

---------------------------------------------------------------------------
(* The players and the datagrams.                                           *)

\* There are two players.
LEMMA Two ==
  \A p \in Peer :
    /\ other(p) \in Peer /\ other(p) # p /\ other(other(p)) = p
    /\ \A q \in Peer : q # p => q = other(p) /\ p = other(q)
BY PeerAssumption DEF Peer, other

\* What the clients send, and its copies, are datagrams.
LEMMA Sent ==
  /\ \A p \in Peer :
       /\ msg_ready(p) \in Datagram
       /\ \A c \in Cell : msg_shot(p, c) \in Datagram
       /\ \A h \in BOOLEAN : msg_result(p, h) \in Datagram
  /\ \A m \in Datagram : aged(m) \in Datagram /\ aged(m).stale = TRUE
<1>1. \A p \in Peer :
       /\ msg_ready(p) \in Datagram
       /\ \A c \in Cell : msg_shot(p, c) \in Datagram
       /\ \A h \in BOOLEAN : msg_result(p, h) \in Datagram
  BY Two DEF Datagram, msg_ready, msg_shot, msg_result
<1>2. ASSUME NEW m \in Datagram PROVE aged(m) \in Datagram /\ aged(m).stale = TRUE
  <2>1. CASE m \in [to : Peer, type : {"MSG_READY"}, stale : BOOLEAN]
    BY <2>1 DEF Datagram, aged
  <2>2. CASE m \in [to : Peer, type : {"MSG_SHOT"}, cell : Cell, stale : BOOLEAN]
    BY <2>2 DEF Datagram, aged
  <2>3. CASE m \in [to : Peer, type : {"MSG_RESULT"}, hit : BOOLEAN, stale : BOOLEAN]
    BY <2>3 DEF Datagram, aged
  <2> QED BY <2>1, <2>2, <2>3 DEF Datagram
<1> QED BY <1>1, <1>2

\* A datagram of a type has the fields of that type.
LEMMA Fields ==
  \A m \in Datagram :
    /\ m.to \in Peer /\ m.stale \in BOOLEAN
    /\ m.type \in {"MSG_READY", "MSG_SHOT", "MSG_RESULT"}
    /\ m.type = "MSG_SHOT" => m.cell \in Cell
    /\ m.type = "MSG_RESULT" => m.hit \in BOOLEAN
BY DEF Datagram

\* A datagram that is not stale is one the other player has sent.
LEMMA Fresh ==
  ASSUME NEW m \in Datagram, m.stale = FALSE
  PROVE  LET q == other(m.to) IN
         /\ m.type = "MSG_READY" => m = msg_ready(q)
         /\ m.type = "MSG_SHOT" => m = msg_shot(q, m.cell)
         /\ m.type = "MSG_RESULT" => m = msg_result(q, m.hit)
<1> DEFINE q == other(m.to)
<1>1. m.to \in Peer /\ other(q) = m.to
  BY Fields, Two
<1>2. CASE m \in [to : Peer, type : {"MSG_READY"}, stale : BOOLEAN]
  BY <1>1, <1>2 DEF msg_ready
<1>3. CASE m \in [to : Peer, type : {"MSG_SHOT"}, cell : Cell, stale : BOOLEAN]
  BY <1>1, <1>3 DEF msg_shot
<1>4. CASE m \in [to : Peer, type : {"MSG_RESULT"}, hit : BOOLEAN, stale : BOOLEAN]
  BY <1>1, <1>4 DEF msg_result
<1> QED BY <1>2, <1>3, <1>4 DEF Datagram

\* Two datagrams are the same only if they say the same to the same player.
LEMMA Distinct ==
  ASSUME NEW p \in Peer, NEW q \in Peer
  PROVE  /\ msg_ready(p) = msg_ready(q) <=> p = q
         /\ \A c, d \in Cell : msg_shot(p, c) = msg_shot(q, d) <=> p = q /\ c = d
         /\ \A g, h \in BOOLEAN : msg_result(p, g) = msg_result(q, h) <=> p = q /\ g = h
         /\ \A c \in Cell : msg_ready(p) # msg_shot(q, c)
         /\ \A h \in BOOLEAN : msg_ready(p) # msg_result(q, h)
         /\ \A c \in Cell : \A h \in BOOLEAN : msg_shot(p, c) # msg_result(q, h)
<1> USE Two
<1>0. other(p) = other(q) => p = q
  OBVIOUS
<1>1. msg_ready(p).to = other(p) /\ msg_ready(p).type = "MSG_READY"
      /\ msg_ready(q).to = other(q)
  BY DEF msg_ready
<1>2. ASSUME NEW c \in Cell
      PROVE  /\ msg_shot(p, c).to = other(p) /\ msg_shot(p, c).cell = c
             /\ msg_shot(q, c).to = other(q) /\ msg_shot(q, c).cell = c
             /\ msg_shot(p, c).type = "MSG_SHOT" /\ msg_shot(q, c).type = "MSG_SHOT"
  BY DEF msg_shot
<1>3. ASSUME NEW h \in BOOLEAN
      PROVE  /\ msg_result(p, h).to = other(p) /\ msg_result(p, h).hit = h
             /\ msg_result(q, h).to = other(q) /\ msg_result(q, h).hit = h
             /\ msg_result(q, h).type = "MSG_RESULT"
  BY DEF msg_result
<1>4. msg_ready(p) = msg_ready(q) <=> p = q
  BY <1>0, <1>1
<1>5. \A c, d \in Cell : msg_shot(p, c) = msg_shot(q, d) <=> p = q /\ c = d
  BY <1>0, <1>2
<1>6. \A g, h \in BOOLEAN : msg_result(p, g) = msg_result(q, h) <=> p = q /\ g = h
  BY <1>0, <1>3
<1>7. \A c \in Cell : msg_ready(p) # msg_shot(q, c)
  BY <1>1, <1>2
<1>8. \A h \in BOOLEAN : msg_ready(p) # msg_result(q, h)
  BY <1>1, <1>3
<1>9. \A c \in Cell : \A h \in BOOLEAN : msg_shot(p, c) # msg_result(q, h)
  BY <1>2, <1>3
<1> QED BY <1>4, <1>5, <1>6, <1>7, <1>8, <1>9

\* Reading a datagram takes it, and nothing else that is fresh, from the network.
LEMMA Received ==
  ASSUME NEW m \in Datagram, NEW p \in Peer
  PROVE  /\ msg_ready(p) \in receive(m) <=> msg_ready(p) \in net /\ msg_ready(p) # m
         /\ \A c \in Cell : msg_shot(p, c) \in receive(m)
                              <=> msg_shot(p, c) \in net /\ msg_shot(p, c) # m
         /\ \A h \in BOOLEAN : msg_result(p, h) \in receive(m)
                              <=> msg_result(p, h) \in net /\ msg_result(p, h) # m
<1>1. aged(m).stale = TRUE
  BY Sent
<1>2. msg_ready(p).stale = FALSE
  BY DEF msg_ready
<1>3. \A c \in Cell : msg_shot(p, c).stale = FALSE
  BY DEF msg_shot
<1>4. \A h \in BOOLEAN : msg_result(p, h).stale = FALSE
  BY DEF msg_result
<1> QED BY <1>1, <1>2, <1>3, <1>4 DEF receive

\* When a game starts, nothing on the network belongs to it.
LEMMA Aged ==
  ASSUME net \subseteq Datagram, NEW p \in Peer
  PROVE  LET old == {aged(m) : m \in net} IN
         /\ msg_ready(p) \notin old
         /\ \A c \in Cell : msg_shot(p, c) \notin old
         /\ \A h \in BOOLEAN : msg_result(p, h) \notin old
<1>1. \A m \in net : aged(m).stale = TRUE
  BY Sent
<1>2. msg_ready(p).stale = FALSE
  BY DEF msg_ready
<1>3. \A c \in Cell : msg_shot(p, c).stale = FALSE
  BY DEF msg_shot
<1>4. \A h \in BOOLEAN : msg_result(p, h).stale = FALSE
  BY DEF msg_result
<1> QED BY <1>1, <1>2, <1>3, <1>4

---------------------------------------------------------------------------
(* Types.                                                                   *)

Status == Playing \cup {"DISCONNECTED", "SETUP"}

\* Reading a datagram leaves datagrams on the network.
LEMMA ReceiveType ==
  ASSUME net \subseteq Datagram, NEW m \in Datagram
  PROVE  receive(m) \subseteq Datagram
BY Sent DEF receive

\* Ending a game keeps the types of what it changes.
LEMMA EndsType ==
  ASSUME TypeOK, NEW p \in Peer, NEW m \in Ended, ends(p, m)
  PROVE  status' \in [Peer -> Status] /\ toServer' \in [Peer -> Seq(Ended)]
BY DEF TypeOK, ends, Status

\* Every step keeps the types.
LEMMA Typing == TypeOK /\ [Next]_vars => TypeOK'
<1> SUFFICES ASSUME TypeOK, [Next]_vars PROVE TypeOK'
  OBVIOUS
<1> USE DEF Status
<1>1. ASSUME NEW p \in Peer, start(p) PROVE TypeOK'
  <2>1. net' \subseteq Datagram
    BY <1>1, Sent DEF start, TypeOK
  <2>2. round' \in 0 .. MaxGames
    BY <1>1, MaxGamesAssumption DEF start, TypeOK
  <2> QED BY <1>1, <2>1, <2>2 DEF start, boards, TypeOK
<1>2. ASSUME NEW p \in Peer, place_ships(p) PROVE TypeOK'
  <2>1. PICK s \in SUBSET Cell :
          /\ my' = [my EXCEPT ![p] = [c \in Cell |-> IF c \in s THEN "SHIP" ELSE "WATER"]]
          /\ ships' = [ships EXCEPT ![p] = s]
    BY <1>2 DEF place_ships, kSubset
  <2>2. my' \in [Peer -> [Cell -> Square]] /\ ships' \in [Peer -> SUBSET Cell]
    BY <2>1 DEF TypeOK, Square
  <2>3. net' \subseteq Datagram
    BY <1>2, Sent DEF place_ships, TypeOK
  <2>4. opponent' \in [Peer -> [Cell -> Square \ {"SHIP"}]]
    BY <1>2 DEF place_ships, clear, TypeOK, Square
  <2>5. status' \in [Peer -> Status]
    BY <1>2 DEF place_ships, TypeOK, Playing
  <2> QED BY <1>2, <2>2, <2>3, <2>4, <2>5 DEF place_ships, TypeOK
<1>3. ASSUME NEW p \in Peer, shot_opponent_cell(p) PROVE TypeOK'
  <2>1. net' \subseteq Datagram /\ fired' \in [Peer -> Cell]
    BY <1>3, Sent DEF shot_opponent_cell, TypeOK
  <2>2. status' \in [Peer -> Status]
    BY <1>3 DEF shot_opponent_cell, TypeOK, Playing
  <2> QED BY <1>3, <2>1, <2>2 DEF shot_opponent_cell, TypeOK
<1>4. ASSUME NEW p \in Peer, get_opponent_message(p) PROVE TypeOK'
  <2>1. PICK m \in net :
          /\ m.to = p /\ status[p] \in Playing
          /\ \/ process_msg_ready(p, m)
             \/ process_msg_shot(p, m)
             \/ process_msg_result(p, m)
             \/ wrong_message(p, m)
          /\ late' = IF m.stale THEN late \cup {p} ELSE late
          /\ UNCHANGED <<initiator, toClient, match, round>>
    BY <1>4 DEF get_opponent_message
  <2>2. m \in Datagram /\ receive(m) \subseteq Datagram
    BY ReceiveType DEF TypeOK
  <2>3. late' \subseteq Peer
    BY <2>1 DEF TypeOK
  <2>4. CASE process_msg_ready(p, m)
    <3>1. status' \in [Peer -> Status]
      BY <2>4 DEF process_msg_ready, first_turn, TypeOK, Playing
    <3> QED BY <2>1, <2>2, <2>3, <2>4, <3>1 DEF process_msg_ready, boards, TypeOK
  <2>5. CASE process_msg_shot(p, m)
    <3>1. m.cell \in Cell
      BY <2>2, <2>5, Fields DEF process_msg_shot
    <3>2. my' \in [Peer -> [Cell -> Square]]
      BY <2>5, <3>1 DEF process_msg_shot, TypeOK, Square
    <3>3. net' \subseteq Datagram
      BY <2>2, <2>5, Sent DEF process_msg_shot
    <3>4. status' \in [Peer -> Status] /\ toServer' \in [Peer -> Seq(Ended)]
      <4>1. CASE ends(p, "lost")
        BY <4>1, EndsType DEF Ended
      <4>2. CASE UNCHANGED toServer /\ status' = [status EXCEPT ![p] = "MY_TURN"]
        BY <4>2 DEF TypeOK, Playing
      <4> QED BY <2>5, <4>1, <4>2 DEF process_msg_shot
    <3> QED BY <2>1, <2>3, <2>5, <3>2, <3>3, <3>4 DEF process_msg_shot, TypeOK
  <2>6. CASE process_msg_result(p, m)
    <3>1. opponent' \in [Peer -> [Cell -> Square \ {"SHIP"}]]
      BY <2>6 DEF process_msg_result, mark, TypeOK, Square
    <3>2. status' \in [Peer -> Status]
      BY <2>6 DEF process_msg_result, TypeOK, Playing
    <3> QED BY <2>1, <2>2, <2>3, <2>6, <3>1, <3>2 DEF process_msg_result, TypeOK
  <2>7. CASE wrong_message(p, m)
    <3>1. status' \in [Peer -> Status] /\ toServer' \in [Peer -> Seq(Ended)]
      BY <2>7, EndsType DEF wrong_message, Ended
    <3> QED BY <2>1, <2>2, <2>3, <2>7, <3>1 DEF wrong_message, boards, TypeOK
  <2> QED BY <2>1, <2>4, <2>5, <2>6, <2>7
<1>5. ASSUME NEW p \in Peer, disconnect(p) \/ inactivity(p) \/ killed(p) PROVE TypeOK'
  <2>1. status' \in [Peer -> Status] /\ toServer' \in [Peer -> Seq(Ended)]
    BY <1>5, EndsType DEF disconnect, inactivity, killed, Ended
  <2> QED BY <1>5, <2>1 DEF disconnect, inactivity, killed, boards, TypeOK
<1>6. ASSUME NEW p \in Peer, terminate_match(p) PROVE TypeOK'
  <2>1. toServer[p] \in Seq(Ended) /\ toServer[p] # <<>>
    BY <1>6 DEF terminate_match, TypeOK
  <2>2. Head(toServer[p]) \in Ended /\ Tail(toServer[p]) \in Seq(Ended)
    BY <2>1
  <2>3. toServer' \in [Peer -> Seq(Ended)]
    BY <1>6, <2>2 DEF terminate_match, TypeOK
  <2>4. toClient' \in [Peer -> Seq(Ended)]
    <3>1. CASE endgame(p)
      BY <2>2, <3>1, Two DEF endgame, TypeOK
    <3> QED BY <1>6, <3>1 DEF terminate_match, TypeOK
  <2> QED BY <1>6, <2>3, <2>4 DEF terminate_match, boards, TypeOK
<1>7. ASSUME NEW p \in Peer, process_msg_endgame(p) PROVE TypeOK'
  <2>1. Tail(toClient[p]) \in Seq(Ended)
    BY <1>7 DEF process_msg_endgame, TypeOK
  <2>2. toClient' \in [Peer -> Seq(Ended)] /\ status' \in [Peer -> Status]
    BY <1>7, <2>1 DEF process_msg_endgame, TypeOK
  <2> QED BY <1>7, <2>2 DEF process_msg_endgame, boards, TypeOK
<1>8. CASE UNCHANGED vars
  BY <1>8 DEF vars, TypeOK
<1> QED BY <1>1, <1>2, <1>3, <1>4, <1>5, <1>6, <1>7, <1>8 DEF Next, Stopped

\* The types hold at the start.
LEMMA InitTypes == Init => TypeOK
<1> SUFFICES ASSUME Init PROVE TypeOK
  OBVIOUS
<1>1. my \in [Peer -> [Cell -> Square]] /\ opponent \in [Peer -> [Cell -> Square \ {"SHIP"}]]
  BY DEF Init, Square
<1>2. toServer \in [Peer -> Seq(Ended)] /\ toClient \in [Peer -> Seq(Ended)]
  BY DEF Init
<1>3. round \in 0 .. MaxGames
  BY MaxGamesAssumption DEF Init
<1>4. fired \in [Peer -> Cell]
  BY DEF Init
<1>5. status \in [Peer -> Playing \cup {"DISCONNECTED", "SETUP"}] /\ ships \in [Peer -> SUBSET Cell]
  BY DEF Init
<1> QED BY <1>1, <1>2, <1>3, <1>4, <1>5 DEF Init, TypeOK

---------------------------------------------------------------------------
(* What holds whatever was accepted.                                        *)

Live(p) == status[p] # "DISCONNECTED"

\* A client sends MSG_ENDGAME when it leaves, one of them, and is sent one after
\* the other has left and the match is over.
EndingOf(p) ==
  /\ toServer[p] # <<>> => Len(toServer[p]) = 1 /\ ~Live(p)
  /\ toClient[p] # <<>> =>
       Len(toClient[p]) = 1 /\ ~match /\ ~Live(other(p)) /\ toClient[other(p)] = <<>>
  /\ p \in gone => ~Live(p)

\* p has lost, and that is on its way to the other.
Losing(p) == toServer[p] = <<"lost">> \/ toClient[other(p)] = <<"lost">>

\* A player who has lost has no ship left; one who plays has.
FleetOf(p) ==
  /\ Losing(p) => game_lost(my[p]) /\ ~Live(p)
  /\ status[p] \in Playing => ~game_lost(my[p])

\* The square fired at has not been fired at before; the tables of one who waits
\* for the first turn are as they were made.
TablesOf(p) ==
  /\ status[p] = "WAIT_RESULT" => opponent[p][fired[p]] = "WATER"
  /\ status[p] = "WAITING" =>
       \A c \in Cell : opponent[p][c] = "WATER" /\ my[p][c] \in {"WATER", "SHIP"}

Always == \A p \in Peer : EndingOf(p) /\ FleetOf(p) /\ TablesOf(p)

\* A queue of one.
LEMMA Single ==
  ASSUME NEW s \in Seq(Ended), Len(s) = 1
  PROVE  Tail(s) = <<>> /\ s = <<Head(s)>>
<1>1. Tail(s) \in Seq(Ended) /\ Len(Tail(s)) = 0
  OBVIOUS
<1>2. s = <<s[1]>>
  OBVIOUS
<1>3. Tail(s) = <<>>
  BY <1>1, EmptySeq
<1> QED BY <1>2, <1>3

\* No verdict comes from one who plays.
LEMMA NotLost ==
  ASSUME Always, NEW p \in Peer, Live(p)
  PROVE  toServer[p] = <<>> /\ toClient[other(p)] = <<>>
BY Two DEF Always, EndingOf

\* A player to whom nothing happens, of whom no news is sent, is where it was.
LEMMA FleetKept ==
  ASSUME NEW q \in Peer, FleetOf(q), Losing(q)' => Losing(q), my'[q] = my[q],
         status'[q] = status[q]
  PROVE  FleetOf(q)'
BY DEF FleetOf, game_lost, Live

\* What a client that leaves sends is all that its queue holds.
LEMMA EndsAlone ==
  ASSUME TypeOK, Always, NEW p \in Peer, Live(p), NEW m \in Ended, ends(p, m)
  PROVE  /\ status' = [status EXCEPT ![p] = "DISCONNECTED"]
         /\ toServer' = [toServer EXCEPT ![p] = <<m>>]
<1>1. toServer[p] = <<>>
  BY DEF Always, EndingOf
<1> QED BY <1>1 DEF ends, TypeOK

\* One leaves; the other's tables stay.
LEMMA LeavesAlways ==
  ASSUME TypeOK, Always, NEW p \in Peer, NEW m \in Ended, Live(p), ends(p, m),
         gone' \subseteq gone \cup {p}, UNCHANGED <<opponent, fired, toClient, match>>,
         \A q \in Peer : q # p => my'[q] = my[q],
         m = "lost" => game_lost(my'[p])
  PROVE  Always'
<1>1. /\ status' = [status EXCEPT ![p] = "DISCONNECTED"]
      /\ toServer' = [toServer EXCEPT ![p] = <<m>>]
  BY EndsAlone
<1>2. Len(<<m>>) = 1 /\ (<<m>> = <<"lost">> => m = "lost")
  OBVIOUS
<1>3. ASSUME NEW q \in Peer PROVE EndingOf(q)' /\ FleetOf(q)' /\ TablesOf(q)'
  <2>1. EndingOf(q)'
    BY <1>1, <1>2, Two DEF Always, EndingOf, Live, TypeOK
  <2>2. FleetOf(q)'
    <3>1. CASE q = p
      <4>1. ~Live(p)' /\ status'[p] \notin Playing
        BY <1>1 DEF Live, TypeOK, Playing
      <4>2. Losing(p)' => game_lost(my[p])'
        BY <1>1, <1>2, NotLost DEF Losing, TypeOK, game_lost
      <4> QED BY <3>1, <4>1, <4>2 DEF FleetOf
    <3>2. CASE q # p
      <4>1. status'[q] = status[q] /\ (Losing(q)' => Losing(q))
        BY <1>1, <3>2 DEF Losing, TypeOK
      <4> QED BY <3>2, <4>1, FleetKept DEF Always
    <3> QED BY <3>1, <3>2
  <2>3. TablesOf(q)'
    BY <1>1 DEF Always, TablesOf, TypeOK
  <2> QED BY <2>1, <2>2, <2>3
<1> QED BY <1>3 DEF Always

\* Every step keeps what holds whatever was accepted.
LEMMA AlwaysStep == TypeOK /\ TypeOK' /\ Always /\ [Next]_vars => Always'
<1> SUFFICES ASSUME TypeOK, TypeOK', Always, [Next]_vars PROVE Always'
  OBVIOUS
<1>1. ASSUME NEW i \in Peer, start(i) PROVE Always'
  <2>1. \A p \in Peer : status'[p] = "SETUP" /\ toServer'[p] = <<>> /\ toClient'[p] = <<>>
    BY <1>1 DEF start
  <2>2. gone' = {}
    BY <1>1 DEF start
  <2> QED BY <2>1, <2>2, Two DEF Always, EndingOf, FleetOf, TablesOf, Losing, Playing
<1>2. ASSUME NEW p \in Peer, place_ships(p) PROVE Always'
  <2>1. PICK s \in kSubset(SHIP_COUNT, Cell) :
          my' = [my EXCEPT ![p] = [c \in Cell |-> IF c \in s THEN "SHIP" ELSE "WATER"]]
    BY <1>2 DEF place_ships
  <2>2. s # {} /\ s \subseteq Cell
    BY CellAssumption, FS_EmptySet DEF kSubset
  <2>3. /\ \A c \in Cell : my'[p][c] = IF c \in s THEN "SHIP" ELSE "WATER"
        /\ \A q \in Peer : q # p => my'[q] = my[q]
    BY <2>1 DEF TypeOK
  <2>4. ~game_lost(my'[p])
    BY <2>2, <2>3 DEF game_lost
  <2>5. /\ status[p] = "SETUP" /\ status' = [status EXCEPT ![p] = "WAITING"]
        /\ \A c \in Cell : opponent'[p][c] = "WATER"
        /\ \A q \in Peer : q # p => opponent'[q] = opponent[q]
        /\ UNCHANGED <<fired, gone, toServer, toClient, match>>
    BY <1>2 DEF place_ships, clear, TypeOK
  <2>6. ASSUME NEW q \in Peer PROVE EndingOf(q)' /\ FleetOf(q)' /\ TablesOf(q)'
    <3>1. EndingOf(q)'
      BY <2>5, Two DEF Always, EndingOf, Live, TypeOK
    <3>2. CASE q = p
      <4>1. status'[q] = "WAITING" /\ ~Losing(q)'
        <5>1. Live(p)
          BY <2>5 DEF Live
        <5>2. toServer[p] = <<>> /\ toClient[other(p)] = <<>>
          BY <5>1, NotLost
        <5> QED BY <2>5, <3>2, <5>2 DEF Losing, TypeOK
      <4>2. FleetOf(q)'
        BY <2>4, <3>2, <4>1 DEF FleetOf
      <4>3. TablesOf(q)'
        BY <2>3, <2>5, <3>2, <4>1 DEF TablesOf
      <4> QED BY <3>1, <4>2, <4>3
    <3>3. CASE q # p
      <4>1. FleetOf(q)'
        <5>1. status'[q] = status[q] /\ (Losing(q)' => Losing(q))
          BY <2>5, <3>3 DEF Losing, TypeOK
        <5> QED BY <2>3, <3>3, <5>1, FleetKept DEF Always
      <4>2. TablesOf(q)'
        BY <2>3, <2>5, <3>3 DEF Always, TablesOf, TypeOK
      <4> QED BY <3>1, <4>1, <4>2
    <3> QED BY <3>2, <3>3
  <2> QED BY <2>6 DEF Always
<1>3. ASSUME NEW p \in Peer, shot_opponent_cell(p) PROVE Always'
  <2>1. PICK c \in Cell : opponent[p][c] = "WATER" /\ fired' = [fired EXCEPT ![p] = c]
    BY <1>3 DEF shot_opponent_cell, open_square
  <2>2. /\ status[p] = "MY_TURN" /\ status' = [status EXCEPT ![p] = "WAIT_RESULT"]
        /\ UNCHANGED <<my, opponent, gone, toServer, toClient, match>>
    BY <1>3 DEF shot_opponent_cell
  <2>3. ASSUME NEW q \in Peer PROVE EndingOf(q)' /\ FleetOf(q)' /\ TablesOf(q)'
    <3>1. EndingOf(q)'
      BY <2>2, Two DEF Always, EndingOf, Live, TypeOK
    <3>2. FleetOf(q)'
      BY <2>2, ZenonT(60) DEF Always, FleetOf, Losing, Live, game_lost, Playing, TypeOK
    <3>3. TablesOf(q)'
      BY <2>1, <2>2 DEF Always, TablesOf, TypeOK
    <3> QED BY <3>1, <3>2, <3>3
  <2> QED BY <2>3 DEF Always
<1>4. ASSUME NEW p \in Peer, get_opponent_message(p) PROVE Always'
  <2>1. PICK m \in net :
          /\ m.to = p /\ status[p] \in Playing
          /\ \/ process_msg_ready(p, m)
             \/ process_msg_shot(p, m)
             \/ process_msg_result(p, m)
             \/ wrong_message(p, m)
          /\ UNCHANGED <<initiator, toClient, match, round>>
    BY <1>4 DEF get_opponent_message
  <2>2. Live(p)
    BY <2>1 DEF Live, Playing
  <2>3. CASE process_msg_ready(p, m)
    <3>1. /\ status[p] = "WAITING" /\ status' = [status EXCEPT ![p] = first_turn(p)]
          /\ first_turn(p) \in {"MY_TURN", "OPPONENT_TURN"}
          /\ UNCHANGED <<my, opponent, fired, gone, toServer, toClient, match>>
      BY <2>1, <2>3 DEF process_msg_ready, first_turn, boards
    <3>2. ASSUME NEW q \in Peer PROVE EndingOf(q)' /\ FleetOf(q)' /\ TablesOf(q)'
      <4>1. EndingOf(q)'
        BY <3>1, Two DEF Always, EndingOf, Live, TypeOK
      <4>2. FleetOf(q)'
        BY <3>1 DEF Always, FleetOf, Losing, Live, game_lost, Playing, TypeOK
      <4>3. TablesOf(q)'
        BY <3>1 DEF Always, TablesOf, TypeOK
      <4> QED BY <4>1, <4>2, <4>3
    <3> QED BY <3>2 DEF Always
  <2>4. CASE process_msg_shot(p, m)
    <3> DEFINE hit == my[p][m.cell] = "SHIP"
    <3>1. /\ my' = [my EXCEPT ![p][m.cell] = IF hit THEN "SUNK" ELSE "MISS"]
          /\ UNCHANGED <<opponent, fired, gone, toClient, match>>
          /\ m.cell \in Cell /\ status[p] = "OPPONENT_TURN"
      BY <2>1, <2>4, Fields DEF process_msg_shot, TypeOK
    <3>2. /\ \A q \in Peer : q # p => my'[q] = my[q]
          /\ ~hit => \A c \in Cell : my[p][c] = "SHIP" => my'[p][c] = "SHIP"
      BY <3>1 DEF TypeOK
    <3>3. CASE ends(p, "lost") /\ hit /\ game_lost(my'[p])
      BY <2>2, <3>1, <3>2, <3>3, LeavesAlways DEF Ended
    <3>4. CASE ~(hit /\ game_lost(my'[p])) /\ status' = [status EXCEPT ![p] = "MY_TURN"]
               /\ UNCHANGED toServer
      <4>1. ~game_lost(my[p])
        BY <2>1 DEF Always, FleetOf
      <4>2. ~game_lost(my'[p])
        BY <3>2, <3>4, <4>1 DEF game_lost
      <4>3. ASSUME NEW q \in Peer PROVE EndingOf(q)' /\ FleetOf(q)' /\ TablesOf(q)'
        <5>1. EndingOf(q)'
          BY <2>2, <3>1, <3>4, Two DEF Always, EndingOf, Live, TypeOK
        <5>2. ~Losing(p)'
          BY <2>2, <3>1, <3>4, Two DEF Always, EndingOf, Losing, Live
        <5>3. FleetOf(q)'
          <6>1. CASE q = p
            BY <4>2, <5>2, <6>1 DEF FleetOf
          <6>2. CASE q # p
            <7>1. status'[q] = status[q] /\ (Losing(q)' => Losing(q))
              BY <3>1, <3>4, <6>2 DEF Losing, TypeOK
            <7> QED BY <3>2, <6>2, <7>1, FleetKept DEF Always
          <6> QED BY <6>1, <6>2
        <5>4. TablesOf(q)'
          BY <3>1, <3>2, <3>4 DEF Always, TablesOf, TypeOK
        <5> QED BY <5>1, <5>3, <5>4
      <4> QED BY <4>3 DEF Always
    <3> QED BY <2>4, <3>3, <3>4 DEF process_msg_shot
  <2>5. CASE process_msg_result(p, m)
    <3>1. /\ status[p] = "WAIT_RESULT" /\ status' = [status EXCEPT ![p] = "OPPONENT_TURN"]
          /\ UNCHANGED <<my, fired, gone, toServer, toClient, match>>
          /\ \A q \in Peer : q # p => opponent'[q] = opponent[q]
      BY <2>1, <2>5 DEF process_msg_result, mark, TypeOK
    <3>2. ASSUME NEW q \in Peer PROVE EndingOf(q)' /\ FleetOf(q)' /\ TablesOf(q)'
      <4>1. EndingOf(q)'
        BY <3>1, Two DEF Always, EndingOf, Live, TypeOK
      <4>2. FleetOf(q)'
        BY <3>1, ZenonT(60) DEF Always, FleetOf, Losing, Live, game_lost, Playing, TypeOK
      <4>3. TablesOf(q)'
        BY <3>1 DEF Always, TablesOf, TypeOK
      <4> QED BY <4>1, <4>2, <4>3
    <3> QED BY <3>2 DEF Always
  <2>6. CASE wrong_message(p, m)
    BY <2>1, <2>2, <2>6, LeavesAlways DEF wrong_message, boards, Ended
  <2> QED BY <2>1, <2>3, <2>4, <2>5, <2>6
<1>5. ASSUME NEW p \in Peer, disconnect(p) \/ inactivity(p) \/ killed(p) PROVE Always'
  <2>1. Live(p) /\ ends(p, "disconnected")
    BY <1>5 DEF disconnect, inactivity, killed, Live, Playing
  <2>2. gone' \subseteq gone \cup {p} /\ UNCHANGED <<my, opponent, fired, toClient, match>>
    BY <1>5 DEF disconnect, inactivity, killed, boards
  <2> QED BY <2>1, <2>2, LeavesAlways DEF Ended
<1>6. ASSUME NEW p \in Peer, terminate_match(p) PROVE Always'
  <2>1. /\ toServer[p] # <<>> /\ Len(toServer[p]) = 1 /\ ~Live(p)
        /\ toServer' = [toServer EXCEPT ![p] = Tail(@)] /\ match' = FALSE
        /\ UNCHANGED <<status, my, opponent, fired, gone>>
    BY <1>6 DEF terminate_match, Always, EndingOf, boards
  <2>2. toServer'[p] = <<>> /\ toServer[p] = <<Head(toServer[p])>>
    <3>1. toServer[p] \in Seq(Ended)
      BY DEF TypeOK
    <3> QED BY <2>1, <3>1, Single DEF TypeOK
  <2>3. \A q \in Peer : q # p => toServer'[q] = toServer[q]
    BY <2>1 DEF TypeOK
  <2>4. CASE ~match /\ UNCHANGED toClient
    BY <2>1, <2>2, <2>3, <2>4 DEF Always, EndingOf, FleetOf, TablesOf, Losing, Live, game_lost
  <2>5. CASE match /\ endgame(p)
    <3>1. \A q \in Peer : toClient[q] = <<>>
      BY <2>5 DEF Always, EndingOf
    <3>2. /\ toClient'[other(p)] = <<Head(toServer[p])>>
          /\ toClient'[p] = <<>>
      <4>1. toClient' = [toClient EXCEPT ![other(p)] = Append(<<>>, Head(toServer[p]))]
        BY <2>5, <3>1, Two DEF endgame, TypeOK
      <4> QED BY <3>1, <4>1, Two DEF TypeOK
    <3>3. ASSUME NEW q \in Peer PROVE EndingOf(q)' /\ FleetOf(q)' /\ TablesOf(q)'
      <4>1. q # p => q = other(p) /\ other(q) = p
        BY Two
      <4>2. EndingOf(q)'
        BY <2>1, <2>2, <2>3, <3>2, <4>1 DEF Always, EndingOf, Live
      <4>3. Losing(q)' => Losing(q)
        BY <2>2, <2>3, <3>2, <4>1 DEF Losing
      <4>4. FleetOf(q)'
        BY <2>1, <4>3 DEF Always, FleetOf, Live, game_lost
      <4>5. TablesOf(q)'
        BY <2>1 DEF Always, TablesOf
      <4> QED BY <4>2, <4>4, <4>5
    <3> QED BY <3>3 DEF Always
  <2> QED BY <1>6, <2>4, <2>5 DEF terminate_match
<1>7. ASSUME NEW p \in Peer, process_msg_endgame(p) PROVE Always'
  <2>1. /\ toClient[p] # <<>> /\ toClient' = [toClient EXCEPT ![p] = Tail(@)]
        /\ status' = [status EXCEPT ![p] = "DISCONNECTED"]
        /\ UNCHANGED <<my, opponent, fired, gone, toServer, match>>
    BY <1>7 DEF process_msg_endgame, boards
  <2>2. toClient'[p] = <<>>
    <3>1. toClient[p] \in Seq(Ended) /\ Len(toClient[p]) = 1
      BY <2>1 DEF Always, EndingOf, TypeOK
    <3> QED BY <2>1, <3>1, Single DEF TypeOK
  <2>3. \A q \in Peer : q # p => toClient'[q] = toClient[q]
    BY <2>1 DEF TypeOK
  <2>4. ASSUME NEW q \in Peer PROVE EndingOf(q)' /\ FleetOf(q)' /\ TablesOf(q)'
    <3>1. EndingOf(q)'
      BY <2>1, <2>2, <2>3, Two DEF Always, EndingOf, Live, TypeOK
    <3>2. Losing(q)' => Losing(q)
      <4>1. other(q) \in Peer /\ toClient'[other(q)] \in {<<>>, toClient[other(q)]}
        BY <2>2, <2>3, Two
      <4> QED BY <2>1, <4>1 DEF Losing
    <3>3. FleetOf(q)'
      BY <2>1, <3>2 DEF Always, FleetOf, Live, game_lost, Playing, TypeOK
    <3>4. TablesOf(q)'
      BY <2>1 DEF Always, TablesOf, TypeOK
    <3> QED BY <3>1, <3>3, <3>4
  <2> QED BY <2>4 DEF Always
<1>8. CASE UNCHANGED vars
  BY <1>8 DEF vars, Always, EndingOf, FleetOf, TablesOf, Losing, Live, game_lost
<1> QED BY <1>1, <1>2, <1>3, <1>4, <1>5, <1>6, <1>7, <1>8 DEF Next, Stopped

---------------------------------------------------------------------------
(* What holds as long as no stale datagram has been accepted.               *)

\* The fresh datagrams on their way to p.
ReadyFor(p) == msg_ready(other(p)) \in net

ShotFor(p) == \E c \in Cell : msg_shot(other(p), c) \in net

ResultFor(p) == \E h \in BOOLEAN : msg_result(other(p), h) \in net

\* The status p comes to with a datagram that is on its way.
Due(p) ==
  IF status[p] = "WAITING" /\ ReadyFor(p) THEN first_turn(p)
  ELSE IF status[p] = "WAIT_RESULT" /\ ResultFor(p) THEN "OPPONENT_TURN"
  ELSE status[p]

\* p waits for everything it is sent, or will after what comes first.
Inbox(p) ==
  /\ ReadyFor(p) => status[p] \in {"SETUP", "WAITING"}
  /\ ResultFor(p) => status[p] = "WAIT_RESULT"
  /\ ShotFor(p) => Due(p) = "OPPONENT_TURN"

\* What is on its way to p is true: the shot is the other's last, at a square
\* that was not shot before, and the result is that of p's last shot.
InboxTruth(p) ==
  /\ \A c \in Cell : msg_shot(other(p), c) \in net =>
       c = fired[other(p)] /\ my[p][c] \in {"WATER", "SHIP"}
  /\ \A h \in BOOLEAN : msg_result(other(p), h) \in net =>
       my[other(p)][fired[p]] = IF h THEN "SUNK" ELSE "MISS"

ShipsHere(p) == {c \in Cell : my[p][c] \in {"SHIP", "SUNK"}} = ships[p]

\* It is the turn of one, and a shot is on its way if that one has fired.
TurnOf(p) ==
  \/ Due(p) = "MY_TURN" /\ Due(other(p)) = "OPPONENT_TURN" /\ ~ShotFor(other(p))
  \/ Due(p) = "WAIT_RESULT" /\ Due(other(p)) = "OPPONENT_TURN" /\ ShotFor(other(p))

\* Two who play: READY is sent when the ships are placed, and then they alternate.
Pair(p) ==
  /\ status[p] = "SETUP" =>
       /\ status[other(p)] \in {"SETUP", "WAITING"} /\ ~ReadyFor(other(p))
       /\ status[other(p)] = "WAITING" => ReadyFor(p)
  /\ status[p] = "WAITING" /\ status[other(p)] # "SETUP" => ReadyFor(p)
  /\ status[p] # "SETUP" /\ status[other(p)] # "SETUP" => TurnOf(p) \/ TurnOf(other(p))

\* p's record agrees with the other's table, but for the last shot while its
\* result is on its way.
Records(p) ==
  \A c \in Cell :
    IF opponent[p][c] = "WATER"
    THEN my[other(p)][c] \in {"WATER", "SHIP"} \/ (ResultFor(p) /\ c = fired[p])
    ELSE my[other(p)][c] = opponent[p][c]

\* The first player is at most one shot ahead.
Count(p) ==
  other(p) = initiator =>
    Shots(p) - Shots(other(p)) =
      IF Due(p) = "MY_TURN" \/ Due(other(p)) = "WAIT_RESULT" THEN 0 ELSE 1

\* q has lost: the other waits for a result that is not coming, and has hit all
\* ships.
Beaten(q) ==
  LET p == other(q) IN
  /\ status[p] = "WAIT_RESULT" /\ ~ResultFor(p)
  /\ ships[q] = {fired[p]} \cup {c \in Cell : opponent[p][c] = "SUNK"}

CalmAt(p) ==
  /\ Live(p) => Inbox(p) /\ InboxTruth(p)
  /\ status[p] \in Playing => ShipsHere(p)
  /\ Live(p) /\ Live(other(p)) => Pair(p)
  /\ status[p] \in Playing /\ status[other(p)] \in Playing => Records(p) /\ Count(p)
  /\ Losing(p) /\ Live(other(p)) => Beaten(p)

Calm == late = {} => \A p \in Peer : CalmAt(p)

\* The fresh datagrams to p are what they were.
SameMail(p) ==
  /\ msg_ready(other(p)) \in net' <=> msg_ready(other(p)) \in net
  /\ \A c \in Cell : msg_shot(other(p), c) \in net' <=> msg_shot(other(p), c) \in net
  /\ \A h \in BOOLEAN : msg_result(other(p), h) \in net' <=> msg_result(other(p), h) \in net

\* The same datagrams are the same mail.
LEMMA MailKept ==
  ASSUME NEW p \in Peer, SameMail(p)
  PROVE  /\ ReadyFor(p)' <=> ReadyFor(p)
         /\ ShotFor(p)' <=> ShotFor(p)
         /\ ResultFor(p)' <=> ResultFor(p)
BY DEF SameMail, ReadyFor, ShotFor, ResultFor

\* A player without new mail who does nothing.
LEMMA InboxKept ==
  ASSUME NEW p \in Peer, SameMail(p), status'[p] = status[p], initiator' = initiator
  PROVE  Due(p)' = Due(p) /\ (Inbox(p)' <=> Inbox(p))
<1>1. Due(p)' = Due(p)
  BY MailKept DEF Due, first_turn
<1> QED BY <1>1, MailKept DEF Inbox

\* Mail that was true stays true while nobody's table changes.
LEMMA TruthKept ==
  ASSUME NEW p \in Peer, SameMail(p), InboxTruth(p), fired' = fired, my' = my
  PROVE  InboxTruth(p)'
BY DEF SameMail, InboxTruth

\* One leaves, and the other's mail stays as it is.
LEMMA LeavesCalm ==
  ASSUME TypeOK, NEW a \in Peer, \A p \in Peer : CalmAt(p),
         status' = [status EXCEPT ![a] = "DISCONNECTED"],
         UNCHANGED <<initiator, boards>>, SameMail(other(a)),
         \A p \in Peer : Losing(p)' => Losing(p)
  PROVE  \A p \in Peer : CalmAt(p)'
<1> DEFINE b == other(a)
<1>1. b \in Peer /\ b # a /\ other(b) = a
  BY Two
<1>2. ~Live(a)' /\ status'[a] \notin Playing /\ status'[b] = status[b] /\ (Live(b)' <=> Live(b))
  BY <1>1 DEF TypeOK, Live, Playing
<1>3. UNCHANGED <<my, opponent, fired, ships>>
  BY DEF boards
<1>4. SameMail(b)
  OBVIOUS
<1> HIDE DEF b
<1>5. CalmAt(a)'
  <2>1. Losing(a)' /\ Live(b)' => Beaten(a)'
    <3> SUFFICES ASSUME Losing(a)', Live(b)' PROVE Beaten(a)'
      OBVIOUS
    <3>1. Beaten(a)
      BY <1>2 DEF CalmAt, b
    <3>2. ResultFor(b)' <=> ResultFor(b)
      BY <1>1, <1>4, MailKept
    <3> QED BY <1>2, <1>3, <3>1, <3>2 DEF Beaten, b
  <2> QED BY <1>2, <2>1 DEF CalmAt, b
<1>6. CalmAt(b)'
  <2>1. Live(b)' => Inbox(b)' /\ InboxTruth(b)'
    BY <1>1, <1>2, <1>3, <1>4, InboxKept, TruthKept DEF CalmAt
  <2>2. status'[b] \in Playing => ShipsHere(b)'
    BY <1>1, <1>2, <1>3 DEF CalmAt, ShipsHere
  <2> QED BY <1>1, <1>2, <2>1, <2>2 DEF CalmAt
<1> QED BY <1>5, <1>6, Two DEF b

\* One who plays has not lost.
LEMMA NotLosing ==
  ASSUME Always, NEW p \in Peer, Live(p)
  PROVE  ~Losing(p)
BY DEF Always, FleetOf

\* A new game: nothing on the network belongs to it.
LEMMA StartCalm ==
  ASSUME TypeOK, NEW i \in Peer, start(i)
  PROVE  \A p \in Peer : CalmAt(p)'
<1>1. \A p \in Peer : status'[p] = "SETUP" /\ toServer'[p] = <<>> /\ toClient'[p] = <<>>
  BY DEF start
<1>2. net' = {aged(m) : m \in net} /\ net \subseteq Datagram
  BY DEF start, TypeOK
<1>3. ASSUME NEW p \in Peer PROVE CalmAt(p)'
  <2>1. other(p) \in Peer
    BY Two
  <2>2. ~ReadyFor(p)' /\ ~ReadyFor(other(p))' /\ ~ShotFor(p)' /\ ~ResultFor(p)'
    BY <1>2, <2>1, Two, Aged DEF ReadyFor, ShotFor, ResultFor
  <2>3. InboxTruth(p)'
    BY <2>2 DEF InboxTruth, ShotFor, ResultFor
  <2>4. ~Losing(p)'
    BY <1>1, <2>1 DEF Losing
  <2> QED BY <1>1, <2>1, <2>2, <2>3, <2>4 DEF CalmAt, Inbox, Pair, Playing
<1> QED BY <1>3

\* The ships are placed, before or after those of the other.
LEMMA PlaceCalm ==
  ASSUME TypeOK, Always, Always', NEW a \in Peer, \A p \in Peer : CalmAt(p), place_ships(a)
  PROVE  \A p \in Peer : CalmAt(p)'
<1> DEFINE b == other(a)
<1>0. b \in Peer /\ b # a /\ other(b) = a /\ \A p \in Peer : p # a => p = b
  BY Two
<1>c. CalmAt(a) /\ CalmAt(b)
  BY <1>0
<1>d. b = other(a)
  OBVIOUS
<1> HIDE DEF b
<1>1. /\ status[a] = "SETUP" /\ status'[a] = "WAITING" /\ status'[b] = status[b]
      /\ UNCHANGED <<initiator, fired, toServer, toClient>>
      /\ opponent'[b] = opponent[b] /\ \A c \in Cell : opponent'[a][c] = "WATER"
  BY <1>0 DEF place_ships, clear, TypeOK
<1>2. /\ my'[b] = my[b] /\ ships'[b] = ships[b]
      /\ \A c \in Cell : my'[a][c] = IF c \in ships'[a] THEN "SHIP" ELSE "WATER"
      /\ ships'[a] \subseteq Cell
  BY <1>0 DEF place_ships, TypeOK, kSubset
<1>n. net' = net \cup {msg_ready(a)}
  BY DEF place_ships
<1>3. SameMail(a) /\ ReadyFor(b)'
  <2>1. ReadyFor(b)'
    BY <1>n, <1>0 DEF ReadyFor
  <2>2. msg_ready(b) # msg_ready(a)
    BY <1>0, Distinct
  <2>3. \A c \in Cell : msg_shot(b, c) # msg_ready(a)
    BY <1>0, Distinct
  <2>4. \A h \in BOOLEAN : msg_result(b, h) # msg_ready(a)
    BY <1>0, Distinct
  <2> QED BY <1>n, <1>d, <2>1, <2>2, <2>3, <2>4 DEF SameMail
<1>4. (ShotFor(b)' <=> ShotFor(b)) /\ (ResultFor(b)' <=> ResultFor(b))
  <2>1. \A c \in Cell : msg_shot(a, c) # msg_ready(a)
    BY Distinct
  <2>2. \A h \in BOOLEAN : msg_result(a, h) # msg_ready(a)
    BY Distinct
  <2> QED BY <1>0, <1>n, <2>1, <2>2 DEF ShotFor, ResultFor
<1>5. Live(a) /\ Live(a)' /\ ~Losing(a)' /\ status[a] \notin Playing
  <2>1. Live(a) /\ Live(a)' /\ status[a] \notin Playing
    BY <1>1 DEF Live, Playing
  <2>2. ~Losing(a)'
    BY <2>1 DEF Always, FleetOf
  <2> QED BY <2>1, <2>2
<1>6. ~ShotFor(a)' /\ ~ResultFor(a)'
  <2>1. ~ShotFor(a) /\ ~ResultFor(a)
    BY <1>1, <1>5, <1>c DEF CalmAt, Inbox, Due
  <2> QED BY <2>1, <1>3, MailKept
<1>7. Live(b) => /\ status[b] \in {"SETUP", "WAITING"}
                 /\ status[b] = "WAITING" => ReadyFor(a)'
                 /\ ~ShotFor(b)' /\ ~ResultFor(b)'
  <2> SUFFICES ASSUME Live(b) PROVE /\ status[b] \in {"SETUP", "WAITING"}
                                    /\ status[b] = "WAITING" => ReadyFor(a)'
                                    /\ ~ShotFor(b)' /\ ~ResultFor(b)'
    OBVIOUS
  <2>1. status[b] \in {"SETUP", "WAITING"} /\ ~ReadyFor(b) /\ (status[b] = "WAITING" => ReadyFor(a))
    BY <1>1, <1>5, <1>c, <1>d DEF CalmAt, Pair
  <2>2. ~ShotFor(b) /\ ~ResultFor(b)
    BY <2>1, <1>c DEF CalmAt, Inbox, Due
  <2> QED BY <2>1, <2>2, <1>3, <1>4, MailKept
<1>8. status[b] = "SETUP" => ~ReadyFor(a)'
  <2>1. status[b] = "SETUP" => ~ReadyFor(a)
    BY <1>0, <1>5, <1>c DEF CalmAt, Pair, Live
  <2> QED BY <2>1, <1>3, MailKept
<1>9. /\ status[b] = "WAITING" =>
           \A c \in Cell : opponent[b][c] = "WATER" /\ my[b][c] \in {"WATER", "SHIP"}
      /\ status[b] = "WAITING" => Due(a)' = first_turn(a)' /\ Due(b)' = first_turn(b)'
  BY <1>0, <1>1, <1>3, <1>7 DEF Always, TablesOf, Due, Live
<1>10. \A p \in Peer : (\A c \in Cell : opponent'[p][c] = "WATER") /\ status'[p] = "WAITING"
                         => Shots(p)' = 0
  BY FS_EmptySet DEF Shots
<1>11. initiator' \in Peer /\ (initiator' = a \/ initiator' = b)
  BY <1>0, <1>1 DEF TypeOK
<1>12. status[b] \in Playing => status[b] = "WAITING" /\ Live(b)
  BY <1>7 DEF Playing, Live
<1>13. status[b] = "WAITING" =>
         /\ TurnOf(a)' \/ TurnOf(b)'
         /\ Records(a)' /\ Records(b)' /\ Count(a)' /\ Count(b)'
  <2> SUFFICES ASSUME status[b] = "WAITING"
               PROVE  /\ TurnOf(a)' \/ TurnOf(b)'
                      /\ Records(a)' /\ Records(b)' /\ Count(a)' /\ Count(b)'
    OBVIOUS
  <2>1. Live(b)
    BY DEF Live
  <2>2. TurnOf(a)' \/ TurnOf(b)'
    BY <1>0, <1>d, <1>6, <1>7, <1>9, <1>11, <2>1 DEF TurnOf, first_turn
  <2>3. Records(a)' /\ Records(b)'
    BY <1>0, <1>d, <1>1, <1>2, <1>9 DEF Records
  <2>4. Count(a)' /\ Count(b)'
    BY <1>0, <1>d, <1>1, <1>9, <1>10, <1>11 DEF Count, first_turn
  <2> QED BY <2>2, <2>3, <2>4
<1>14. CalmAt(a)'
  <2>1. Inbox(a)' /\ InboxTruth(a)'
    BY <1>1, <1>6 DEF Inbox, InboxTruth, ShotFor, ResultFor
  <2>2. ShipsHere(a)'
    BY <1>2 DEF ShipsHere
  <2>3. Live(b) => Pair(a)'
    BY <1>1, <1>7, <1>d, <1>13 DEF Pair
  <2> QED BY <1>1, <1>5, <1>12, <1>13, <1>d, <2>1, <2>2, <2>3 DEF CalmAt, Live
<1>15. CalmAt(b)'
  <2>1. Live(b) => Inbox(b)' /\ InboxTruth(b)'
    BY <1>1, <1>7 DEF Inbox, InboxTruth, ShotFor, ResultFor
  <2>2. status[b] \in Playing => ShipsHere(b)'
    BY <1>c, <1>2 DEF CalmAt, ShipsHere
  <2>3. Live(b) => Pair(b)'
    BY <1>0, <1>1, <1>3, <1>7, <1>8, <1>13 DEF Pair
  <2>4. ~Losing(b)'
    <3>1. ~Losing(b)
      BY <1>0, <1>1, <1>5, <1>c DEF CalmAt, Beaten
    <3> QED BY <3>1, <1>1 DEF Losing
  <2> QED BY <1>0, <1>1, <1>12, <1>13, <2>1, <2>2, <2>3, <2>4 DEF CalmAt, Live
<1> QED BY <1>0, <1>14, <1>15

\* The count of shots is a number.
LEMMA ShotsType ==
  ASSUME NEW p \in Peer
  PROVE  /\ Shots(p) \in Nat
         /\ IsFiniteSet({c \in Cell : opponent[p][c] # "WATER"})
         /\ Cardinality({c \in Cell : opponent[p][c] # "WATER"}) \in Nat
<1>1. IsFiniteSet({c \in Cell : opponent[p][c] # "WATER"})
  BY CellAssumption, FS_Subset
<1> QED BY <1>1, FS_CardinalityType DEF Shots

\* A datagram that one reads is none of the other's mail.
LEMMA OtherMail ==
  ASSUME TypeOK, NEW a \in Peer, NEW m \in net, m.to = a
  PROVE  /\ msg_ready(a) \in receive(m) <=> msg_ready(a) \in net
         /\ \A c \in Cell : msg_shot(a, c) \in receive(m) <=> msg_shot(a, c) \in net
         /\ \A h \in BOOLEAN : msg_result(a, h) \in receive(m) <=> msg_result(a, h) \in net
<1>1. m \in Datagram /\ other(a) # a
  BY Two DEF TypeOK
<1>2. msg_ready(a).to = other(a)
  BY DEF msg_ready
<1>3. \A c \in Cell : msg_shot(a, c).to = other(a)
  BY DEF msg_shot
<1>4. \A h \in BOOLEAN : msg_result(a, h).to = other(a)
  BY DEF msg_result
<1> QED BY <1>1, <1>2, <1>3, <1>4, Received

\* A shot goes to one who expects it, or will.
LEMMA FireCalm ==
  ASSUME TypeOK, Always, NEW a \in Peer, \A p \in Peer : CalmAt(p), shot_opponent_cell(a)
  PROVE  \A p \in Peer : CalmAt(p)'
<1> DEFINE b == other(a)
<1>0. b \in Peer /\ b # a /\ other(b) = a /\ \A p \in Peer : p # a => p = b
  BY Two
<1>c. CalmAt(a) /\ CalmAt(b)
  BY <1>0
<1>d. b = other(a)
  OBVIOUS
<1> HIDE DEF b
<1>1. PICK c \in Cell : /\ opponent[a][c] = "WATER" /\ fired' = [fired EXCEPT ![a] = c]
                        /\ net' = net \cup {msg_shot(a, c)}
  BY DEF shot_opponent_cell, open_square
<1>2. /\ status[a] = "MY_TURN" /\ status'[a] = "WAIT_RESULT" /\ status'[b] = status[b]
      /\ fired'[a] = c /\ fired'[b] = fired[b]
      /\ UNCHANGED <<my, opponent, ships, toServer, toClient, initiator>>
  BY <1>0, <1>1 DEF shot_opponent_cell, TypeOK
<1>3. SameMail(a)
  <2>1. \A e \in Cell : msg_shot(b, e) # msg_shot(a, c)
    BY <1>0, Distinct
  <2>2. msg_ready(b) # msg_shot(a, c)
    BY <1>0, Distinct
  <2>3. \A h \in BOOLEAN : msg_result(b, h) # msg_shot(a, c)
    BY <1>0, Distinct
  <2> QED BY <1>1, <1>d, <2>1, <2>2, <2>3 DEF SameMail
<1>4. /\ ReadyFor(b)' <=> ReadyFor(b)
      /\ \A h \in BOOLEAN : msg_result(a, h) \in net' <=> msg_result(a, h) \in net
      /\ ShotFor(b)'
      /\ \A e \in Cell : msg_shot(a, e) \in net' => e = c \/ msg_shot(a, e) \in net
  <2>1. msg_ready(a) # msg_shot(a, c)
    BY Distinct
  <2>2. \A h \in BOOLEAN : msg_result(a, h) # msg_shot(a, c)
    BY Distinct
  <2>3. \A e \in Cell : msg_shot(a, e) = msg_shot(a, c) => e = c
    BY Distinct
  <2> QED BY <1>0, <1>1, <2>1, <2>2, <2>3 DEF ReadyFor, ShotFor
<1>5. ResultFor(b)' <=> ResultFor(b)
  BY <1>0, <1>4 DEF ResultFor
<1>6. /\ Live(a) /\ status[a] \in Playing /\ Live(a)' /\ status'[a] \in Playing
      /\ ~Losing(a)' /\ (Live(b)' <=> Live(b)) /\ (Losing(b)' => Losing(b))
  <2>1. Live(a) /\ status[a] \in Playing /\ Live(a)' /\ status'[a] \in Playing
        /\ (Live(b)' <=> Live(b)) /\ (Losing(b)' => Losing(b)) /\ (Losing(a)' => Losing(a))
    BY <1>2 DEF Live, Playing, Losing
  <2> QED BY <2>1, NotLosing
<1>7. /\ ~ReadyFor(a) /\ ~ResultFor(a) /\ ~ShotFor(a) /\ Due(a) = "MY_TURN"
      /\ ~ReadyFor(a)' /\ ~ResultFor(a)' /\ ~ShotFor(a)' /\ Due(a)' = "WAIT_RESULT"
  <2>1. ~ReadyFor(a) /\ ~ResultFor(a) /\ ~ShotFor(a) /\ Due(a) = "MY_TURN"
    BY <1>2, <1>6, <1>c DEF CalmAt, Inbox, Due
  <2> QED BY <1>2, <1>3, <2>1, MailKept DEF Due
<1>8. Due(b)' = Due(b)
  BY <1>2, <1>4, <1>5 DEF Due, first_turn
<1>9. Live(b) => /\ status[b] \notin {"SETUP"} /\ status[b] \in Playing
                 /\ Due(b) = "OPPONENT_TURN" /\ ~ShotFor(b)
  <2> SUFFICES ASSUME Live(b) PROVE /\ status[b] # "SETUP" /\ status[b] \in Playing
                                    /\ Due(b) = "OPPONENT_TURN" /\ ~ShotFor(b)
    OBVIOUS
  <2>1. Pair(a) /\ Pair(b)
    BY <1>0, <1>6, <1>c, <1>d DEF CalmAt
  <2>2. status[b] # "SETUP"
    BY <1>0, <1>2, <2>1 DEF Pair
  <2>3. status[b] \in Playing
    BY <2>2, <1>0 DEF TypeOK, Live
  <2>4. TurnOf(a) \/ TurnOf(b)
    BY <1>2, <1>d, <2>1, <2>2 DEF Pair
  <2> QED BY <1>0, <1>d, <1>7, <2>2, <2>3, <2>4 DEF TurnOf
<1>10. Live(b) => TurnOf(a)'
  BY <1>d, <1>4, <1>7, <1>8, <1>9 DEF TurnOf
<1>11. /\ Shots(a)' = Shots(a) + 1 /\ Shots(b)' = Shots(b)
       /\ Shots(a) \in Nat /\ Shots(b) \in Nat
  <2>1. Shots(a) \in Nat /\ Shots(b) \in Nat
    BY <1>0, ShotsType
  <2>2. Cardinality({e \in Cell : opponent[a][e] # "WATER"}) \in Nat
    BY ShotsType
  <2> QED BY <1>2, <2>1, <2>2 DEF Shots
<1>12. status[b] \in Playing => Live(b)
  BY DEF Live, Playing
<1>13. CalmAt(a)'
  <2>1. Inbox(a)' /\ InboxTruth(a)'
    BY <1>2, <1>7 DEF Inbox, InboxTruth, ShotFor, ResultFor
  <2>2. ShipsHere(a)'
    BY <1>2, <1>6, <1>c DEF CalmAt, ShipsHere
  <2>3. Live(b) => Pair(a)'
    BY <1>2, <1>d, <1>10 DEF Pair
  <2>4. status[b] \in Playing => Records(a)' /\ Count(a)'
    <3> SUFFICES ASSUME status[b] \in Playing PROVE Records(a)' /\ Count(a)'
      OBVIOUS
    <3>1. Records(a) /\ Count(a) /\ Live(b)
      BY <1>6, <1>12, <1>c, <1>d DEF CalmAt
    <3>2. Records(a)'
      BY <1>2, <1>7, <3>1 DEF Records
    <3>3. Count(a)'
      BY <1>2, <1>7, <1>8, <1>9, <1>11, <1>d, <3>1 DEF Count
    <3> QED BY <3>2, <3>3
  <2> QED BY <1>2, <1>6, <1>d, <2>1, <2>2, <2>3, <2>4 DEF CalmAt
<1>14. CalmAt(b)'
  <2>1. Live(b) => Inbox(b)' /\ InboxTruth(b)'
    <3> SUFFICES ASSUME Live(b) PROVE Inbox(b)' /\ InboxTruth(b)'
      OBVIOUS
    <3>1. Inbox(b) /\ InboxTruth(b)
      BY <1>c DEF CalmAt
    <3>2. Inbox(b)'
      BY <1>2, <1>4, <1>5, <1>8, <1>9, <3>1 DEF Inbox
    <3>3. my[b][c] \in {"WATER", "SHIP"}
      <4>1. Records(a)
        BY <1>6, <1>9, <1>c, <1>d DEF CalmAt
      <4> QED BY <4>1, <1>1, <1>7, <1>d DEF Records
    <3>4. \A e \in Cell : msg_shot(a, e) \in net' => e = c
      BY <1>0, <1>4, <1>9 DEF ShotFor
    <3>5. InboxTruth(b)'
      BY <1>0, <1>2, <1>4, <3>1, <3>3, <3>4 DEF InboxTruth
    <3> QED BY <3>2, <3>5
  <2>2. status[b] \in Playing => ShipsHere(b)'
    BY <1>2, <1>c DEF CalmAt, ShipsHere
  <2>3. Live(b) => Pair(b)'
    <3> SUFFICES ASSUME Live(b) PROVE Pair(b)'
      OBVIOUS
    <3>1. Pair(b)
      BY <1>0, <1>6, <1>c DEF CalmAt
    <3> QED BY <1>0, <1>2, <1>4, <1>9, <1>10, <3>1 DEF Pair
  <2>4. status[b] \in Playing => Records(b)' /\ Count(b)'
    <3> SUFFICES ASSUME status[b] \in Playing PROVE Records(b)' /\ Count(b)'
      OBVIOUS
    <3>1. Records(b) /\ Count(b) /\ Live(b)
      BY <1>0, <1>6, <1>12, <1>c DEF CalmAt
    <3>2. Records(b)'
      BY <1>0, <1>2, <1>5, <3>1 DEF Records
    <3>3. Count(b)'
      BY <1>0, <1>2, <1>7, <1>8, <1>9, <1>11, <3>1 DEF Count
    <3> QED BY <3>2, <3>3
  <2>5. ~Losing(b)'
    BY <1>0, <1>2, <1>6, <1>c DEF CalmAt, Beaten
  <2> QED BY <1>0, <1>2, <1>6, <2>1, <2>2, <2>3, <2>4, <2>5 DEF CalmAt
<1> QED BY <1>0, <1>13, <1>14

\* READY reaches one who waits.
LEMMA ReadyCalm ==
  ASSUME TypeOK, Always, NEW a \in Peer, \A p \in Peer : CalmAt(p),
         NEW m \in net, m.to = a, m.stale = FALSE, process_msg_ready(a, m),
         UNCHANGED <<initiator, toClient>>
  PROVE  \A p \in Peer : CalmAt(p)'
<1> DEFINE b == other(a)
<1>0. b \in Peer /\ b # a /\ other(b) = a /\ \A p \in Peer : p # a => p = b
  BY Two
<1>c. CalmAt(a) /\ CalmAt(b)
  BY <1>0
<1>d. b = other(a)
  OBVIOUS
<1>m. m \in Datagram
  BY DEF TypeOK
<1>f. m = msg_ready(b)
  BY <1>m, Fresh DEF process_msg_ready
<1> HIDE DEF b
<1>1. /\ status[a] = "WAITING" /\ status'[a] = first_turn(a) /\ status'[b] = status[b]
      /\ first_turn(a) \in {"MY_TURN", "OPPONENT_TURN"}
      /\ UNCHANGED <<my, opponent, fired, ships, toServer, toClient, initiator>>
  BY <1>0 DEF process_msg_ready, first_turn, boards, TypeOK
<1>2. SameMail(b)
  BY <1>0, OtherMail DEF process_msg_ready, SameMail
<1>3. /\ ReadyFor(a) /\ ~ReadyFor(a)'
      /\ \A c \in Cell : msg_shot(b, c) \in net' <=> msg_shot(b, c) \in net
      /\ \A h \in BOOLEAN : msg_result(b, h) \in net' <=> msg_result(b, h) \in net
  <2>1. \A c \in Cell : msg_shot(b, c) # m
    BY <1>0, <1>f, Distinct
  <2>2. \A h \in BOOLEAN : msg_result(b, h) # m
    BY <1>0, <1>f, Distinct
  <2>3. net' = receive(m)
    BY DEF process_msg_ready
  <2>4. msg_ready(b) \notin net'
    BY <1>0, <1>m, <1>f, <2>3, Received
  <2>5. /\ \A c \in Cell : msg_shot(b, c) \in net' <=> msg_shot(b, c) \in net
        /\ \A h \in BOOLEAN : msg_result(b, h) \in net' <=> msg_result(b, h) \in net
    BY <1>0, <1>m, <2>1, <2>2, <2>3, Received
  <2> QED BY <1>d, <1>f, <2>4, <2>5 DEF ReadyFor
<1>4. (ShotFor(a)' <=> ShotFor(a)) /\ (ResultFor(a)' <=> ResultFor(a))
  BY <1>d, <1>3 DEF ShotFor, ResultFor
<1>5. Due(a) = first_turn(a) /\ Due(a)' = Due(a) /\ Due(b)' = Due(b)
  <2>1. Due(b)' = Due(b)
    BY <1>0, <1>1, <1>2, InboxKept
  <2> QED BY <1>1, <1>3, <2>1 DEF Due
<1>6. /\ ReadyFor(b)' <=> ReadyFor(b)
      /\ ShotFor(b)' <=> ShotFor(b)
      /\ ResultFor(b)' <=> ResultFor(b)
  BY <1>0, <1>2, MailKept
<1>7. /\ Live(a) /\ status[a] \in Playing /\ Live(a)' /\ status'[a] \in Playing
      /\ (Live(b)' <=> Live(b)) /\ (Losing(b)' => Losing(b)) /\ ~Losing(a)'
      /\ (status[b] \in Playing => Live(b))
  <2>1. Live(a) /\ status[a] \in Playing /\ Live(a)' /\ status'[a] \in Playing
        /\ (Live(b)' <=> Live(b)) /\ (Losing(b)' => Losing(b)) /\ (Losing(a)' => Losing(a))
        /\ (status[b] \in Playing => Live(b))
    BY <1>1 DEF Live, Playing, Losing
  <2> QED BY <2>1, NotLosing
<1>8. ~ResultFor(a)
  BY <1>1, <1>7, <1>c DEF CalmAt, Inbox
<1>9. Live(b) => status[b] # "SETUP" /\ (TurnOf(a)' \/ TurnOf(b)') /\ Pair(b)
  <2> SUFFICES ASSUME Live(b) PROVE status[b] # "SETUP" /\ (TurnOf(a)' \/ TurnOf(b)') /\ Pair(b)
    OBVIOUS
  <2>1. Pair(a) /\ Pair(b)
    BY <1>0, <1>7, <1>c, <1>d DEF CalmAt
  <2>2. status[b] # "SETUP"
    BY <1>0, <1>3, <2>1 DEF Pair
  <2>3. TurnOf(a) \/ TurnOf(b)
    BY <1>1, <1>d, <2>1, <2>2 DEF Pair
  <2> QED BY <1>0, <1>d, <1>4, <1>5, <1>6, <2>1, <2>2, <2>3 DEF TurnOf
<1>10. Shots(a)' = Shots(a) /\ Shots(b)' = Shots(b)
  BY <1>1 DEF Shots
<1>11. CalmAt(a)'
  <2>1. Inbox(a)' /\ InboxTruth(a)'
    <3>1. Inbox(a) /\ InboxTruth(a)
      BY <1>7, <1>c DEF CalmAt
    <3>2. Inbox(a)'
      BY <1>3, <1>4, <1>5, <1>8, <3>1 DEF Inbox
    <3>3. InboxTruth(a)'
      BY <1>1, <1>3, <1>d, <3>1 DEF InboxTruth
    <3> QED BY <3>2, <3>3
  <2>2. ShipsHere(a)'
    BY <1>1, <1>7, <1>c DEF CalmAt, ShipsHere
  <2>3. Live(b) => Pair(a)'
    BY <1>1, <1>9, <1>d DEF Pair
  <2>4. status[b] \in Playing => Records(a)' /\ Count(a)'
    BY <1>1, <1>4, <1>5, <1>7, <1>10, <1>c, <1>d DEF CalmAt, Records, Count
  <2> QED BY <1>1, <1>7, <1>d, <2>1, <2>2, <2>3, <2>4 DEF CalmAt
<1>12. CalmAt(b)'
  <2>1. Live(b) => Inbox(b)' /\ InboxTruth(b)'
    BY <1>0, <1>1, <1>2, <1>c, InboxKept, TruthKept DEF CalmAt
  <2>2. status[b] \in Playing => ShipsHere(b)'
    BY <1>1, <1>c DEF CalmAt, ShipsHere
  <2>3. Live(b) => Pair(b)'
    BY <1>0, <1>1, <1>6, <1>9 DEF Pair
  <2>4. status[b] \in Playing => Records(b)' /\ Count(b)'
    BY <1>0, <1>1, <1>5, <1>6, <1>7, <1>10, <1>c DEF CalmAt, Records, Count
  <2>5. ~Losing(b)'
    BY <1>0, <1>1, <1>7, <1>c DEF CalmAt, Beaten
  <2> QED BY <1>0, <1>1, <1>7, <2>1, <2>2, <2>3, <2>4, <2>5 DEF CalmAt
<1> QED BY <1>0, <1>11, <1>12

\* The result reaches one who waits for it.
LEMMA ResultCalm ==
  ASSUME TypeOK, Always, NEW a \in Peer, \A p \in Peer : CalmAt(p),
         NEW m \in net, m.to = a, m.stale = FALSE, process_msg_result(a, m),
         UNCHANGED <<initiator, toClient>>
  PROVE  \A p \in Peer : CalmAt(p)'
<1> DEFINE b == other(a)
<1>0. b \in Peer /\ b # a /\ other(b) = a /\ \A p \in Peer : p # a => p = b
  BY Two
<1>c. CalmAt(a) /\ CalmAt(b)
  BY <1>0
<1>d. b = other(a)
  OBVIOUS
<1>m. m \in Datagram
  BY DEF TypeOK
<1> DEFINE c == fired[a]
           h == m.hit
<1>f. m = msg_result(b, h) /\ h \in BOOLEAN
  BY <1>m, Fresh, Fields DEF process_msg_result
<1> HIDE DEF b, h
<1>1. /\ status[a] = "WAIT_RESULT" /\ status'[a] = "OPPONENT_TURN" /\ status'[b] = status[b]
      /\ c \in Cell /\ opponent'[b] = opponent[b]
      /\ UNCHANGED <<my, fired, ships, toServer, toClient, initiator>>
  BY <1>0 DEF process_msg_result, mark, TypeOK
<1>o. /\ opponent'[a][c] = IF h THEN "SUNK" ELSE "MISS"
      /\ \A e \in Cell : e # c => opponent'[a][e] = opponent[a][e]
  BY <1>1 DEF process_msg_result, mark, TypeOK, h
<1>2. SameMail(b)
  BY <1>0, OtherMail DEF process_msg_result, SameMail
<1>7. /\ Live(a) /\ status[a] \in Playing /\ Live(a)' /\ status'[a] \in Playing
      /\ (Live(b)' <=> Live(b)) /\ (Losing(b)' => Losing(b)) /\ ~Losing(a)'
      /\ (status[b] \in Playing => Live(b))
  <2>1. Live(a) /\ status[a] \in Playing /\ Live(a)' /\ status'[a] \in Playing
        /\ (Live(b)' <=> Live(b)) /\ (Losing(b)' => Losing(b)) /\ (Losing(a)' => Losing(a))
        /\ (status[b] \in Playing => Live(b))
    BY <1>1 DEF Live, Playing, Losing
  <2> QED BY <2>1, NotLosing
<1>t. my[b][c] = IF h THEN "SUNK" ELSE "MISS"
  BY <1>7, <1>c, <1>d, <1>f DEF CalmAt, InboxTruth
<1>3. /\ ReadyFor(a)' <=> ReadyFor(a)
      /\ ResultFor(a) /\ ~ResultFor(a)'
      /\ \A e \in Cell : msg_shot(b, e) \in net' <=> msg_shot(b, e) \in net
  <2>1. \A e \in Cell : msg_shot(b, e) # m
    BY <1>0, <1>f, Distinct
  <2>2. msg_ready(b) # m
    BY <1>0, <1>f, Distinct
  <2>3. net' = receive(m)
    BY DEF process_msg_result
  <2>4. ASSUME NEW g \in BOOLEAN PROVE msg_result(b, g) \notin net'
    <3>1. CASE g = h
      BY <1>0, <1>m, <1>f, <2>3, <3>1, Received
    <3>2. CASE g # h
      <4>1. msg_result(b, g) \notin net
        BY <1>7, <1>c, <1>d, <1>f, <1>t, <3>2 DEF CalmAt, InboxTruth
      <4> QED BY <1>0, <1>m, <2>3, <4>1, Received
    <3> QED BY <3>1, <3>2
  <2>5. /\ \A e \in Cell : msg_shot(b, e) \in net' <=> msg_shot(b, e) \in net
        /\ msg_ready(b) \in net' <=> msg_ready(b) \in net
    BY <1>0, <1>m, <2>1, <2>2, <2>3, Received
  <2> QED BY <1>d, <1>f, <2>4, <2>5 DEF ReadyFor, ResultFor
<1>4. ShotFor(a)' <=> ShotFor(a)
  BY <1>d, <1>3 DEF ShotFor
<1>5. Due(a) = "OPPONENT_TURN" /\ Due(a)' = Due(a) /\ Due(b)' = Due(b)
  <2>1. Due(b)' = Due(b)
    BY <1>0, <1>1, <1>2, InboxKept
  <2> QED BY <1>1, <1>3, <2>1 DEF Due
<1>6. /\ ReadyFor(b)' <=> ReadyFor(b)
      /\ ShotFor(b)' <=> ShotFor(b)
      /\ ResultFor(b)' <=> ResultFor(b)
  BY <1>0, <1>2, MailKept
<1>9. Live(b) => status[b] # "SETUP" /\ (TurnOf(a)' \/ TurnOf(b)') /\ Pair(b)
  <2> SUFFICES ASSUME Live(b) PROVE status[b] # "SETUP" /\ (TurnOf(a)' \/ TurnOf(b)') /\ Pair(b)
    OBVIOUS
  <2>1. Pair(a) /\ Pair(b)
    BY <1>0, <1>7, <1>c, <1>d DEF CalmAt
  <2>2. status[b] # "SETUP"
    BY <1>0, <1>1, <2>1 DEF Pair
  <2>3. TurnOf(a) \/ TurnOf(b)
    BY <1>1, <1>d, <2>1, <2>2 DEF Pair
  <2> QED BY <1>0, <1>d, <1>4, <1>5, <1>6, <2>1, <2>2, <2>3 DEF TurnOf
<1>10. Shots(a)' = Shots(a) /\ Shots(b)' = Shots(b)
  <2> DEFINE shot == {e \in Cell : opponent[a][e] # "WATER"}
             now == {e \in Cell : opponent'[a][e] # "WATER"}
  <2>1. opponent[a][c] = "WATER"
    BY <1>1 DEF Always, TablesOf
  <2>2. now = shot \cup {c} /\ c \notin shot
    BY <1>1, <1>o, <2>1
  <2>3. Cardinality(shot \cup {c}) = Cardinality(shot) + 1 /\ Cardinality(shot) \in Nat
    BY <2>2, ShotsType, FS_AddElement
  <2>4. Shots(a) = Cardinality(shot) + 1
    BY <1>1 DEF Shots
  <2>5. Shots(a)' = Cardinality(shot) + 1
    <3>1. Shots(a)' = Cardinality(now) + 0
      BY <1>1 DEF Shots
    <3> HIDE DEF shot, now
    <3> QED BY <2>2, <2>3, <3>1
  <2> QED BY <1>1, <2>4, <2>5 DEF Shots
<1>11. CalmAt(a)'
  <2>1. Inbox(a)' /\ InboxTruth(a)'
    <3>1. Inbox(a) /\ InboxTruth(a)
      BY <1>7, <1>c DEF CalmAt
    <3>2. Inbox(a)'
      BY <1>1, <1>3, <1>4, <1>5, <3>1 DEF Inbox
    <3>3. InboxTruth(a)'
      BY <1>1, <1>3, <1>d, <3>1 DEF InboxTruth, ResultFor
    <3> QED BY <3>2, <3>3
  <2>2. ShipsHere(a)'
    BY <1>1, <1>7, <1>c DEF CalmAt, ShipsHere
  <2>3. Live(b) => Pair(a)'
    BY <1>1, <1>9, <1>d DEF Pair
  <2>4. status[b] \in Playing => Records(a)' /\ Count(a)'
    <3> SUFFICES ASSUME status[b] \in Playing PROVE Records(a)' /\ Count(a)'
      OBVIOUS
    <3>1. Records(a) /\ Count(a)
      BY <1>7, <1>c, <1>d DEF CalmAt
    <3>2. Records(a)'
      BY <1>1, <1>d, <1>o, <1>t, <3>1 DEF Records
    <3>3. Count(a)'
      BY <1>1, <1>5, <1>10, <1>d, <3>1 DEF Count
    <3> QED BY <3>2, <3>3
  <2> QED BY <1>1, <1>7, <1>d, <2>1, <2>2, <2>3, <2>4 DEF CalmAt
<1>12. CalmAt(b)'
  <2>1. Live(b) => Inbox(b)' /\ InboxTruth(b)'
    BY <1>0, <1>1, <1>2, <1>c, InboxKept, TruthKept DEF CalmAt
  <2>2. status[b] \in Playing => ShipsHere(b)'
    BY <1>1, <1>c DEF CalmAt, ShipsHere
  <2>3. Live(b) => Pair(b)'
    BY <1>0, <1>1, <1>6, <1>9 DEF Pair
  <2>4. status[b] \in Playing => Records(b)' /\ Count(b)'
    BY <1>0, <1>1, <1>5, <1>6, <1>7, <1>10, <1>c DEF CalmAt, Records, Count
  <2>5. ~Losing(b)'
    BY <1>0, <1>3, <1>7, <1>c DEF CalmAt, Beaten
  <2> QED BY <1>0, <1>1, <1>7, <2>1, <2>2, <2>3, <2>4, <2>5 DEF CalmAt
<1> QED BY <1>0, <1>11, <1>12

\* What is true when a reads the fresh shot m.
ShotFacts(a, m) ==
  LET b == other(a) IN
  /\ m.cell \in Cell /\ m.cell = fired[b] /\ m = msg_shot(b, m.cell)
  /\ my[a][m.cell] \in {"WATER", "SHIP"}
  /\ my'[b] = my[b]
  /\ my'[a][m.cell] = IF my[a][m.cell] = "SHIP" THEN "SUNK" ELSE "MISS"
  /\ \A e \in Cell : e # m.cell => my'[a][e] = my[a][e]
  /\ ~ReadyFor(a) /\ ~ResultFor(a) /\ ShotFor(a)
  /\ ShipsHere(a) /\ {e \in Cell : my'[a][e] \in {"SHIP", "SUNK"}} = ships[a]
  /\ Live(b) => /\ status[b] = "WAIT_RESULT"
                /\ ~ReadyFor(b) /\ ~ResultFor(b) /\ ~ShotFor(b)
                /\ opponent[b][m.cell] = "WATER"

\* They follow from the invariant.
LEMMA ShotRead ==
  ASSUME TypeOK, Always, NEW a \in Peer, \A p \in Peer : CalmAt(p),
         NEW m \in net, m.to = a, m.stale = FALSE, process_msg_shot(a, m)
  PROVE  ShotFacts(a, m)
<1> DEFINE b == other(a)
<1>0. b \in Peer /\ b # a /\ other(b) = a /\ \A p \in Peer : p # a => p = b
  BY Two
<1>c. CalmAt(a) /\ CalmAt(b)
  BY <1>0
<1>d. b = other(a)
  OBVIOUS
<1>m. m \in Datagram
  BY DEF TypeOK
<1> DEFINE c == m.cell
<1>1. c \in Cell /\ status[a] = "OPPONENT_TURN" /\ m = msg_shot(b, c)
  BY <1>m, Fields, Fresh DEF process_msg_shot
<1> HIDE DEF b, c
<1>2. Live(a) /\ status[a] \in Playing
  BY <1>1 DEF Live, Playing
<1>3. Inbox(a) /\ InboxTruth(a) /\ ShipsHere(a)
  BY <1>2, <1>c DEF CalmAt
<1>4. c = fired[b] /\ my[a][c] \in {"WATER", "SHIP"} /\ ShotFor(a)
  BY <1>1, <1>3, <1>d DEF InboxTruth, ShotFor
<1>5. /\ my'[b] = my[b]
      /\ my'[a][c] = IF my[a][c] = "SHIP" THEN "SUNK" ELSE "MISS"
      /\ \A e \in Cell : e # c => my'[a][e] = my[a][e]
  BY <1>0, <1>1 DEF process_msg_shot, TypeOK, c
<1>6. ~ReadyFor(a) /\ ~ResultFor(a) /\ Due(a) = "OPPONENT_TURN"
  BY <1>1, <1>3 DEF Inbox, Due
<1>7. {e \in Cell : my'[a][e] \in {"SHIP", "SUNK"}} = ships[a]
  BY <1>1, <1>3, <1>4, <1>5 DEF ShipsHere
<1>8. ASSUME Live(b)
      PROVE  /\ status[b] = "WAIT_RESULT"
             /\ ~ReadyFor(b) /\ ~ResultFor(b) /\ ~ShotFor(b)
             /\ opponent[b][c] = "WATER"
  <2>1. Pair(a) /\ Pair(b) /\ Inbox(b)
    BY <1>0, <1>2, <1>8, <1>c, <1>d DEF CalmAt
  <2>2. status[b] # "SETUP"
    BY <1>0, <1>1, <2>1 DEF Pair
  <2>3. TurnOf(a) \/ TurnOf(b)
    BY <1>1, <1>d, <2>1, <2>2 DEF Pair
  <2>4. Due(b) = "WAIT_RESULT"
    BY <1>0, <1>4, <1>6, <1>d, <2>3 DEF TurnOf
  <2>5. status[b] = "WAIT_RESULT" /\ ~ResultFor(b)
    BY <2>4 DEF Due, first_turn
  <2>6. ~ShotFor(b) /\ ~ReadyFor(b)
    BY <2>1, <2>4, <2>5 DEF Inbox
  <2>7. opponent[b][c] = "WATER"
    BY <1>0, <1>4, <2>5 DEF Always, TablesOf
  <2> QED BY <2>5, <2>6, <2>7
<1> QED BY <1>1, <1>3, <1>4, <1>5, <1>6, <1>7, <1>8 DEF ShotFacts, b, c

\* A shot that does not end the game is answered, and it is the other's turn.
LEMMA ShotCalm ==
  ASSUME TypeOK, Always, NEW a \in Peer, \A p \in Peer : CalmAt(p),
         NEW m \in net, m.to = a, m.stale = FALSE, process_msg_shot(a, m),
         status' = [status EXCEPT ![a] = "MY_TURN"],
         net' = receive(m) \cup {msg_result(a, my[a][m.cell] = "SHIP")},
         UNCHANGED <<initiator, toClient, toServer>>
  PROVE  \A p \in Peer : CalmAt(p)'
<1> DEFINE b == other(a)
<1>0. b \in Peer /\ b # a /\ other(b) = a /\ \A p \in Peer : p # a => p = b
  BY Two
<1>c. CalmAt(a) /\ CalmAt(b)
  BY <1>0
<1>d. b = other(a)
  OBVIOUS
<1>m. m \in Datagram
  BY DEF TypeOK
<1> DEFINE c == m.cell
           hit == my[a][c] = "SHIP"
<1>q. ShotFacts(a, m)
  BY ShotRead
<1>r. /\ c \in Cell /\ c = fired[b] /\ m = msg_shot(b, c)
      /\ my[a][c] \in {"WATER", "SHIP"}
      /\ my'[b] = my[b]
      /\ my'[a][c] = IF my[a][c] = "SHIP" THEN "SUNK" ELSE "MISS"
      /\ \A e \in Cell : e # c => my'[a][e] = my[a][e]
      /\ ~ReadyFor(a) /\ ~ResultFor(a) /\ ShotFor(a)
      /\ {e \in Cell : my'[a][e] \in {"SHIP", "SUNK"}} = ships[a]
  BY <1>q DEF ShotFacts
<1>s. Live(b) => /\ status[b] = "WAIT_RESULT"
                 /\ ~ReadyFor(b) /\ ~ResultFor(b) /\ ~ShotFor(b)
                 /\ opponent[b][c] = "WATER"
  BY <1>q DEF ShotFacts
<1>h. hit \in BOOLEAN /\ my'[a][c] = IF hit THEN "SUNK" ELSE "MISS"
  BY <1>r
<1>n. net' = receive(m) \cup {msg_result(a, hit)}
  OBVIOUS
<1> HIDE DEF b, c, hit
<1>1. /\ status[a] = "OPPONENT_TURN" /\ status'[a] = "MY_TURN" /\ status'[b] = status[b]
      /\ UNCHANGED <<opponent, fired, ships, toServer, toClient, initiator>>
  BY <1>0 DEF process_msg_shot, TypeOK
<1>2. /\ Live(a) /\ status[a] \in Playing /\ Live(a)' /\ status'[a] \in Playing
      /\ (Live(b)' <=> Live(b)) /\ (Losing(b)' => Losing(b)) /\ ~Losing(a)'
      /\ (status[b] \in Playing <=> Live(b))
  <2>1. Live(a) /\ status[a] \in Playing /\ Live(a)' /\ status'[a] \in Playing
        /\ (Live(b)' <=> Live(b)) /\ (Losing(b)' => Losing(b)) /\ (Losing(a)' => Losing(a))
        /\ (status[b] \in Playing <=> Live(b))
    BY <1>1, <1>s DEF Live, Playing, Losing
  <2> QED BY <2>1, NotLosing
<1>3. ~ReadyFor(a)' /\ ~ResultFor(a)' /\ ~ShotFor(a)'
  <2>1. msg_ready(b) \notin net'
    <3>1. msg_ready(b) \notin receive(m)
      BY <1>0, <1>d, <1>m, <1>r, Received DEF ReadyFor
    <3>2. msg_ready(b) # msg_result(a, hit)
      BY <1>0, <1>h, Distinct
    <3> QED BY <1>n, <3>1, <3>2
  <2>2. ASSUME NEW g \in BOOLEAN PROVE msg_result(b, g) \notin net'
    <3>1. msg_result(b, g) \notin receive(m)
      BY <1>0, <1>d, <1>m, <1>r, Received DEF ResultFor
    <3>2. msg_result(b, g) # msg_result(a, hit)
      BY <1>0, <1>h, Distinct
    <3> QED BY <1>n, <3>1, <3>2
  <2>3. ASSUME NEW e \in Cell PROVE msg_shot(b, e) \notin net'
    <3>1. msg_shot(b, e) \notin receive(m)
      <4>1. CASE e = c
        BY <1>0, <1>m, <1>r, <4>1, Received
      <4>2. CASE e # c
        <5>1. InboxTruth(a)
          BY <1>2, <1>c DEF CalmAt
        <5>2. msg_shot(b, e) \notin net
          BY <1>d, <1>r, <4>2, <5>1 DEF InboxTruth
        <5> QED BY <1>0, <1>m, <5>2, Received
      <4> QED BY <4>1, <4>2
    <3>2. msg_shot(b, e) # msg_result(a, hit)
      BY <1>0, <1>h, Distinct
    <3> QED BY <1>n, <3>1, <3>2
  <2> QED BY <1>d, <2>1, <2>2, <2>3 DEF ReadyFor, ResultFor, ShotFor
<1>4. /\ msg_ready(a) \in net' <=> msg_ready(a) \in net
      /\ \A e \in Cell : msg_shot(a, e) \in net' <=> msg_shot(a, e) \in net
      /\ msg_result(a, hit) \in net'
      /\ \A g \in BOOLEAN : msg_result(a, g) \in net' => g = hit \/ msg_result(a, g) \in net
  <2>1. msg_ready(a) # msg_result(a, hit)
    BY <1>h, Distinct
  <2>2. \A e \in Cell : msg_shot(a, e) # msg_result(a, hit)
    BY <1>h, Distinct
  <2>3. \A g \in BOOLEAN : msg_result(a, g) = msg_result(a, hit) => g = hit
    BY <1>h, Distinct
  <2> QED BY <1>n, <2>1, <2>2, <2>3, OtherMail
<1>5. /\ ReadyFor(b)' <=> ReadyFor(b)
      /\ ShotFor(b)' <=> ShotFor(b)
      /\ ResultFor(b)'
  BY <1>0, <1>4, <1>h DEF ReadyFor, ShotFor, ResultFor
<1>6. Due(a) = "OPPONENT_TURN" /\ Due(a)' = "MY_TURN"
  BY <1>1 DEF Due
<1>7. Live(b) => Due(b) = "WAIT_RESULT" /\ Due(b)' = "OPPONENT_TURN"
  BY <1>1, <1>5, <1>s DEF Due
<1>8. Live(b) => TurnOf(a)'
  BY <1>d, <1>5, <1>6, <1>7, <1>s DEF TurnOf
<1>9. Shots(a)' = Shots(a) /\ Shots(b)' = Shots(b)
  BY <1>1 DEF Shots
<1>10. CalmAt(a)'
  <2>1. Inbox(a)' /\ InboxTruth(a)'
    BY <1>3 DEF Inbox, InboxTruth, ShotFor, ResultFor
  <2>2. ShipsHere(a)'
    BY <1>1, <1>r DEF ShipsHere
  <2>3. Live(b) => Pair(a)'
    BY <1>1, <1>8, <1>d DEF Pair
  <2>4. status[b] \in Playing => Records(a)' /\ Count(a)'
    <3> SUFFICES ASSUME status[b] \in Playing PROVE Records(a)' /\ Count(a)'
      OBVIOUS
    <3>1. Records(a) /\ Count(a) /\ Live(b)
      BY <1>2, <1>c, <1>d DEF CalmAt
    <3>2. Records(a)'
      BY <1>1, <1>3, <1>d, <1>r, <3>1 DEF Records
    <3>3. Count(a)'
      BY <1>1, <1>6, <1>7, <1>9, <1>d, <3>1 DEF Count
    <3> QED BY <3>2, <3>3
  <2> QED BY <1>1, <1>2, <1>d, <2>1, <2>2, <2>3, <2>4 DEF CalmAt
<1>11. CalmAt(b)'
  <2>1. Live(b) => Inbox(b)' /\ InboxTruth(b)'
    <3> SUFFICES ASSUME Live(b) PROVE Inbox(b)' /\ InboxTruth(b)'
      OBVIOUS
    <3>1. Inbox(b)'
      BY <1>1, <1>5, <1>s DEF Inbox
    <3>2. \A g \in BOOLEAN : msg_result(a, g) \in net' => g = hit
      BY <1>0, <1>4, <1>s DEF ResultFor
    <3>3. \A e \in Cell : msg_shot(a, e) \notin net'
      BY <1>0, <1>4, <1>s DEF ShotFor
    <3>4. InboxTruth(b)'
      BY <1>0, <1>1, <1>h, <1>r, <3>2, <3>3 DEF InboxTruth
    <3> QED BY <3>1, <3>4
  <2>2. status[b] \in Playing => ShipsHere(b)'
    BY <1>1, <1>r, <1>c DEF CalmAt, ShipsHere
  <2>3. Live(b) => Pair(b)'
    BY <1>0, <1>1, <1>8, <1>s DEF Pair
  <2>4. status[b] \in Playing => Records(b)' /\ Count(b)'
    <3> SUFFICES ASSUME status[b] \in Playing PROVE Records(b)' /\ Count(b)'
      OBVIOUS
    <3>1. Records(b) /\ Count(b) /\ Live(b)
      BY <1>0, <1>2, <1>c DEF CalmAt
    <3>2. Records(b)'
      BY <1>0, <1>1, <1>5, <1>r, <1>s, <3>1 DEF Records
    <3>3. Count(b)'
      BY <1>0, <1>1, <1>6, <1>7, <1>9, <3>1 DEF Count
    <3> QED BY <3>2, <3>3
  <2>5. ~Losing(b)'
    BY <1>0, <1>1, <1>2, <1>c DEF CalmAt, Beaten
  <2> QED BY <1>0, <1>1, <1>2, <2>1, <2>2, <2>3, <2>4, <2>5 DEF CalmAt
<1> QED BY <1>0, <1>10, <1>11

\* The shot that sinks the last ship has no answer: its sender has a record of all
\* the others.
LEMMA LossCalm ==
  ASSUME TypeOK, Always, NEW a \in Peer, \A p \in Peer : CalmAt(p),
         NEW m \in net, m.to = a, m.stale = FALSE, process_msg_shot(a, m),
         status' = [status EXCEPT ![a] = "DISCONNECTED"], net' = receive(m),
         my[a][m.cell] = "SHIP", game_lost(my'[a]),
         toServer' = [toServer EXCEPT ![a] = <<"lost">>],
         UNCHANGED <<initiator, toClient>>
  PROVE  \A p \in Peer : CalmAt(p)'
<1> DEFINE b == other(a)
<1>0. b \in Peer /\ b # a /\ other(b) = a /\ \A p \in Peer : p # a => p = b
  BY Two
<1>c. CalmAt(a) /\ CalmAt(b)
  BY <1>0
<1>d. b = other(a)
  OBVIOUS
<1>m. m \in Datagram
  BY DEF TypeOK
<1> DEFINE c == m.cell
<1>q. ShotFacts(a, m)
  BY ShotRead
<1>r. /\ c \in Cell /\ c = fired[b] /\ my'[b] = my[b]
      /\ my[a][c] = "SHIP" /\ my'[a][c] = "SUNK"
      /\ \A e \in Cell : e # c => my'[a][e] = my[a][e]
      /\ {e \in Cell : my'[a][e] \in {"SHIP", "SUNK"}} = ships[a]
  BY <1>q DEF ShotFacts
<1>s. Live(b) => /\ status[b] = "WAIT_RESULT" /\ ~ResultFor(b)
                 /\ opponent[b][c] = "WATER"
  BY <1>q DEF ShotFacts
<1>1. /\ status[a] = "OPPONENT_TURN" /\ status'[a] = "DISCONNECTED" /\ status'[b] = status[b]
      /\ UNCHANGED <<opponent, fired, ships, toClient, initiator>>
      /\ toServer'[b] = toServer[b]
  BY <1>0 DEF process_msg_shot, TypeOK
<1>2. SameMail(b)
  BY <1>0, OtherMail DEF SameMail
<1> HIDE DEF b, c
<1>3. Live(a) /\ ~Live(a)' /\ (Live(b)' <=> Live(b)) /\ status[a] \in Playing /\ status'[a] \notin Playing
  BY <1>1 DEF Live, Playing
<1>4. Live(b) => Beaten(a)'
  <2> SUFFICES ASSUME Live(b) PROVE Beaten(a)'
    OBVIOUS
  <2>1. status'[b] = "WAIT_RESULT" /\ ~ResultFor(b)'
    BY <1>0, <1>1, <1>2, <1>s, MailKept
  <2>2. Records(b)
    BY <1>0, <1>3, <1>s, <1>c DEF CalmAt, Playing
  <2>3. \A e \in Cell : my'[a][e] # "SHIP"
    BY DEF game_lost
  <2>4. \A e \in Cell : e # c => (my[a][e] = "SUNK" <=> opponent[b][e] = "SUNK")
    BY <1>0, <1>s, <2>2 DEF Records, TypeOK, Square
  <2>5. ships[a] = {fired[b]} \cup {e \in Cell : opponent[b][e] = "SUNK"}
    BY <1>r, <1>s, <2>3, <2>4
  <2> QED BY <1>1, <1>d, <2>1, <2>5 DEF Beaten
<1>5. CalmAt(a)'
  BY <1>3, <1>4, <1>d DEF CalmAt
<1>6. CalmAt(b)'
  <2>1. Live(b) => Inbox(b)'
    BY <1>0, <1>1, <1>2, <1>c, InboxKept DEF CalmAt
  <2>2. Live(b) => InboxTruth(b)'
    <3> SUFFICES ASSUME Live(b) PROVE InboxTruth(b)'
      OBVIOUS
    <3>1. InboxTruth(b)
      BY <1>c DEF CalmAt
    <3> QED BY <1>0, <1>1, <1>2, <1>r, <1>s, <3>1 DEF InboxTruth, SameMail, ResultFor
  <2>3. status[b] \in Playing => ShipsHere(b)'
    BY <1>1, <1>r, <1>c DEF CalmAt, ShipsHere
  <2> QED BY <1>0, <1>1, <1>3, <2>1, <2>2, <2>3 DEF CalmAt
<1> QED BY <1>0, <1>5, <1>6

\* Nothing happens to the game itself.
LEMMA QuietCalm ==
  ASSUME NEW p \in Peer, CalmAt(p), UNCHANGED <<status, initiator, boards, net>>,
         Losing(p)' => Losing(p)
  PROVE  CalmAt(p)'
<1> DEFINE q == other(p)
<1>1. UNCHANGED <<status, my, opponent, fired, ships, initiator, net>>
  BY DEF boards
<1>2. q \in Peer /\ SameMail(p) /\ SameMail(q)
  BY <1>1, Two DEF SameMail
<1>d. q = other(p) /\ other(q) = p
  BY Two
<1> HIDE DEF q
<1>3. /\ Due(p)' = Due(p) /\ Due(q)' = Due(q) /\ (Inbox(p)' <=> Inbox(p))
      /\ ReadyFor(p)' <=> ReadyFor(p)
      /\ ReadyFor(q)' <=> ReadyFor(q)
      /\ ResultFor(p)' <=> ResultFor(p)
      /\ ResultFor(q)' <=> ResultFor(q)
      /\ ShotFor(p)' <=> ShotFor(p)
      /\ ShotFor(q)' <=> ShotFor(q)
  BY <1>1, <1>2, InboxKept, MailKept
<1>4. InboxTruth(p) => InboxTruth(p)'
  BY <1>1, <1>2, TruthKept
<1>5. TurnOf(p) \/ TurnOf(q) => TurnOf(p)' \/ TurnOf(q)'
  BY <1>3, <1>d DEF TurnOf
<1>6. Pair(p) => Pair(p)'
  BY <1>1, <1>3, <1>5, <1>d DEF Pair
<1>7. Shots(p)' = Shots(p) /\ Shots(q)' = Shots(q)
  BY <1>1 DEF Shots
<1>8. (Records(p) => Records(p)') /\ (Count(p) => Count(p)')
  BY <1>1, <1>3, <1>7, <1>d DEF Records, Count
<1>9. (ShipsHere(p) => ShipsHere(p)') /\ (Beaten(p) => Beaten(p)')
  BY <1>1, <1>3, <1>d DEF ShipsHere, Beaten
<1> QED BY <1>1, <1>3, <1>4, <1>6, <1>8, <1>9 DEF CalmAt, Live

\* Every step keeps what holds in a calm game.
LEMMA CalmStep ==
  TypeOK /\ Always /\ Always' /\ Calm /\ [Next]_vars => Calm'
<1> SUFFICES ASSUME TypeOK, Always, Always', Calm, [Next]_vars PROVE Calm'
  OBVIOUS
<1>1. ASSUME NEW i \in Peer, start(i) PROVE Calm'
  BY <1>1, StartCalm DEF Calm
<1>2. ASSUME NEW p \in Peer, place_ships(p) PROVE Calm'
  BY <1>2, PlaceCalm DEF Calm, place_ships
<1>3. ASSUME NEW p \in Peer, shot_opponent_cell(p) PROVE Calm'
  BY <1>3, FireCalm DEF Calm, shot_opponent_cell
<1>4. ASSUME NEW p \in Peer, get_opponent_message(p) PROVE Calm'
  <2>1. PICK m \in net :
          /\ m.to = p /\ status[p] \in Playing
          /\ \/ process_msg_ready(p, m)
             \/ process_msg_shot(p, m)
             \/ process_msg_result(p, m)
             \/ wrong_message(p, m)
          /\ late' = IF m.stale THEN late \cup {p} ELSE late
          /\ UNCHANGED <<initiator, toClient, match, round>>
    BY <1>4 DEF get_opponent_message
  <2> SUFFICES ASSUME late' = {} PROVE \A q \in Peer : CalmAt(q)'
    BY DEF Calm
  <2>2. m.stale = FALSE /\ late = {}
    BY <2>1, Fields DEF TypeOK
  <2>3. \A q \in Peer : CalmAt(q)
    BY <2>2 DEF Calm
  <2>4. Live(p)
    BY <2>1 DEF Live, Playing
  <2>5. CASE process_msg_ready(p, m)
    BY <2>1, <2>2, <2>3, <2>5, ReadyCalm
  <2>6. CASE process_msg_result(p, m)
    BY <2>1, <2>2, <2>3, <2>6, ResultCalm
  <2>7. CASE process_msg_shot(p, m)
    <3>1. CASE my[p][m.cell] = "SHIP" /\ game_lost(my'[p])
      <4>1. ends(p, "lost") /\ net' = receive(m)
        BY <2>7, <3>1 DEF process_msg_shot
      <4>2. /\ status' = [status EXCEPT ![p] = "DISCONNECTED"]
            /\ toServer' = [toServer EXCEPT ![p] = <<"lost">>]
        BY <2>4, <4>1, EndsAlone DEF Ended
      <4> QED BY <2>1, <2>2, <2>3, <2>7, <3>1, <4>1, <4>2, LossCalm
    <3>2. CASE ~(my[p][m.cell] = "SHIP" /\ game_lost(my'[p]))
      <4>1. /\ status' = [status EXCEPT ![p] = "MY_TURN"]
            /\ net' = receive(m) \cup {msg_result(p, my[p][m.cell] = "SHIP")}
            /\ UNCHANGED toServer
        BY <2>7, <3>2 DEF process_msg_shot
      <4> QED BY <2>1, <2>2, <2>3, <2>7, <4>1, ShotCalm
    <3> QED BY <3>1, <3>2
  <2>8. CASE wrong_message(p, m)
    <3>1. ends(p, "disconnected") /\ net' = receive(m) /\ UNCHANGED boards
      BY <2>8 DEF wrong_message
    <3>2. /\ status' = [status EXCEPT ![p] = "DISCONNECTED"]
          /\ toServer' = [toServer EXCEPT ![p] = <<"disconnected">>]
      BY <2>4, <3>1, EndsAlone DEF Ended
    <3>3. SameMail(other(p))
      BY <2>1, <3>1, Two, OtherMail DEF SameMail
    <3>4. \A q \in Peer : Losing(q)' => Losing(q)
      BY <2>1, <3>2 DEF Losing, TypeOK
    <3> QED BY <2>1, <2>3, <3>1, <3>2, <3>3, <3>4, LeavesCalm
  <2> QED BY <2>1, <2>5, <2>6, <2>7, <2>8
<1>5. ASSUME NEW p \in Peer, disconnect(p) \/ inactivity(p) \/ killed(p) PROVE Calm'
  <2> SUFFICES ASSUME late' = {} PROVE \A q \in Peer : CalmAt(q)'
    BY DEF Calm
  <2>1. Live(p) /\ ends(p, "disconnected")
    BY <1>5 DEF disconnect, inactivity, killed, Live, Playing
  <2>2. UNCHANGED <<initiator, boards, net, toClient, late>>
    BY <1>5 DEF disconnect, inactivity, killed
  <2>3. /\ status' = [status EXCEPT ![p] = "DISCONNECTED"]
        /\ toServer' = [toServer EXCEPT ![p] = <<"disconnected">>]
    BY <2>1, EndsAlone DEF Ended
  <2>4. \A q \in Peer : Losing(q)' => Losing(q)
    BY <2>2, <2>3 DEF Losing, TypeOK
  <2>5. SameMail(other(p))
    BY <2>2 DEF SameMail
  <2>6. \A q \in Peer : CalmAt(q)
    BY <2>2 DEF Calm
  <2> QED BY <2>2, <2>3, <2>4, <2>5, <2>6, LeavesCalm
<1>6. ASSUME NEW p \in Peer, terminate_match(p) PROVE Calm'
  <2> SUFFICES ASSUME late' = {} PROVE \A q \in Peer : CalmAt(q)'
    BY DEF Calm
  <2>1. /\ toServer' = [toServer EXCEPT ![p] = Tail(@)]
        /\ UNCHANGED <<status, initiator, boards, net, late>>
        /\ toServer[p] # <<>>
    BY <1>6 DEF terminate_match
  <2>2. UNCHANGED <<my, opponent, fired, ships>>
    BY <2>1 DEF boards
  <2>3. ASSUME NEW q \in Peer, Losing(q)' PROVE Losing(q)
    <3>1. toServer[p] \in Seq(Ended) /\ Len(toServer[p]) = 1
      BY <2>1 DEF Always, EndingOf, TypeOK
    <3>2. toServer'[p] = <<>> /\ toServer[p] = <<Head(toServer[p])>>
      BY <2>1, <3>1, Single DEF TypeOK
    <3>3. CASE toServer'[q] = <<"lost">>
      BY <2>1, <3>2, <3>3 DEF Losing, TypeOK
    <3>4. CASE toClient'[other(q)] = <<"lost">> /\ match /\ endgame(p)
      <4>1. toClient[other(p)] = <<>> /\ other(q) \in Peer /\ other(p) \in Peer
        BY <3>4, Two DEF Always, EndingOf
      <4>2. toClient' = [toClient EXCEPT ![other(p)] = <<Head(toServer[p])>>]
        BY <3>4, <4>1 DEF endgame, TypeOK
      <4>3. CASE q = p
        BY <3>2, <3>4, <4>1, <4>2, <4>3 DEF Losing, TypeOK
      <4>4. CASE q # p
        <5>1. other(q) # other(p)
          BY <4>4, Two
        <5> QED BY <3>4, <4>1, <4>2, <5>1 DEF Losing, TypeOK
      <4> QED BY <4>3, <4>4
    <3>5. CASE UNCHANGED toClient /\ toClient'[other(q)] = <<"lost">>
      BY <3>5 DEF Losing
    <3> QED BY <1>6, <2>3, <3>3, <3>4, <3>5 DEF Losing, terminate_match
  <2>4. ASSUME NEW q \in Peer PROVE CalmAt(q)'
    <3>1. CalmAt(q)
      BY <2>1 DEF Calm
    <3> QED BY <2>1, <2>3, <3>1, QuietCalm
  <2> QED BY <2>4
<1>7. ASSUME NEW p \in Peer, process_msg_endgame(p) PROVE Calm'
  <2> SUFFICES ASSUME late' = {} PROVE \A q \in Peer : CalmAt(q)'
    BY DEF Calm
  <2>1. /\ toClient[p] # <<>> /\ toClient' = [toClient EXCEPT ![p] = Tail(@)]
        /\ status' = [status EXCEPT ![p] = "DISCONNECTED"]
        /\ UNCHANGED <<initiator, boards, net, toServer, late>>
    BY <1>7 DEF process_msg_endgame
  <2>2. toClient'[p] = <<>>
    <3>1. toClient[p] \in Seq(Ended) /\ Len(toClient[p]) = 1
      BY <2>1 DEF Always, EndingOf, TypeOK
    <3> QED BY <2>1, <3>1, Single DEF TypeOK
  <2>3. ASSUME NEW q \in Peer, Losing(q)' PROVE Losing(q)
    <3>1. other(q) \in Peer /\ toClient'[other(q)] \in {<<>>, toClient[other(q)]}
      BY <2>1, <2>2, Two DEF TypeOK
    <3> QED BY <2>1, <2>3, <3>1 DEF Losing
  <2>4. SameMail(other(p))
    BY <2>1 DEF SameMail
  <2>5. \A q \in Peer : CalmAt(q)
    BY <2>1 DEF Calm
  <2> QED BY <2>1, <2>3, <2>4, <2>5, LeavesCalm
<1>8. CASE UNCHANGED vars
  <2>1. ASSUME NEW q \in Peer, CalmAt(q) PROVE CalmAt(q)'
    BY <1>8, <2>1, QuietCalm DEF vars, boards, Losing
  <2> QED BY <1>8, <2>1 DEF Calm, vars
<1> QED BY <1>1, <1>2, <1>3, <1>4, <1>5, <1>6, <1>7, <1>8 DEF Next, Stopped

---------------------------------------------------------------------------
(* The properties.                                                          *)

IInv == TypeOK /\ Always /\ Calm

\* What every reachable state of the game satisfies.
THEOREM Inductive == Spec => []IInv
<1>1. Init => IInv
  <2> SUFFICES ASSUME Init PROVE Always /\ Calm
    BY InitTypes DEF IInv
  <2>1. \A p \in Peer : /\ status[p] = "DISCONNECTED" /\ toServer[p] = <<>> /\ toClient[p] = <<>>
                        /\ p \notin gone
    BY DEF Init
  <2>2. Always
    BY <2>1, Two DEF Always, EndingOf, FleetOf, TablesOf, Losing, Live, Playing
  <2>3. Calm
    BY <2>1, Two DEF Calm, CalmAt, Losing, Live, Playing
  <2> QED BY <2>2, <2>3
<1>2. IInv /\ [Next]_vars => IInv'
  BY Typing, AlwaysStep, CalmStep DEF IInv
<1> QED BY <1>1, <1>2, PTL DEF Spec

\* Types of the variables.
THEOREM TypeCorrect == Spec => []TypeOK
<1>1. IInv => TypeOK
  BY DEF IInv
<1> QED BY <1>1, Inductive, PTL

\* The calm part of the invariant, for a player in a game with the other in it.
LEMMA Calmly ==
  ASSUME IInv, late = {}, NEW p \in Peer, status[p] \in Playing
  PROVE  /\ Live(p) /\ Inbox(p) /\ InboxTruth(p) /\ ShipsHere(p)
         /\ status[other(p)] \in Playing => Pair(p) /\ Records(p) /\ Count(p)
BY Two DEF IInv, Calm, CalmAt, Live, Playing

\* Each player's record of the shots agrees with the opponent's table, apart from
\* the shot that waits for its result, while no stale datagram is accepted.
THEOREM BoardsAgreeAlways == Spec => []BoardsAgree
<1>1. IInv => BoardsAgree
  <2> SUFFICES ASSUME IInv, NEW p \in Peer, late = {}, status[p] \in Playing,
                      status[other(p)] \in Playing, NEW c \in Cell
               PROVE  IF opponent[p][c] = "WATER"
                      THEN \/ my[other(p)][c] \in {"WATER", "SHIP"}
                           \/ status[p] = "WAIT_RESULT" /\ c = fired[p]
                      ELSE my[other(p)][c] = opponent[p][c]
    BY DEF BoardsAgree
  <2>1. Records(p) /\ Inbox(p)
    BY Calmly
  <2> QED BY <2>1 DEF Records, Inbox
<1> QED BY <1>1, Inductive, PTL

\* The ships, afloat and sunk, stay where the player has put them: no shot that is
\* not stale hits a square twice.
THEOREM ShipsConservedAlways == Spec => []ShipsConserved
<1>1. IInv => ShipsConserved
  <2> SUFFICES ASSUME IInv, NEW p \in Peer, late = {}, status[p] \in Playing
               PROVE  {c \in Cell : my[p][c] \in {"SHIP", "SUNK"}} = ships[p]
    BY DEF ShipsConserved
  <2> QED BY Calmly DEF ShipsHere
<1> QED BY <1>1, Inductive, PTL

\* The players fire in turn, whatever the order in which READY, shots and results
\* arrive; both wait at once only for READY or for a result on its way.
THEOREM TurnsAlternateAlways == Spec => []TurnsAlternate
<1>1. IInv => TurnsAlternate
  <2> DEFINE first == other(initiator)
  <2> SUFFICES ASSUME IInv, late = {}, status[first] \in Playing, status[initiator] \in Playing
               PROVE  /\ Shots(first) - Shots(initiator) \in {0, 1}
                      /\ status[first] = status[initiator] =>
                           status[first] \in {"WAITING", "WAIT_RESULT"}
    BY DEF TurnsAlternate
  <2>1. first \in Peer /\ other(first) = initiator
    BY Two DEF IInv, TypeOK
  <2>2. Pair(first) /\ Count(first)
    BY <2>1, Calmly
  <2>3. Shots(first) - Shots(initiator) \in {0, 1}
    BY <2>1, <2>2 DEF Count
  <2>4. status[first] # "SETUP" /\ status[initiator] # "SETUP"
    BY DEF Playing
  <2>5. TurnOf(first) \/ TurnOf(initiator)
    BY <2>1, <2>2, <2>4 DEF Pair
  <2>6. status[first] = status[initiator] => status[first] \in {"WAITING", "WAIT_RESULT"}
    BY <2>1, <2>5 DEF TurnOf, Due, Playing
  <2> QED BY <2>3, <2>6
<1> QED BY <1>1, Inductive, PTL

\* A player who is told to have won has sunk all ships of the opponent, whatever
\* was accepted; in a calm game the winner has a ship left, and its record with the
\* last shot is the opponent's fleet.
THEOREM VerdictEarnedAlways == Spec => VerdictEarned
<1>1. ASSUME IInv, [Next]_vars, NEW p \in Peer, status[p] \in Playing,
             toClient'[p] # toClient[p], status'[p] = "DISCONNECTED",
             Head(toClient[p]) = "lost"
      PROVE  /\ game_lost(my[other(p)])
             /\ late = {} =>
                  /\ ~game_lost(my[p])
                  /\ ships[other(p)] =
                       {fired[p]} \cup {c \in Cell : opponent[p][c] = "SUNK"}
  <2> USE DEF IInv
  <2>1. toClient' # toClient /\ status'[p] # status[p]
    BY <1>1 DEF Playing
  <2>2. PICK q \in Peer : process_msg_endgame(q)
    <3>1. ASSUME NEW q \in Peer,
                 start(q) \/ place_ships(q) \/ shot_opponent_cell(q) \/ get_opponent_message(q)
                   \/ disconnect(q) \/ inactivity(q) \/ killed(q)
          PROVE  toClient' = toClient
      BY <3>1 DEF start, place_ships, shot_opponent_cell, get_opponent_message, disconnect,
                  inactivity, killed
    <3>2. ASSUME NEW q \in Peer, terminate_match(q) PROVE status' = status
      BY <3>2 DEF terminate_match
    <3> QED BY <1>1, <2>1, <3>1, <3>2 DEF Next, Stopped, vars
  <2>3. q = p /\ toClient[p] # <<>>
    BY <1>1, <2>1, <2>2 DEF process_msg_endgame, TypeOK
  <2>4. toClient[p] = <<"lost">>
    <3>1. toClient[p] \in Seq(Ended) /\ Len(toClient[p]) = 1
      BY <1>1, <2>3 DEF Always, EndingOf, TypeOK
    <3> QED BY <1>1, <3>1, Single
  <2>5. other(p) \in Peer /\ other(other(p)) = p /\ Losing(other(p)) /\ Live(p)
    BY <1>1, <2>4, Two DEF Losing, Live, Playing
  <2>6. game_lost(my[other(p)]) /\ ~game_lost(my[p])
    BY <1>1, <2>5 DEF Always, FleetOf
  <2>7. late = {} => Beaten(other(p))
    BY <1>1, <2>5 DEF Calm, CalmAt
  <2> QED BY <2>5, <2>6, <2>7 DEF Beaten
<1>2. IInv /\ [Next]_vars => [\A p \in Peer : LET q == other(p) IN
         (/\ status[p] \in Playing /\ toClient'[p] # toClient[p]
          /\ status'[p] = "DISCONNECTED" /\ Head(toClient[p]) = "lost") =>
            /\ game_lost(my[q])
            /\ late = {} =>
                 /\ ~game_lost(my[p])
                 /\ ships[q] = {fired[p]} \cup {c \in Cell : opponent[p][c] = "SUNK"}]_vars
  BY <1>1
<1> QED BY <1>2, Inductive, PTL DEF Spec, VerdictEarned

\* A fresh datagram that a client does not expect has overtaken one of the same
\* game: only then does the client exit because of it.
THEOREM OnlyOvertakenWrongAlways == Spec => OnlyOvertakenWrong
<1>1. ASSUME IInv, [Next]_vars, NEW p \in Peer, NEW m \in net \ net',
             late = {}, p \in gone' \ gone, ~m.stale
      PROVE  \E n \in net \cap net' : n.to = p /\ ~n.stale
  <2> USE DEF IInv
  <2>1. PICK q \in Peer : get_opponent_message(q)
    <3>1. ASSUME NEW q \in Peer,
                 start(q) \/ place_ships(q) \/ shot_opponent_cell(q) \/ disconnect(q)
                   \/ inactivity(q) \/ terminate_match(q) \/ process_msg_endgame(q)
          PROVE  gone' = gone
      BY <3>1 DEF start, place_ships, shot_opponent_cell, disconnect, inactivity,
                  terminate_match, process_msg_endgame
    <3>2. ASSUME NEW q \in Peer, killed(q) PROVE net' = net
      BY <3>2 DEF killed
    <3> QED BY <1>1, <3>1, <3>2 DEF Next, Stopped, vars
  <2>2. PICK r \in net : /\ r.to = q /\ status[q] \in Playing
                         /\ process_msg_ready(q, r) \/ process_msg_shot(q, r)
                            \/ process_msg_result(q, r) \/ wrong_message(q, r)
    BY <2>1 DEF get_opponent_message
  <2>3. wrong_message(q, r)
    BY <1>1, <2>2 DEF process_msg_ready, process_msg_shot, process_msg_result
  <2>4. q = p /\ net' = receive(r) /\ r.type \notin expected(p)
    BY <1>1, <2>3 DEF wrong_message
  <2>5. r = m /\ m \in Datagram /\ m.to = p
    BY <1>1, <2>2, <2>4 DEF receive, TypeOK
  <2> DEFINE s == other(p)
  <2>6. s \in Peer /\ other(s) = p
    BY Two
  <2>7. Inbox(p)
    BY <1>1, <2>2, <2>4, Calmly
  <2>8. /\ m.type = "MSG_READY" => m = msg_ready(s)
        /\ m.type = "MSG_SHOT" => m = msg_shot(s, m.cell) /\ m.cell \in Cell
        /\ m.type = "MSG_RESULT" => m = msg_result(s, m.hit) /\ m.hit \in BOOLEAN
        /\ m.type \in {"MSG_READY", "MSG_SHOT", "MSG_RESULT"}
    BY <1>1, <2>5, Fields, Fresh
  <2>9. m.type \notin expected(p) /\ status[p] \in Playing /\ status[p] # "SETUP"
    BY <2>2, <2>4, <2>5 DEF Playing
  <2> HIDE DEF s
  <2>10. m.type = "MSG_SHOT"
    <3>1. m.type = "MSG_READY" => status[p] = "WAITING"
      BY <1>1, <2>7, <2>8, <2>9 DEF Inbox, ReadyFor, s
    <3>2. m.type = "MSG_RESULT" => status[p] = "WAIT_RESULT"
      BY <1>1, <2>7, <2>8, <2>9 DEF Inbox, ResultFor, s
    <3> QED BY <2>8, <2>9, <3>1, <3>2 DEF expected
  <2>11. Due(p) = "OPPONENT_TURN" /\ status[p] # "OPPONENT_TURN"
    <3>1. ShotFor(p)
      BY <1>1, <2>8, <2>10 DEF ShotFor, s
    <3> QED BY <2>7, <2>9, <2>10, <3>1 DEF Inbox, expected
  <2>12. CASE ReadyFor(p)
    <3>1. msg_ready(s) \in net /\ msg_ready(s) # m
      BY <2>6, <2>8, <2>10, <2>12, Distinct DEF ReadyFor, s
    <3>2. msg_ready(s) \in net'
      BY <2>4, <2>5, <2>6, <3>1, Received
    <3>3. msg_ready(s).to = p /\ ~msg_ready(s).stale
      BY <2>6 DEF msg_ready
    <3> QED BY <3>1, <3>2, <3>3
  <2>13. CASE ResultFor(p)
    <3>1. PICK h \in BOOLEAN : msg_result(s, h) \in net
      BY <2>13 DEF ResultFor, s
    <3>2. msg_result(s, h) # m
      BY <2>6, <2>8, <2>10, Distinct
    <3>3. msg_result(s, h) \in net'
      BY <2>4, <2>5, <2>6, <3>1, <3>2, Received
    <3>4. msg_result(s, h).to = p /\ ~msg_result(s, h).stale
      BY <2>6 DEF msg_result
    <3> QED BY <3>1, <3>3, <3>4
  <2> QED BY <2>11, <2>12, <2>13 DEF Due
<1>2. IInv /\ [Next]_vars => [\A p \in Peer, m \in net \ net' :
         (late = {} /\ p \in gone' \ gone /\ ~m.stale) =>
           \E n \in net \cap net' : n.to = p /\ ~n.stale]_vars
  BY <1>1
<1> QED BY <1>2, Inductive, PTL DEF Spec, OnlyOvertakenWrong
=============================================================================
