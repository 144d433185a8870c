-------------------------------- MODULE Duel --------------------------------
(***************************************************************************)
(* The game of two battle_clients over UDP, and the end of it, which goes   *)
(* through the server over TCP.  Datagrams can be lost, duplicated, delayed *)
(* without limit and reordered, also into the next game of the two: the     *)
(* clients neither number them nor look at their source.                    *)
(*                                                                          *)
(* A game starts when both have read PLAY_ACCEPT, in one step: between that *)
(* and place_ships() a client does nothing else.  Time is free: a client    *)
(* may count as inactive whenever it is in its main loop.                   *)
(***************************************************************************)
EXTENDS Integers, Sequences, FiniteSetsExt

CONSTANTS
  alice, bob,  \* the two players
  Cell,        \* squares of the table
  SHIP_COUNT,  \* ships of each player, of one square
  MaxGames,    \* bound on the games they play
  Duplicates   \* whether the network may deliver a datagram twice

Peer == {alice, bob}

ASSUME PeerAssumption == alice # bob

ASSUME CellAssumption ==
  IsFiniteSet(Cell) /\ SHIP_COUNT \in 1 .. Cardinality(Cell)

ASSUME MaxGamesAssumption == MaxGames \in Nat /\ Duplicates \in BOOLEAN

VARIABLES
  status,     \* game.status
  initiator,  \* the player whose game.my.initiator is true
  my,         \* game.my.table
  opponent,   \* game.opponent.table
  fired,      \* game.fired
  gone,       \* clients that have exited
  net,        \* datagrams sent
  toServer,   \* MSG_ENDGAME from each client, by its flag
  toClient,   \* MSG_ENDGAME to each client
  match,      \* the server has the two in a match
  round,      \* history: the game that is played, by number
  ships,      \* history: the squares chosen in place_ships()
  late        \* history: who has accepted a stale datagram in this game

vars == <<status, initiator, my, opponent, fired, gone, net, toServer, toClient,
          match, round, ships, late>>

boards == <<my, opponent, fired, ships>>

other(p) == IF p = alice THEN bob ELSE alice

Playing == {"WAITING", "MY_TURN", "OPPONENT_TURN", "WAIT_RESULT"}

---------------------------------------------------------------------------
(* Datagrams.  stale is not in the message: it is set when the datagram has  *)
(* been read once, and when the game it belongs to is over.                 *)

Datagram ==
       [to : Peer, type : {"MSG_READY"}, stale : BOOLEAN]
  \cup [to : Peer, type : {"MSG_SHOT"}, cell : Cell, stale : BOOLEAN]
  \cup [to : Peer, type : {"MSG_RESULT"}, hit : BOOLEAN, stale : BOOLEAN]

msg_ready(p) == [to |-> other(p), type |-> "MSG_READY", stale |-> FALSE]

msg_shot(p, c) == [to |-> other(p), type |-> "MSG_SHOT", cell |-> c, stale |-> FALSE]

msg_result(p, hit) ==
  [to |-> other(p), type |-> "MSG_RESULT", hit |-> hit, stale |-> FALSE]

aged(m) == [m EXCEPT !.stale = TRUE]

\* Nothing leaves the network: a datagram that is never read was lost, one
\* that is read again was duplicated.
receive(m) == (net \ {m}) \cup (IF Duplicates THEN {aged(m)} ELSE {})

---------------------------------------------------------------------------
(* The start of a game.                                                     *)

\* The negotiation needs both clients at their prompt, and leaves nothing of
\* itself in the channels.
start(i) ==
  /\ round < MaxGames
  /\ gone = {} /\ ~match
  /\ \A p \in Peer :
       status[p] = "DISCONNECTED" /\ toServer[p] = <<>> /\ toClient[p] = <<>>
  /\ match' = TRUE
  /\ initiator' = i
  /\ status' = [p \in Peer |-> "SETUP"]
  /\ round' = round + 1
  /\ net' = {aged(m) : m \in net}
  /\ late' = {}
  /\ UNCHANGED <<boards, gone, toServer, toClient>>

\* Mutation: the record of the last game stays.
clear_Not(p) == opponent' = opponent

clear(p) == opponent' = [opponent EXCEPT ![p] = [c \in Cell |-> "WATER"]]

\* The client reads nothing but the terminal until all ships are placed.
place_ships(p) ==
  /\ status[p] = "SETUP"
  /\ \E s \in kSubset(SHIP_COUNT, Cell) :
       /\ my' = [my EXCEPT ![p] = [c \in Cell |-> IF c \in s THEN "SHIP" ELSE "WATER"]]
       /\ ships' = [ships EXCEPT ![p] = s]
  /\ clear(p)
  /\ net' = net \cup {msg_ready(p)}
  /\ status' = [status EXCEPT ![p] = "WAITING"]
  /\ UNCHANGED <<initiator, fired, gone, toServer, toClient, match, round, late>>

---------------------------------------------------------------------------
(* The end of a game.                                                       *)

\* MSG_ENDGAME, by its flag.
Ended == {"disconnected", "lost"}

ends(p, m) ==
  /\ status' = [status EXCEPT ![p] = "DISCONNECTED"]
  /\ toServer' = [toServer EXCEPT ![p] = Append(@, m)]

\* !disconnect.
disconnect(p) ==
  /\ status[p] = "MY_TURN"
  /\ ends(p, "disconnected")
  /\ UNCHANGED <<initiator, boards, gone, net, toClient, match, round, late>>

\* IN_GAME_TIMEOUT seconds without input from the terminal or the opponent.
inactivity(p) ==
  /\ status[p] \in Playing
  /\ ends(p, "disconnected")
  /\ UNCHANGED <<initiator, boards, gone, net, toClient, match, round, late>>

\* The process is killed in a game.  The server takes the end of a connection
\* for a disconnection.
killed(p) ==
  /\ status[p] # "DISCONNECTED"
  /\ gone' = gone \cup {p}
  /\ ends(p, "disconnected")
  /\ UNCHANGED <<initiator, boards, net, toClient, match, round, late>>

\* Mutation: the server tells the player who ended the game.
endgame_Back(p) ==
  toClient' = [toClient EXCEPT ![p] = Append(@, Head(toServer[p]))]

\* Mutation: a lost game is passed on as a disconnection and the reverse.
endgame_Swapped(p) ==
  toClient' = [toClient EXCEPT ![other(p)] =
                 Append(@, IF Head(toServer[p]) = "lost" THEN "disconnected" ELSE "lost")]

\* The other player is told why.
endgame(p) ==
  toClient' = [toClient EXCEPT ![other(p)] = Append(@, Head(toServer[p]))]

\* The server's terminate_match() for a game under way.
terminate_match(p) ==
  /\ toServer[p] # <<>>
  /\ toServer' = [toServer EXCEPT ![p] = Tail(@)]
  /\ match' = FALSE
  /\ IF match THEN endgame(p) ELSE UNCHANGED toClient
  /\ UNCHANGED <<status, initiator, boards, gone, net, round, late>>

\* Nothing happens unless the client is in a game.
process_msg_endgame(p) ==
  /\ p \notin gone /\ status[p] # "SETUP"
  /\ toClient[p] # <<>>
  /\ toClient' = [toClient EXCEPT ![p] = Tail(@)]
  /\ status' = [status EXCEPT ![p] = "DISCONNECTED"]
  /\ UNCHANGED <<initiator, boards, gone, net, toServer, match, round, late>>

---------------------------------------------------------------------------
(* The moves.                                                               *)

\* Mutation: a square can be fired at twice.
open_square_Any(p, c) == TRUE

open_square(p, c) == opponent[p][c] = "WATER"

shot_opponent_cell(p) ==
  /\ status[p] = "MY_TURN"
  /\ \E c \in Cell :
       /\ open_square(p, c)
       /\ fired' = [fired EXCEPT ![p] = c]
       /\ net' = net \cup {msg_shot(p, c)}
  /\ status' = [status EXCEPT ![p] = "WAIT_RESULT"]
  /\ UNCHANGED <<initiator, my, opponent, ships, gone, toServer, toClient, match,
                 round, late>>

\* Mutation: both start.
first_turn_Mine(p) == "MY_TURN"

first_turn(p) == IF p = initiator THEN "OPPONENT_TURN" ELSE "MY_TURN"

process_msg_ready(p, m) ==
  /\ m.type = "MSG_READY" /\ status[p] = "WAITING"
  /\ net' = receive(m)
  /\ status' = [status EXCEPT ![p] = first_turn(p)]
  /\ UNCHANGED <<boards, toServer, gone>>

game_lost(table) == \A c \in Cell : table[c] # "SHIP"

process_msg_shot(p, m) ==
  LET hit == my[p][m.cell] = "SHIP" IN
  /\ m.type = "MSG_SHOT" /\ status[p] = "OPPONENT_TURN"
  /\ my' = [my EXCEPT ![p][m.cell] = IF hit THEN "SUNK" ELSE "MISS"]
  /\ \/ /\ hit /\ game_lost(my'[p])
        /\ ends(p, "lost")
        /\ net' = receive(m)
     \/ /\ ~(hit /\ game_lost(my'[p]))
        /\ status' = [status EXCEPT ![p] = "MY_TURN"]
        /\ net' = receive(m) \cup {msg_result(p, hit)}
        /\ UNCHANGED toServer
  /\ UNCHANGED <<opponent, fired, ships, gone>>

\* Mutation: the square is not marked.
mark_Nothing(p, hit) == opponent' = opponent

\* Mutation: a hit is marked as a ship of one's own.
mark_Ship(p, hit) ==
  opponent' = [opponent EXCEPT ![p][fired[p]] = IF hit THEN "SHIP" ELSE "MISS"]

mark(p, hit) ==
  opponent' = [opponent EXCEPT ![p][fired[p]] = IF hit THEN "SUNK" ELSE "MISS"]

process_msg_result(p, m) ==
  /\ m.type = "MSG_RESULT" /\ status[p] = "WAIT_RESULT"
  /\ mark(p, m.hit)
  /\ net' = receive(m)
  /\ status' = [status EXCEPT ![p] = "OPPONENT_TURN"]
  /\ UNCHANGED <<my, fired, ships, toServer, gone>>

expected(p) ==
  CASE status[p] = "WAITING"       -> {"MSG_READY"}
    [] status[p] = "OPPONENT_TURN" -> {"MSG_SHOT"}
    [] status[p] = "WAIT_RESULT"   -> {"MSG_RESULT"}
    [] OTHER                       -> {}

\* A message of the wrong type ends the game and the process.
wrong_message(p, m) ==
  /\ m.type \notin expected(p)
  /\ gone' = gone \cup {p}
  /\ ends(p, "disconnected")
  /\ net' = receive(m)
  /\ UNCHANGED boards

\* In a game, in the main loop.  Out of a game datagrams are read and dropped,
\* as if they were lost.
get_opponent_message(p) ==
  \E m \in net :
    /\ m.to = p /\ status[p] \in Playing
    /\ \/ process_msg_ready(p, m)
       \/ process_msg_shot(p, m)
       \/ process_msg_result(p, m)
       \/ wrong_message(p, m)
    /\ late' = IF m.stale THEN late \cup {p} ELSE late
    /\ UNCHANGED <<initiator, toClient, match, round>>

---------------------------------------------------------------------------
Init ==
  /\ status = [p \in Peer |-> "DISCONNECTED"]
  /\ initiator \in Peer
  /\ my = [p \in Peer |-> [c \in Cell |-> "WATER"]]
  /\ opponent = my
  /\ \E c \in Cell : fired = [p \in Peer |-> c]
  /\ gone = {}
  /\ net = {}
  /\ toServer = [p \in Peer |-> <<>>]
  /\ toClient = [p \in Peer |-> <<>>]
  /\ match = FALSE
  /\ round = 0
  /\ ships = [p \in Peer |-> {}]
  /\ late = {}

Stopped ==
  /\ round = MaxGames \/ gone # {}
  /\ \A p \in Peer : status[p] = "DISCONNECTED"
  /\ UNCHANGED vars

Next ==
  \/ \E p \in Peer :
       \/ start(p)
       \/ place_ships(p)
       \/ shot_opponent_cell(p)
       \/ get_opponent_message(p)
       \/ disconnect(p)
       \/ inactivity(p)
       \/ killed(p)
       \/ terminate_match(p)
       \/ process_msg_endgame(p)
  \/ Stopped

Spec == Init /\ [][Next]_vars

\* The server serves every connection, and a client in its main loop reads
\* what the server has sent.
Fairness ==
  \A p \in Peer : WF_vars(terminate_match(p)) /\ WF_vars(process_msg_endgame(p))

FairSpec == Spec /\ Fairness

---------------------------------------------------------------------------
(* Properties.                                                              *)

Square == {"WATER", "SHIP", "MISS", "SUNK"}

\* Types of the variables.
TypeOK ==
  /\ status \in [Peer -> Playing \cup {"DISCONNECTED", "SETUP"}]
  /\ initiator \in Peer
  /\ my \in [Peer -> [Cell -> Square]]
  /\ opponent \in [Peer -> [Cell -> Square \ {"SHIP"}]]
  /\ fired \in [Peer -> Cell]
  /\ gone \subseteq Peer
  /\ net \subseteq Datagram
  /\ toServer \in [Peer -> Seq(Ended)]
  /\ toClient \in [Peer -> Seq(Ended)]
  /\ match \in BOOLEAN
  /\ round \in 0 .. MaxGames
  /\ ships \in [Peer -> SUBSET Cell]
  /\ late \subseteq Peer

\* As long as no stale datagram has been accepted, each player's record of the
\* shots agrees with the opponent's own table, apart from the one that is
\* still to be answered.
BoardsAgree ==
  \A p \in Peer : LET q == other(p) IN
    (late = {} /\ status[p] \in Playing /\ status[q] \in Playing) =>
      \A c \in Cell :
        IF opponent[p][c] = "WATER"
        THEN \/ my[q][c] \in {"WATER", "SHIP"}
             \/ status[p] = "WAIT_RESULT" /\ c = fired[p]
        ELSE my[q][c] = opponent[p][c]

\* The ships, afloat and sunk, are where the player has put them: no shot
\* turns a sunk ship into a miss, although process_msg_shot() would do so.
ShipsConserved ==
  \A p \in Peer : (late = {} /\ status[p] \in Playing) =>
    {c \in Cell : my[p][c] \in {"SHIP", "SUNK"}} = ships[p]

Shots(p) ==
  Cardinality({c \in Cell : opponent[p][c] # "WATER"})
    + (IF status[p] = "WAIT_RESULT" THEN 1 ELSE 0)

\* The players fire in turn, the one who was invited first; it is never the
\* turn of both, and never do both wait for the other to fire.
TurnsAlternate ==
  LET second == initiator
      first  == other(initiator) IN
  (late = {} /\ status[first] \in Playing /\ status[second] \in Playing) =>
    /\ Shots(first) - Shots(second) \in {0, 1}
    /\ status[first] = status[second] => status[first] \in {"WAITING", "WAIT_RESULT"}

\* A player who is told to have won has sunk all ships of the opponent, even
\* if stale datagrams were accepted.  If none was, the winner has a ship left
\* and has on record all hits but the last one, which has no result.
VerdictEarned ==
  [][\A p \in Peer : LET q == other(p) IN
       (/\ status[p] \in Playing /\ toClient'[p] # toClient[p]
        /\ status'[p] = "DISCONNECTED" /\ Head(toClient[p]) = "lost") =>
          /\ game_lost(my[q])
          /\ late = {} =>
               /\ ~game_lost(my[p])
               /\ ships[q] = {fired[p]} \cup {c \in Cell : opponent[p][c] = "SUNK"}
    ]_vars

\* As long as no stale datagram has been accepted, a client exits because of an
\* unexpected datagram of this game only when that has overtaken another one:
\* on a network that keeps order no game ends this way.
OnlyOvertakenWrong ==
  [][\A p \in Peer, m \in net \ net' :
       (late = {} /\ p \in gone' \ gone /\ ~m.stale) =>
         \E n \in net \cap net' : n.to = p /\ ~n.stale]_vars

\* When a player has left the game, however that happened, the other one does
\* not go on waiting: the server informs it.
OpponentLeft ==
  \A p \in Peer :
    (status[p] \in Playing /\ status[other(p)] = "DISCONNECTED")
      ~> status[p] = "DISCONNECTED"
=============================================================================
