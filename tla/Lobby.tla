-------------------------------- MODULE Lobby --------------------------------
(***************************************************************************)
(* battle_client up to a game and after it, composed with the handlers of   *)
(* BattleServer over one TCP connection per client.  A client reads its     *)
(* connection in different places of the code, and each place treats the    *)
(* messages it does not expect in its own way: "at" says where it is.       *)
(*                                                                          *)
(* The game itself is one state here, "playing"; it is the subject of Duel. *)
(* A process may be closed by its user at any time, and its place taken by  *)
(* a new one.  connect() and the server's accept() are one step.            *)
(***************************************************************************)
EXTENDS Naturals, Sequences, FiniteSets

CONSTANTS
  Client,    \* connections, each with the process at its other end
  Name,      \* usernames
  Match,     \* struct match objects
  Null,      \* NULL, and no username
  MaxRequests, \* bound on the messages of a client that wait for the server
  MaxQueue   \* bound on the messages that wait for a client

ASSUME ClientAssumption == IsFiniteSet(Client)

ASSUME NullAssumption ==
  Null \notin Client \cup Name \cup Match
           \cup [player1 : Client, player2 : Client, awaiting_reply : BOOLEAN]

ASSUME MaxQueueAssumption == MaxQueue \in Nat \ {0} /\ MaxRequests \in Nat \ {0}

VARIABLES
  server, connected, client_list, logged_count, username, match, heap, sent,
  overlap,   \* as in BattleServer
  toServer,  \* messages from each client, and "EOF"
  toClient,  \* messages to each client
  at,        \* where each client is
  peer,      \* whom it has asked, is asked by, or plays with
  consent,   \* history: whose invitation its user has accepted, until the
             \* server's answer is read
  crossed,   \* history: a client has read a message where it waited for one of
             \* another type
  late       \* history: an answer or MSG_ENDGAME written before its sender knew
             \* of the match the server applies it to

Srv == INSTANCE BattleServer

clientVars == <<at, peer, consent, crossed>>

vars == <<server, connected, client_list, logged_count, username, match, heap,
          sent, overlap, toServer, toClient, at, peer, consent, crossed, late>>

Place == {"off", "login", "wait_login", "idle", "wait_who", "wait_play", "asking",
          "wait_answer", "placing", "playing"}

Request ==
       [type : {"REQ_LOGIN"}, username : Name]
  \cup [type : {"REQ_WHO", "EOF"}]
  \cup [type : {"REQ_PLAY"}, opponent : Name]
  \cup [type : {"REQ_PLAY_ANS"}, accept : BOOLEAN]
  \cup [type : {"MSG_ENDGAME"}, disconnected : BOOLEAN]

---------------------------------------------------------------------------
(* The server.                                                              *)

\* The messages of s to c.
mail(s, c) ==
  LET f[k \in 0 .. Len(s)] ==
        IF k = 0 THEN <<>>
        ELSE IF s[k].to = c THEN Append(f[k - 1], s[k]) ELSE f[k - 1]
  IN f[Len(s)]

\* What a handler sends reaches the clients in order; a process that is gone
\* has no use for it.
deliver ==
  /\ toClient' = [c \in Client |->
       IF at[c] = "off" THEN <<>> ELSE toClient[c] \o mail(sent', c)]
  /\ \A c \in Client : Len(toClient'[c]) <= MaxQueue

\* Some message of q says something of its sender's match.
about_a_match(q) == \E i \in DOMAIN q : q[i].type \in {"REQ_PLAY_ANS", "MSG_ENDGAME"}

invited(c) == \E i \in DOMAIN toClient[c] : toClient[c][i].type = "REQ_PLAY"

serve(c) ==
  /\ server = "running"
  /\ toServer[c] # <<>>
  /\ Srv!receive(c, Head(toServer[c]))
  /\ toServer' = [toServer EXCEPT ![c] = Tail(@)]
  /\ deliver
  /\ late' = (late \/ \E k \in DOMAIN sent' : /\ sent'[k].type = "REQ_PLAY"
                                            /\ about_a_match(toServer[sent'[k].to]))
  /\ UNCHANGED clientVars

elapsed(c) ==
  /\ Srv!elapsed(c)
  /\ deliver
  /\ UNCHANGED <<toServer, clientVars, late>>

\* A signal.  What was sent before can still be read.
shutdown ==
  /\ server = "running"
  /\ Srv!shutdown
  /\ UNCHANGED <<toServer, toClient, clientVars, late>>

---------------------------------------------------------------------------
(* The client: what its user does.                                          *)

\* The server does nothing in this step.
noHandler ==
  /\ sent' = <<>>
  /\ UNCHANGED <<server, connected, client_list, logged_count, username, match,
                 heap, overlap>>

send(c, m) ==
  /\ m.type # "EOF" => Len(toServer[c]) < MaxRequests
  /\ toServer' = [toServer EXCEPT ![c] = Append(@, m)]
  /\ late' = (late \/ (about_a_match(<<m>>) /\ invited(c)))

go(c, from, to) ==
  /\ at[c] = from
  /\ at' = [at EXCEPT ![c] = to]

connect_to_server(c) ==
  /\ server = "running"
  /\ go(c, "off", "login")
  /\ Srv!accept_connection(c)
  /\ UNCHANGED <<toServer, toClient, peer, consent, crossed, late>>

do_login(c, u) ==
  /\ go(c, "login", "wait_login")
  /\ send(c, [type |-> "REQ_LOGIN", username |-> u])
  /\ UNCHANGED <<toClient, peer, consent, crossed>>
  /\ noHandler

print_player_list(c) ==
  /\ go(c, "idle", "wait_who")
  /\ send(c, [type |-> "REQ_WHO"])
  /\ UNCHANGED <<toClient, peer, consent, crossed>>
  /\ noHandler

send_play_request(c, u) ==
  /\ go(c, "idle", "wait_play")
  /\ send(c, [type |-> "REQ_PLAY", opponent |-> u])
  /\ peer' = [peer EXCEPT ![c] = u]
  /\ UNCHANGED <<toClient, consent, crossed>>
  /\ noHandler

\* The answer to an invitation.  It is not sent if the server has something to
\* say meanwhile.
answer(c, accept) ==
  /\ go(c, "asking", "wait_answer")
  /\ IF toClient[c] = <<>>
     THEN send(c, [type |-> "REQ_PLAY_ANS", accept |-> accept])
     ELSE UNCHANGED <<toServer, late>>
  /\ consent' = [consent EXCEPT ![c] = IF accept THEN peer[c] ELSE Null]
  /\ UNCHANGED <<toClient, peer, crossed>>
  /\ noHandler

\* Mutation: the answer that is there is left unread.
not_answered_Unread(c) ==
  /\ go(c, "asking", "idle")
  /\ toClient[c] # <<>>
  /\ UNCHANGED <<toServer, toClient, peer, consent, crossed, late>>
  /\ noHandler

\* ask_to_play() gives up, because the server's connection is readable.
not_answered(c) ==
  /\ go(c, "asking", "wait_answer")
  /\ toClient[c] # <<>>
  /\ consent' = [consent EXCEPT ![c] = Null]
  /\ UNCHANGED <<toServer, toClient, peer, crossed, late>>
  /\ noHandler

place_ships(c) ==
  /\ go(c, "placing", "playing")
  /\ UNCHANGED <<toServer, toClient, peer, consent, crossed, late>>
  /\ noHandler

\* The game is lost, left, or given up for inactivity.
send_msg_endgame(c, disconnected) ==
  /\ go(c, "playing", "idle")
  /\ send(c, [type |-> "MSG_ENDGAME", disconnected |-> disconnected])
  /\ peer' = [peer EXCEPT ![c] = Null]
  /\ UNCHANGED <<toClient, consent, crossed>>
  /\ noHandler

\* The process ends, and its memory with it.
process_ends(c) ==
  /\ at' = [at EXCEPT ![c] = "off"]
  /\ toClient' = [toClient EXCEPT ![c] = <<>>]
  /\ peer' = [peer EXCEPT ![c] = Null]
  /\ consent' = [consent EXCEPT ![c] = Null]
  /\ noHandler

exits(c) == process_ends(c) /\ send(c, [type |-> "EOF"])

quit(c) ==
  /\ at[c] # "off"
  /\ exits(c)
  /\ UNCHANGED crossed

\* A pass of the main loop visits what select() reported, the terminal first.
\* If the command reads the message that the server's socket was reported for,
\* nothing is left when the loop comes to it, and the client takes that for the
\* end of the connection.
stale_report(c) ==
  /\ at[c] = "idle" /\ Len(toClient[c]) = 1
  /\ Head(toClient[c]).type # "ANS_PLAY"
  /\ \E m \in [type : {"REQ_WHO"}] \cup [type : {"REQ_PLAY"}, opponent : Name] :
       toServer' = [toServer EXCEPT ![c] = @ \o <<m, [type |-> "EOF"]>>]
  /\ Len(toServer[c]) < MaxRequests
  /\ process_ends(c)
  /\ crossed' = TRUE
  /\ UNCHANGED late

\* The server is gone and all it has sent is read.  A client at its terminal
\* notices later.
server_closed(c) ==
  /\ server # "running"
  /\ at[c] \notin {"off", "login", "placing"} /\ toClient[c] = <<>>
  /\ exits(c)
  /\ UNCHANGED crossed

---------------------------------------------------------------------------
(* The client: what it reads.                                               *)

\* Mutation: the end of a game is not looked at by who plays.
get_server_message_Deaf(c, m) ==
  \/ /\ at[c] = "idle" /\ m.type = "REQ_PLAY"
     /\ at' = [at EXCEPT ![c] = "asking"]
     /\ peer' = [peer EXCEPT ![c] = m.opponent]
  \/ /\ at[c] \in {"idle", "playing"} /\ m.type = "MSG_ENDGAME"
     /\ UNCHANGED <<at, peer>>

\* The main loop, at the prompt and in a game.
get_server_message(c, m) ==
  \/ /\ at[c] = "idle" /\ m.type = "REQ_PLAY"
     /\ at' = [at EXCEPT ![c] = "asking"]
     /\ peer' = [peer EXCEPT ![c] = m.opponent]
  \/ /\ at[c] = "playing" /\ m.type = "MSG_ENDGAME"
     /\ at' = [at EXCEPT ![c] = "idle"]
     /\ peer' = [peer EXCEPT ![c] = Null]
  \/ /\ <<at[c], m.type>> \in {<<"idle", "MSG_ENDGAME">>, <<"playing", "REQ_PLAY">>}
     /\ UNCHANGED <<at, peer>>

\* A read that blocks.  print_player_list() does not look at the type; the
\* others drop a message of another type and return.
blocked_read(c, m) ==
  \/ /\ at[c] = "wait_login" /\ m.type = "ANS_LOGIN"
     /\ at' = [at EXCEPT ![c] = IF m.response = "LOGIN_OK" THEN "idle" ELSE "login"]
  \/ /\ at[c] = "wait_who"
     /\ at' = [at EXCEPT ![c] = "idle"]
  \/ /\ at[c] \in {"wait_play", "wait_answer"}
     /\ at' = [at EXCEPT ![c] =
                 IF m.type = "ANS_PLAY" /\ m.response = "PLAY_ACCEPT" THEN "placing"
                                                                      ELSE "idle"]

awaited(c) ==
  CASE at[c] = "wait_login"                   -> "ANS_LOGIN"
    [] at[c] = "wait_who"                     -> "ANS_WHO"
    [] at[c] \in {"wait_play", "wait_answer"} -> "ANS_PLAY"

read(c) ==
  /\ toClient[c] # <<>>
  /\ toClient' = [toClient EXCEPT ![c] = Tail(@)]
  /\ LET m == Head(toClient[c]) IN
     \/ get_server_message(c, m) /\ UNCHANGED crossed
     \/ /\ blocked_read(c, m)
        /\ crossed' = (crossed \/ m.type # awaited(c))
        /\ peer' = IF at'[c] = "placing" THEN peer ELSE [peer EXCEPT ![c] = Null]
  /\ consent' = [consent EXCEPT ![c] = Null]
  /\ UNCHANGED <<toServer, late>>
  /\ noHandler

unexpected(c) ==
  /\ at[c] \in {"wait_login", "idle", "playing"}
  /\ toClient[c] # <<>>
  /\ Head(toClient[c]).type \notin
       IF at[c] = "wait_login" THEN {"ANS_LOGIN"} ELSE {"REQ_PLAY", "MSG_ENDGAME"}

\* "Received an invalid message from server."
exit_failure(c) ==
  /\ unexpected(c)
  /\ exits(c)
  /\ UNCHANGED crossed

---------------------------------------------------------------------------
Init ==
  /\ Srv!Init
  /\ toServer = [c \in Client |-> <<>>]
  /\ toClient = [c \in Client |-> <<>>]
  /\ at = [c \in Client |-> "off"]
  /\ peer = [c \in Client |-> Null]
  /\ consent = [c \in Client |-> Null]
  /\ crossed = FALSE
  /\ late = FALSE

user(c) ==
  \/ \E u \in Name : do_login(c, u) \/ send_play_request(c, u)
  \/ print_player_list(c)
  \/ \E accept \in BOOLEAN : answer(c, accept)
  \/ place_ships(c)
  \/ \E disconnected \in BOOLEAN : send_msg_endgame(c, disconnected)
  \/ quit(c)

Stopped ==
  /\ server # "running" /\ \A c \in Client : at[c] = "off"
  /\ UNCHANGED vars

Next ==
  \/ \E c \in Client :
       \/ connect_to_server(c)
       \/ serve(c)
       \/ elapsed(c)
       \/ user(c)
       \/ not_answered(c)
       \/ read(c)
       \/ exit_failure(c)
       \/ server_closed(c)
       \/ stale_report(c)
  \/ shutdown
  \/ Stopped

Spec == Init /\ [][Next]_vars

---------------------------------------------------------------------------
(* Properties.                                                              *)

\* Types of the variables.
TypeOK ==
  /\ Srv!TypeOK
  /\ toServer \in [Client -> Seq(Request)]
  /\ toClient \in [Client -> Seq(Srv!Message)]
  /\ at \in [Client -> Place]
  /\ peer \in [Client -> Name \cup {Null}]
  /\ consent \in [Client -> Name \cup {Null}]
  /\ crossed \in BOOLEAN
  /\ late \in BOOLEAN

\* No two messages have crossed in one of the three ways the programs are not
\* prepared for.
calm == ~crossed /\ ~late /\ ~overlap

\* The main loop of a client ends the process at a message other than REQ_PLAY
\* and MSG_ENDGAME, and do_login() at any but ANS_LOGIN: as long as nothing has
\* crossed, every answer finds its client in the read that waits for it.
NothingInvalid == \A c \in Client : unexpected(c) => ~calm

\* A client that plays has a match at the server, confirmed, against the player
\* it believes to play with, or the end of the game is on its way to it.
GamesAgree ==
  calm /\ server = "running" =>
    \A c \in Client : at[c] \in {"placing", "playing"} =>
      \/ /\ match[c] # Null /\ ~Srv!Awaiting(c)
         /\ username[Srv!Opponent(c)] = peer[c]
      \/ \E i \in DOMAIN toClient[c] : toClient[c][i].type = "MSG_ENDGAME"

waiting(c) == at[c] \in {"wait_login", "wait_who", "wait_play", "wait_answer"}

\* A client blocked in a read, with nothing to read, has a message at the server
\* that is still to be handled or a request that is still open there: both
\* sides never wait for each other.
SomethingComes ==
  calm /\ server = "running" =>
    \A c \in Client : waiting(c) /\ toClient[c] = <<>> =>
      toServer[c] # <<>> \/ Srv!Awaiting(c)

\* An invited client enters a game only if its user accepted the invitation it
\* then plays on.  ask_to_play() says: "Asks the users if he wants to play with
\* <username>".
Consent ==
  [][\A c \in Client :
       at[c] = "wait_answer" /\ at'[c] = "placing" => consent[c] = peer[c]]_vars

\* The same as long as nothing has crossed.
ConsentWhenCalm ==
  [][\A c \in Client :
       calm /\ at[c] = "wait_answer" /\ at'[c] = "placing" => consent[c] = peer[c]]_vars

\* What print_player_list() prints is the list of the players.
WhoShowsPlayers ==
  \A c \in Client :
    at[c] = "wait_who" /\ toClient[c] # <<>> => Head(toClient[c]).type = "ANS_WHO"
=============================================================================
