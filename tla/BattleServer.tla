---------------------------- MODULE BattleServer ----------------------------
(***************************************************************************)
(* battle_server: the handlers of its select loop, over the client table   *)
(* (client_list.c) and the matches (game_client.c).  A step is the whole    *)
(* handling of one event: a connection, a message, an end of file, one      *)
(* elapsed request, a signal.                                               *)
(*                                                                          *)
(* Clients are open-ended: any message may come from any client at any      *)
(* time, except that REQ_LOGIN comes exactly from clients not logged in,    *)
(* because do_login() in battle_client.c leaves its loop at LOGIN_OK and    *)
(* nothing else is sent before that.                                        *)
(*                                                                          *)
(* A struct game_client and the descriptor it holds are one value of        *)
(* Client, free for reuse once the client is removed: a pointer to a freed  *)
(* client is a value of Client outside "connected".  Usernames are classes  *)
(* under strcasecmp().  Time is free: a request may count as elapsed in any *)
(* pass after it was made.                                                  *)
(***************************************************************************)
EXTENDS Naturals, Sequences, FiniteSets

CONSTANTS
  Client,   \* struct game_client objects, each with its connected socket
  Name,     \* usernames valid_username() accepts, up to case
  Match,    \* struct match objects malloc() can return
  Null      \* NULL, the empty username, and freed memory

MatchRecord == [player1 : Client, player2 : Client, awaiting_reply : BOOLEAN]

ASSUME NullAssumption == Null \notin Client \cup Name \cup Match \cup MatchRecord

ASSUME ClientAssumption == IsFiniteSet(Client)

VARIABLES
  server,        \* "running", "exited" after a signal, or "crashed"
  connected,     \* the clients of client_hashtable
  client_list,   \* the clients of the ordered list: those logged in
  logged_count,  \* the counter beside that list
  username,      \* game_client.username, Null while empty
  match,         \* game_client.match
  heap,          \* the struct match objects, Null where not allocated
  sent,          \* messages the last handler sent, in order
  overlap        \* history: a request replaced its sender's own match

vars == <<server, connected, client_list, logged_count, username, match, heap,
          sent, overlap>>

---------------------------------------------------------------------------
(* Messages to clients.                                                    *)

LoginResponse == {"LOGIN_OK", "LOGIN_INVALID_NAME", "LOGIN_NAME_INUSE"}

PlayResponse == {"PLAY_DECLINE", "PLAY_ACCEPT", "PLAY_INVALID_OPPONENT",
                 "PLAY_OPPONENT_IN_GAME", "PLAY_TIMEDOUT"}

WhoPlayer == [username : Name \cup {Null},
              status   : {"PLAYER_IDLE", "PLAYER_AWAITING_REPLY", "PLAYER_IN_GAME"},
              opponent : Name \cup {Null}]

Message ==
       [to : Client, type : {"ANS_LOGIN"}, response : LoginResponse]
  \cup [to : Client, type : {"ANS_WHO"}, players : SUBSET WhoPlayer]
  \cup [to : Client, type : {"REQ_PLAY"}, opponent : Name \cup {Null}]
  \cup [to : Client, type : {"ANS_PLAY"}, response : PlayResponse,
        address : Client \cup {Null}]
  \cup [to : Client, type : {"MSG_ENDGAME"}, disconnected : BOOLEAN]
  \cup [to : Client, type : {"ANS_BADREQ"}]

AnsLogin(c, res) == [to |-> c, type |-> "ANS_LOGIN", response |-> res]

ReqPlay(c, u) == [to |-> c, type |-> "REQ_PLAY", opponent |-> u]

\* The address of the peer travels with PLAY_ACCEPT only; the other answers
\* leave the zero-filled field alone.
AnsPlay(c, res, peer) ==
  [to |-> c, type |-> "ANS_PLAY", response |-> res,
   address |-> IF res = "PLAY_ACCEPT" THEN peer ELSE Null]

Endgame(c, disconnected) ==
  [to |-> c, type |-> "MSG_ENDGAME", disconnected |-> disconnected]

---------------------------------------------------------------------------
(* The client table and the matches.                                       *)

logged_in(c) == username[c] # Null

valid_username(u) == u # Null

get_clients_by_username(u) == {p \in client_list : username[p] = u}

\* Mutation: the name is checked for form only.
unique_username_Unchecked(u) == valid_username(u)

unique_username(u) == get_clients_by_username(u) = {}

Players(m) == {heap[m].player1, heap[m].player2}

Awaiting(c) == match[c] # Null /\ heap[match[c]].awaiting_reply

Opponent(c) ==
  IF c = heap[match[c]].player1 THEN heap[match[c]].player2
                                ELSE heap[match[c]].player1

\* A handler that sends to a player of c's match reads the player's socket,
\* and dump_message() looks the socket up.
PlayersAlive(c) == Players(match[c]) \subseteq connected

login_client(c, u) ==
  /\ username' = [username EXCEPT ![c] = u]
  /\ client_list' = client_list \cup {c}
  /\ logged_count' = logged_count + 1

\* Mutation: the counter is decremented for clients that never logged in.
remove_client_AlwaysCounts(c) ==
  /\ client_list' = client_list \ {c}
  /\ logged_count' = logged_count - 1
  /\ username' = [username EXCEPT ![c] = Null]
  /\ connected' = connected \ {c}

\* Mutation: the counter is left alone.
remove_client_NeverCounts(c) ==
  /\ client_list' = client_list \ {c}
  /\ username' = [username EXCEPT ![c] = Null]
  /\ connected' = connected \ {c}
  /\ UNCHANGED logged_count

remove_client(c) ==
  /\ client_list' = client_list \ {c}
  /\ logged_count' = IF logged_in(c) THEN logged_count - 1 ELSE logged_count
  /\ username' = [username EXCEPT ![c] = Null]
  /\ connected' = connected \ {c}

add_match(p1, p2) ==
  \E m \in Match :
    /\ heap[m] = Null
    /\ heap' = [heap EXCEPT ![m] = [player1 |-> p1, player2 |-> p2,
                                    awaiting_reply |-> TRUE]]
    /\ match' = [match EXCEPT ![p1] = m, ![p2] = m]

\* Mutation: the invited player keeps the pointer.
delete_match_OneSided(m) ==
  /\ match' = [match EXCEPT ![heap[m].player1] = Null]
  /\ heap' = [heap EXCEPT ![m] = Null]

delete_match(m) ==
  /\ match' = [match EXCEPT ![heap[m].player1] = Null, ![heap[m].player2] = Null]
  /\ heap' = [heap EXCEPT ![m] = Null]

---------------------------------------------------------------------------
(* Connections and logins.                                                 *)

accept_connection(c) ==
  /\ c \notin connected
  /\ connected' = connected \cup {c}
  /\ username' = [username EXCEPT ![c] = Null]
  /\ match' = [match EXCEPT ![c] = Null]
  /\ sent' = <<>>
  /\ UNCHANGED <<server, client_list, logged_count, heap, overlap>>

do_login(c, u) ==
  /\ UNCHANGED <<server, connected, match, heap, overlap>>
  /\ \/ /\ ~valid_username(u)
        /\ sent' = <<AnsLogin(c, "LOGIN_INVALID_NAME")>>
        /\ UNCHANGED <<client_list, logged_count, username>>
     \/ /\ valid_username(u)
        /\ ~unique_username(u)
        /\ sent' = <<AnsLogin(c, "LOGIN_NAME_INUSE")>>
        /\ UNCHANGED <<client_list, logged_count, username>>
     \/ /\ valid_username(u)
        /\ unique_username(u)
        /\ login_client(c, u)
        /\ sent' = <<AnsLogin(c, "LOGIN_OK")>>

---------------------------------------------------------------------------
(* !who.                                                                   *)

\* Mutation: the opponent shown is always the player who was invited.
WhoRow_Invited(p) ==
  [username |-> username[p],
   status   |-> IF match[p] = Null THEN "PLAYER_IDLE"
                ELSE IF heap[match[p]].awaiting_reply THEN "PLAYER_AWAITING_REPLY"
                ELSE "PLAYER_IN_GAME",
   opponent |-> IF match[p] = Null THEN Null ELSE username[heap[match[p]].player2]]

WhoRow(p) ==
  [username |-> username[p],
   status   |-> IF match[p] = Null THEN "PLAYER_IDLE"
                ELSE IF heap[match[p]].awaiting_reply THEN "PLAYER_AWAITING_REPLY"
                ELSE "PLAYER_IN_GAME",
   opponent |-> IF match[p] = Null THEN Null ELSE username[Opponent(p)]]

send_client_list(c) ==
  /\ sent' = <<[to |-> c, type |-> "ANS_WHO",
                players |-> {WhoRow(p) : p \in client_list \ {c}}]>>
  /\ UNCHANGED <<server, connected, client_list, logged_count, username,
                 match, heap, overlap>>

---------------------------------------------------------------------------
(* !connect, its answer, and the end of a match.                           *)

\* Mutation: only a game under way makes a player busy.
busy_IfPlaying(p) == match[p] # Null /\ ~heap[match[p]].awaiting_reply

busy(p) == match[p] # Null

process_play_request(c, u) ==
  LET found == get_clients_by_username(u) IN
  /\ UNCHANGED <<server, connected, client_list, logged_count, username>>
  /\ \/ /\ found \subseteq {c}
        /\ sent' = <<AnsPlay(c, "PLAY_INVALID_OPPONENT", c)>>
        /\ UNCHANGED <<match, heap, overlap>>
     \/ \E opponent \in found \ {c} :
          /\ busy(opponent)
          /\ sent' = <<AnsPlay(c, "PLAY_OPPONENT_IN_GAME", c)>>
          /\ UNCHANGED <<match, heap, overlap>>
     \/ \E opponent \in found \ {c} :
          /\ ~busy(opponent)
          /\ add_match(c, opponent)
          /\ sent' = <<ReqPlay(opponent, username[c])>>
          /\ overlap' = (overlap \/ match[c] # Null)

\* No match, or the answer comes from the player who asked: the handler returns.
answer_ignored(c) == match[c] # Null => c = heap[match[c]].player1

\* Mutation: a refused request starts the game.
process_play_req_answer_AlwaysYes(c, accept) ==
  /\ UNCHANGED <<server, connected, client_list, logged_count, username, match,
                 overlap>>
  /\ ~answer_ignored(c) /\ PlayersAlive(c)
  /\ LET m == match[c] IN
     /\ sent' = <<AnsPlay(heap[m].player1, "PLAY_ACCEPT", heap[m].player2),
                  AnsPlay(heap[m].player2, "PLAY_ACCEPT", heap[m].player1)>>
     /\ heap' = [heap EXCEPT ![m].awaiting_reply = FALSE]

process_play_req_answer(c, accept) ==
  LET m   == match[c]
      res == IF accept THEN "PLAY_ACCEPT" ELSE "PLAY_DECLINE" IN
  /\ UNCHANGED <<server, connected, client_list, logged_count, username, overlap>>
  /\ \/ /\ answer_ignored(c)
        /\ sent' = <<>>
        /\ UNCHANGED <<match, heap>>
     \/ /\ ~answer_ignored(c)
        /\ PlayersAlive(c)
        /\ sent' = <<AnsPlay(heap[m].player1, res, heap[m].player2),
                     AnsPlay(heap[m].player2, res, heap[m].player1)>>
        /\ IF accept
           THEN /\ heap' = [heap EXCEPT ![m].awaiting_reply = FALSE]
                /\ UNCHANGED match
           ELSE delete_match(m)

\* Mutation: a request that was never answered ends like a game.
EndMessage_NeverAwaiting(c, disconnected) == Endgame(Opponent(c), disconnected)

\* What the other player of c's match is told.
EndMessage(c, disconnected) ==
  IF Awaiting(c)
  THEN AnsPlay(Opponent(c), IF c = heap[match[c]].player1 THEN "PLAY_TIMEDOUT"
                                                          ELSE "PLAY_DECLINE", c)
  ELSE Endgame(Opponent(c), disconnected)

terminate_match(c, disconnected) ==
  \/ /\ match[c] = Null
     /\ sent' = <<>>
     /\ UNCHANGED <<match, heap>>
  \/ /\ match[c] # Null
     /\ PlayersAlive(c)
     /\ sent' = <<EndMessage(c, disconnected)>>
     /\ delete_match(match[c])

process_endgame(c, disconnected) ==
  /\ terminate_match(c, disconnected)
  /\ UNCHANGED <<server, connected, client_list, logged_count, username, overlap>>

send_ans_badreq(c) ==
  /\ sent' = <<[to |-> c, type |-> "ANS_BADREQ"]>>
  /\ UNCHANGED <<server, connected, client_list, logged_count, username, match,
                 heap, overlap>>

dispatch_message(c) ==
  \/ /\ ~logged_in(c)
     /\ \E u \in Name \cup {Null} : do_login(c, u)
  \/ /\ logged_in(c)
     /\ \/ send_client_list(c)
        \/ \E u \in Name : process_play_request(c, u)
        \/ \E accept \in BOOLEAN : process_play_req_answer(c, accept)
        \/ \E disconnected \in BOOLEAN : process_endgame(c, disconnected)
        \/ send_ans_badreq(c)

---------------------------------------------------------------------------
(* The rest of the select loop.                                            *)

\* Mutation: the match of who disconnects is left alone.
close_client_MatchKept(c) ==
  /\ sent' = <<>>
  /\ remove_client(c)
  /\ UNCHANGED <<server, overlap, match, heap>>

\* CLOSE_CLIENT, at end of file or after a malformed message.
close_client(c) ==
  /\ terminate_match(c, TRUE)
  /\ remove_client(c)
  /\ UNCHANGED <<server, overlap>>

\* Mutation: the players are told, the match stays.
remove_elapsed_match_Kept(c) ==
  LET m == match[c] IN
  /\ c \in client_list
  /\ Awaiting(c)
  /\ PlayersAlive(c)
  /\ sent' = <<AnsPlay(heap[m].player2, "PLAY_TIMEDOUT", heap[m].player1),
               AnsPlay(heap[m].player1, "PLAY_TIMEDOUT", heap[m].player2)>>
  /\ UNCHANGED <<server, connected, client_list, logged_count, username, match,
                 heap, overlap>>

\* Mutation: only the player who asked is told.
remove_elapsed_match_AskerOnly(c) ==
  /\ c \in client_list
  /\ Awaiting(c)
  /\ PlayersAlive(c)
  /\ sent' = <<AnsPlay(heap[match[c]].player1, "PLAY_TIMEDOUT",
                       heap[match[c]].player2)>>
  /\ delete_match(match[c])
  /\ UNCHANGED <<server, connected, client_list, logged_count, username, overlap>>

\* One turn of the loop in remove_elapsed_matches(), for a client whose
\* request has been waiting for PLAY_REQUEST_TIMEOUT seconds.
remove_elapsed_match(c) ==
  LET m == match[c] IN
  /\ c \in client_list
  /\ Awaiting(c)
  /\ PlayersAlive(c)
  /\ sent' = <<AnsPlay(heap[m].player2, "PLAY_TIMEDOUT", heap[m].player1),
               AnsPlay(heap[m].player1, "PLAY_TIMEDOUT", heap[m].player2)>>
  /\ delete_match(m)
  /\ UNCHANGED <<server, connected, client_list, logged_count, username, overlap>>

\* The handler would send to a player whose client object was freed: the
\* socket it reads there is in no table, get_client_by_socket() returns NULL
\* and dump_message() passes that to logged_in().  What a handler with two
\* sends wrote before that is not kept.
stale_player_access(c) ==
  /\ match[c] # Null
  /\ ~PlayersAlive(c)
  /\ server' = "crashed"
  /\ sent' = <<>>
  /\ UNCHANGED <<connected, client_list, logged_count, username, match, heap,
                 overlap>>

\* A signal: client_list_destroy(), close_range(), and main() returns.
shutdown ==
  /\ server' = "exited"
  /\ connected' = {}
  /\ client_list' = {}
  /\ logged_count' = 0
  /\ username' = [c \in Client |-> Null]
  /\ match' = [c \in Client |-> Null]
  /\ heap' = [m \in Match |-> Null]
  /\ sent' = <<>>
  /\ UNCHANGED overlap

Stopped == server # "running" /\ UNCHANGED vars

Init ==
  /\ server = "running"
  /\ connected = {}
  /\ client_list = {}
  /\ logged_count = 0
  /\ username = [c \in Client |-> Null]
  /\ match = [c \in Client |-> Null]
  /\ heap = [m \in Match |-> Null]
  /\ sent = <<>>
  /\ overlap = FALSE

Handle(c) ==
  \/ accept_connection(c)
  \/ /\ c \in connected
     /\ \/ dispatch_message(c)
        \/ close_client(c)
        \/ remove_elapsed_match(c)
        \/ stale_player_access(c)

\* The handling of the message m of c, or of the end of its stream: what a step
\* of Handle is when the messages of the clients are kept in channels.
receive(c, m) ==
  \/ m.type = "REQ_LOGIN" /\ do_login(c, m.username)
  \/ m.type = "REQ_WHO" /\ send_client_list(c)
  \/ m.type = "REQ_PLAY" /\ process_play_request(c, m.opponent)
  \/ m.type = "REQ_PLAY_ANS" /\ process_play_req_answer(c, m.accept)
  \/ m.type = "MSG_ENDGAME" /\ process_endgame(c, m.disconnected)
  \/ m.type = "EOF" /\ close_client(c)
  \/ /\ m.type \in {"REQ_PLAY_ANS", "MSG_ENDGAME", "EOF"}
     /\ m.type = "REQ_PLAY_ANS" => ~answer_ignored(c)
     /\ stale_player_access(c)

go_server ==
  /\ server = "running"
  /\ \/ \E c \in Client : Handle(c)
     \/ shutdown

Next == go_server \/ Stopped

Spec == Init /\ [][Next]_vars

\* What remove_elapsed_matches() does for a client whose request is open, once
\* PLAY_REQUEST_TIMEOUT has passed.
elapsed(c) ==
  /\ server = "running"
  /\ \/ remove_elapsed_match(c)
     \/ Awaiting(c) /\ stale_player_access(c)

\* select() returns at the latest after SELECT_TIMEOUT_SECONDS, and every
\* return runs remove_elapsed_matches() over the whole list.
Fairness == \A c \in Client : WF_vars(elapsed(c))

FairSpec == Spec /\ Fairness

---------------------------------------------------------------------------
(* Properties.                                                             *)

\* Types of the variables.
TypeOK ==
  /\ server \in {"running", "exited", "crashed"}
  /\ connected \subseteq Client
  /\ client_list \subseteq Client
  /\ logged_count \in Nat
  /\ username \in [Client -> Name \cup {Null}]
  /\ match \in [Client -> Match \cup {Null}]
  /\ heap \in [Match -> MatchRecord \cup {Null}]
  /\ sent \in Seq(Message)
  /\ overlap \in BOOLEAN

\* A connected client's match pointer leads to an allocated match that has
\* this client as one of its two distinct players: every free() of a match
\* in delete_match() is preceded by clearing every pointer to it, even when
\* requests have overlapped.
OwnMatch ==
  \A c \in connected : match[c] # Null =>
    /\ heap[match[c]] # Null
    /\ c \in Players(match[c])
    /\ heap[match[c]].player1 # heap[match[c]].player2

\* As long as no client sent a request while the server had it in a match
\* already, each match has both its players logged in and pointing to it, and
\* no handler touches a freed client: the only way to break the table is the
\* missing test of client->match in process_play_request().
MatchIntegrity ==
  ~overlap =>
    /\ server # "crashed"
    /\ \A m \in Match : heap[m] # Null =>
         /\ Players(m) \subseteq client_list
         /\ \A p \in Players(m) : match[p] = m

\* The list holds exactly the connected clients that have a name, and no two
\* of them have the same one.
LoginTable ==
  /\ client_list = {c \in connected : logged_in(c)}
  /\ \A c, d \in client_list : username[c] = username[d] => c = d

\* The counter is the length of the list: send_client_list() allocates its
\* array from the one and fills it by walking the other.
LoggedCountExact == logged_count = Cardinality(client_list)

\* What !who shows is consistent: a player shown with an opponent is shown, in
\* the opponent's row, as that player's opponent and with the same status
\* (the asker has no row).
WhoSymmetric ==
  ~overlap =>
    \A k \in DOMAIN sent : sent[k].type = "ANS_WHO" =>
      \A r \in sent[k].players : r.status # "PLAYER_IDLE" =>
        \/ r.opponent = username[sent[k].to]
        \/ \E q \in sent[k].players : /\ q.username = r.opponent
                                      /\ q.opponent = r.username
                                      /\ q.status = r.status

\* Whenever a match is deleted while the server runs, all its players that
\* remain connected are told, except at most the one whose message or
\* disconnection ended it; and a player who still waits for the answer to a
\* request is told by the ANS_PLAY its client is blocked on.
PlayersInformed ==
  [][\A m \in Match :
       (heap[m] # Null /\ heap'[m] = Null /\ server' = "running") =>
         \E actor \in Players(m) : \A p \in Players(m) \ {actor} :
           p \in connected' =>
             \E k \in DOMAIN sent' :
               /\ sent'[k].to = p
               /\ \/ sent'[k].type = "ANS_PLAY"
                  \/ sent'[k].type = "MSG_ENDGAME" /\ ~heap[m].awaiting_reply]_vars

\* The matches as the abstract specification of the server sees them.
Matches == {m \in Match : heap[m] # Null}

entry(m) == [asker |-> heap[m].player1, invited |-> heap[m].player2,
             awaiting |-> heap[m].awaiting_reply]

Entries == {entry(m) : m \in Matches}

Book == INSTANCE MatchBook WITH
          Player <- Client, present <- client_list, book <- Entries

\* Until a request replaces its sender's own match, every handler does to the
\* book of matches what MatchBook allows, and nothing more: a request enters
\* only between two free players who are present, who disconnects takes the
\* match along in the same step, and no handler touches two matches.
KeepsBook == Book!Init /\ [][overlap' \/ Book!Next]_Book!vars

\* When a client disconnects its match is deleted and the opponent informed,
\* so no connected client is left in a match with one that is gone: what the
\* comment of terminate_match() says of the program.
NoOrphan ==
  \A c \in connected : match[c] # Null => PlayersAlive(c)

\* A request does not stay open: every client that waits for a reply, or is
\* being asked, is released by an answer, a disconnection or the timeout,
\* even after requests have overlapped.
RequestResolved ==
  \A c \in Client : Awaiting(c) ~> (server # "running" \/ ~Awaiting(c))
=============================================================================
