----------------------------- MODULE ClientLoop -----------------------------
(***************************************************************************)
(* The main loop of battle_client, wait_for_input(), with everything that   *)
(* can make it wait: select(), the reads of one message, the prompt for an  *)
(* invitation, the placing of the ships, and flush_stdin().  One client,    *)
(* "me", which has logged in, is followed step by step; it is composed with *)
(* BattleServer, where the other clients are open-ended.                    *)
(*                                                                          *)
(* The terminal is a number of typed lines: what a line says is chosen when *)
(* it is read.  Messages to the client are told apart by their type, an     *)
(* ANS_PLAY by its response.  In a game it is the client's turn or not; the *)
(* moves are the subject of Duel.  A signal interrupts a system call that   *)
(* blocks, or comes at any other moment and is only noted.                  *)
(***************************************************************************)
EXTENDS Naturals, Sequences, FiniteSets

CONSTANTS
  Client, Name, Match, Null,  \* as in BattleServer
  me,          \* the client that is followed
  MaxRequests, \* bound on its messages that wait for the server
  MaxQueue,    \* bound on the messages that wait for it
  MaxTyped     \* bound on the typed lines that wait for it

ASSUME MeAssumption == me \in Client

ASSUME ClientAssumption == IsFiniteSet(Client)

ASSUME NameAssumption == Name # {}

ASSUME NullAssumption ==
  Null \notin Client \cup Name \cup Match
           \cup [player1 : Client, player2 : Client, awaiting_reply : BOOLEAN]

ASSUME BoundAssumption == {MaxRequests, MaxQueue, MaxTyped} \subseteq Nat

VARIABLES
  server, connected, client_list, logged_count, username, match, heap, sent,
  overlap,    \* as in BattleServer
  toServer,   \* messages from me
  toClient,   \* messages to me
  at,         \* where the process is
  status,     \* game.status
  tty,        \* lines on the terminal
  datagram,   \* one waits at game_sock
  report,     \* _readfds: what the pass has still to visit
  received_signal,
  quiet,      \* in a game, IN_GAME_TIMEOUT has passed since last_input
  why,        \* how the process ended
  crossed     \* history: messages were on their way in both directions

Srv == INSTANCE BattleServer

wires == <<toServer, toClient, crossed>>

vars == <<server, connected, client_list, logged_count, username, match, heap,
          sent, overlap, toServer, toClient, at, status, tty, datagram, report,
          received_signal, quiet, why, crossed>>

Place == {"top", "select", "pass", "who", "connect", "answer", "asking",
          "replying", "placing", "flush", "flush_placing", "ended"}

\* Reads of one message that block.
Reading == {"who", "connect", "answer"}

kind(m) == IF m.type = "ANS_PLAY" THEN m.response ELSE m.type

\* What me sends, and what is sent to it.
Request ==
       [type : {"REQ_WHO"}] \cup [type : {"REQ_PLAY"}, opponent : Name]
  \cup [type : {"REQ_PLAY_ANS"}, accept : BOOLEAN]
  \cup [type : {"MSG_ENDGAME"}, disconnected : BOOLEAN]

Kind == {"ANS_WHO", "REQ_PLAY", "MSG_ENDGAME"} \cup Srv!PlayResponse

---------------------------------------------------------------------------
(* The server, the users and the time.                                      *)

noHandler ==
  /\ sent' = <<>>
  /\ UNCHANGED <<server, connected, client_list, logged_count, username, match,
                 heap, overlap>>

cross == crossed' = (crossed \/ (toServer' # <<>> /\ toClient' # <<>>))

\* Mutation: messages for the others come as well.
for_me_All(m) == TRUE

for_me(m) == m.to = me

\* The kinds of the messages of s to me.
mail(s) ==
  LET f[k \in 0 .. Len(s)] ==
        IF k = 0 THEN <<>>
        ELSE IF for_me(s[k]) THEN Append(f[k - 1], kind(s[k])) ELSE f[k - 1]
  IN f[Len(s)]

deliver ==
  /\ toClient' = toClient \o mail(sent')
  /\ Len(toClient') <= MaxQueue
  /\ cross

process == <<at, status, tty, datagram, report, received_signal, quiet, why>>

serve ==
  /\ server = "running"
  /\ toServer # <<>>
  /\ Srv!receive(me, Head(toServer))
  /\ toServer' = Tail(toServer)
  /\ deliver
  /\ UNCHANGED process

\* The other clients may do anything, but answer an invitation once.  Left out is
\* what changes nothing: the lists they ask for, and what they are refused.
others ==
  /\ server = "running"
  /\ \E c \in Client \ {me} :
       /\ Srv!Handle(c)
       /\ <<server, connected, client_list, heap>>' # <<server, connected, client_list, heap>>
       /\ (\E k \in DOMAIN sent' : sent'[k].to = me /\ sent'[k].type = "ANS_PLAY")
            => Srv!Awaiting(c)
  /\ UNCHANGED <<toServer, process>>
  /\ deliver

elapsed ==
  /\ Srv!elapsed(me)
  /\ UNCHANGED <<toServer, process>>
  /\ deliver

shutdown ==
  /\ server = "running"
  /\ Srv!shutdown
  /\ UNCHANGED <<wires, process>>

types ==
  /\ at # "ended" /\ tty < MaxTyped
  /\ tty' = tty + 1
  /\ UNCHANGED <<wires, at, status, datagram, report, received_signal, quiet, why>>
  /\ noHandler

\* An opponent has the address of the client from the acceptance on.
opponent_sends ==
  /\ at # "ended" /\ ~datagram
  /\ status # "disconnected" \/ (match[me] # Null /\ ~Srv!Awaiting(me))
  /\ datagram' = TRUE
  /\ UNCHANGED <<wires, at, status, tty, report, received_signal, quiet, why>>
  /\ noHandler

\* Only the time spent in the loop counts: what reads the terminal sets
\* last_input when it is done.
time_passes ==
  /\ at \in {"top", "select", "pass"} /\ status # "disconnected" /\ ~quiet
  /\ quiet' = TRUE
  /\ UNCHANGED <<wires, at, status, tty, datagram, report, received_signal, why>>
  /\ noHandler

---------------------------------------------------------------------------
(* What a step of the client is made of.                                    *)

go(p) == at' = p /\ UNCHANGED why

ends(reason) == at' = "ended" /\ why' = reason

unread == UNCHANGED <<toServer, toClient, crossed>>

send(m) ==
  /\ Len(toServer) < MaxRequests
  /\ toServer' = Append(toServer, m)
  /\ UNCHANGED toClient
  /\ cross

\* write_socket() fails only once the server is gone.
ask(m, p) ==
  \/ send(m) /\ go(p)
  \/ server # "running" /\ unread /\ go("pass")

sends_endgame(disconnected) ==
  \/ send([type |-> "MSG_ENDGAME", disconnected |-> disconnected])
  \/ server # "running" /\ unread

server_readable == toClient # <<>> \/ server # "running"

readable ==
  {f \in {"stdin", "server", "game"} :
     CASE f = "stdin"  -> tty > 0
       [] f = "server" -> server_readable
       [] f = "game"   -> datagram}

---------------------------------------------------------------------------
(* The loop.                                                                *)

\* Mutation: the flag is not looked at.
test_signal_Missing ==
  /\ at = "top"
  /\ go("select")
  /\ UNCHANGED <<wires, status, tty, datagram, report, received_signal, quiet>>
  /\ noHandler

test_signal ==
  /\ at = "top"
  /\ IF received_signal THEN ends("signal") ELSE go("select")
  /\ UNCHANGED <<wires, status, tty, datagram, report, received_signal, quiet>>
  /\ noHandler

select ==
  /\ at = "select" /\ readable # {}
  /\ report' = readable
  /\ go("pass")
  /\ UNCHANGED <<wires, status, tty, datagram, received_signal, quiet>>
  /\ noHandler

\* Mutation: select() has no timeout.
select_timeout_Never == FALSE /\ UNCHANGED vars

\* Nothing became readable for SELECT_TIMEOUT_SECONDS; at the prompt of the lobby
\* select() has no timeout.
select_timeout ==
  /\ at = "select" /\ readable = {} /\ status # "disconnected"
  /\ IF quiet
     THEN /\ sends_endgame(TRUE)
          /\ status' = "disconnected"
     ELSE unread /\ UNCHANGED status
  /\ go("top") /\ quiet' = FALSE
  /\ UNCHANGED <<tty, datagram, report, received_signal>>
  /\ noHandler

pass_ends ==
  /\ at = "pass" /\ report = {}
  /\ go("top")
  /\ UNCHANGED <<wires, status, tty, datagram, report, received_signal, quiet>>
  /\ noHandler

process_std_command ==
  /\ status = "disconnected"
  /\ UNCHANGED status
  /\ \/ ask([type |-> "REQ_WHO"], "who")
     \/ \E u \in Name : ask([type |-> "REQ_PLAY", opponent |-> u], "connect")
     \/ unread /\ ends("quit")

process_game_command ==
  /\ status = "my_turn"
  /\ go("pass")
  /\ \/ unread /\ status' = "other"
     \/ sends_endgame(TRUE) /\ status' = "disconnected"

\* A line of the terminal: a command, or nothing that changes anything.  When it
\* is not the player's turn a command is followed by flush_stdin().
process_command ==
  /\ at = "pass" /\ "stdin" \in report /\ tty > 0
  /\ tty' = tty - 1
  /\ report' = report \ {"stdin"}
  /\ quiet' = FALSE
  /\ \/ unread /\ go("pass") /\ UNCHANGED status
     \/ process_std_command
     \/ process_game_command
     \/ status = "other" /\ unread /\ go("flush") /\ UNCHANGED status
  /\ UNCHANGED <<datagram, received_signal>>
  /\ noHandler

\* flush_stdin() ends with the next line that is typed, and drops it.
flush_stdin ==
  /\ at \in {"flush", "flush_placing"} /\ tty > 0
  /\ tty' = tty - 1
  /\ quiet' = FALSE
  /\ go(IF at = "flush" THEN "pass" ELSE "placing")
  /\ UNCHANGED <<wires, status, datagram, report, received_signal>>
  /\ noHandler

reads == toClient' = Tail(toClient) /\ UNCHANGED <<toServer, crossed>>

\* server_sock was reported.  That no byte is available is taken for the end of
\* the connection.
get_server_message ==
  /\ at = "pass" /\ "server" \in report /\ "stdin" \notin report
  /\ report' = report \ {"server"}
  /\ IF toClient = <<>>
     THEN unread /\ ends("closed") /\ UNCHANGED <<status, quiet>>
     ELSE /\ reads
          /\ CASE Head(toClient) = "REQ_PLAY" ->
                    /\ go(IF status = "disconnected" THEN "asking" ELSE "pass")
                    /\ UNCHANGED <<status, quiet>>
               [] Head(toClient) = "MSG_ENDGAME" ->
                    go("pass") /\ status' = "disconnected" /\ quiet' = FALSE
               [] OTHER -> ends("invalid") /\ UNCHANGED <<status, quiet>>
  /\ UNCHANGED <<tty, datagram, received_signal>>
  /\ noHandler

\* game_sock was reported.  In a game the message is a move, the move that loses
\* it, or wrong; otherwise it is dropped.
get_opponent_message ==
  /\ at = "pass" /\ "game" \in report /\ report \cap {"stdin", "server"} = {}
  /\ report' = {}
  /\ datagram' = FALSE
  /\ IF status = "disconnected"
     THEN unread /\ go("pass") /\ UNCHANGED <<status, quiet>>
     ELSE \/ unread /\ go("pass") /\ quiet' = FALSE /\ status' \in {"my_turn", "other"}
          \/ sends_endgame(FALSE) /\ go("pass") /\ quiet' = FALSE
                                  /\ status' = "disconnected"
          \/ sends_endgame(TRUE) /\ ends("wrong") /\ status' = "disconnected"
                                 /\ UNCHANGED quiet
  /\ UNCHANGED <<tty, received_signal>>
  /\ noHandler

---------------------------------------------------------------------------
(* Outside of the loop.                                                     *)

\* print_player_list(), send_play_request() and process_play_request() in their
\* read: the game starts, or they return.  A closed connection is an error.
blocked_read ==
  /\ at \in Reading /\ server_readable
  /\ IF toClient = <<>>
     THEN unread /\ go("pass") /\ UNCHANGED status
     ELSE /\ reads
          /\ IF at # "who" /\ Head(toClient) = "PLAY_ACCEPT"
             THEN go("placing") /\ status' = "other"
             ELSE go("pass") /\ UNCHANGED status
  /\ UNCHANGED <<tty, datagram, report, received_signal, quiet>>
  /\ noHandler

\* Mutation: what the server says is left for the main loop.
not_answered_Unread ==
  /\ at = "asking" /\ server_readable
  /\ go("pass") /\ unread
  /\ UNCHANGED <<status, tty, datagram, report, received_signal, quiet>>
  /\ noHandler

\* Mutation: the question is repeated.
not_answered_AsksAgain == at = "asking" /\ server_readable /\ UNCHANGED vars

\* ask_to_play(): the server has something to say, or is gone.
not_answered ==
  /\ at = "asking" /\ server_readable
  /\ IF toClient = <<>> THEN ends("closed") ELSE go("answer")
  /\ unread
  /\ UNCHANGED <<status, tty, datagram, report, received_signal, quiet>>
  /\ noHandler

\* The line that is taken for the answer may have been typed before the question.
\* Another is asked for if it says neither.
get_character ==
  /\ at = "asking" /\ tty > 0 /\ ~server_readable
  /\ tty' = tty - 1
  /\ unread /\ (go("asking") \/ go("replying"))
  /\ UNCHANGED <<status, datagram, report, received_signal, quiet>>
  /\ noHandler

\* The answer is not sent if the server has something to say meanwhile.
replies ==
  /\ at = "replying"
  /\ IF toClient = <<>>
     THEN \E accept \in BOOLEAN : ask([type |-> "REQ_PLAY_ANS", accept |-> accept], "answer")
     ELSE unread /\ go("answer")
  /\ UNCHANGED <<status, tty, datagram, report, received_signal, quiet>>
  /\ noHandler

\* One line of place_ships(): another is needed, or MSG_READY is sent.
place_ships ==
  /\ at = "placing" /\ tty > 0
  /\ tty' = tty - 1
  /\ \/ go("placing") /\ UNCHANGED quiet
     \/ go("pass") /\ quiet' = FALSE
  /\ UNCHANGED <<wires, status, datagram, report, received_signal>>
  /\ noHandler

\* A signal that interrupts the call the process blocks in: select() is not
\* repeated, a read fails, and fgets() leaves the line before in the buffer of
\* place_ships(), which get_line() then takes for a part of a longer one.
interrupted ==
  /\ \/ at = "select" /\ readable = {} /\ ends("signal")
     \/ at = "asking" /\ readable \ {"game"} = {} /\ ends("signal")
     \/ at \in Reading /\ ~server_readable /\ go("pass")
     \/ at = "flush" /\ tty = 0 /\ go("pass")
     \/ at = "placing" /\ tty = 0 /\ go("flush_placing")
     \/ at = "flush_placing" /\ tty = 0 /\ go("placing")
  /\ received_signal' = TRUE
  /\ UNCHANGED <<wires, status, tty, datagram, report, quiet>>
  /\ noHandler

\* A signal at any other moment, just before such a call among them.
signal ==
  /\ at # "ended" /\ ~received_signal
  /\ received_signal' = TRUE
  /\ UNCHANGED <<wires, at, status, tty, datagram, report, quiet, why>>
  /\ noHandler

---------------------------------------------------------------------------
\* After do_login(): the server knows the client by a name, and it does not matter
\* by which.
Init ==
  /\ server = "running"
  /\ connected = {me} /\ client_list = {me} /\ logged_count = 1
  /\ username = [c \in Client |-> IF c = me THEN CHOOSE u \in Name : TRUE ELSE Null]
  /\ match = [c \in Client |-> Null]
  /\ heap = [m \in Match |-> Null]
  /\ sent = <<>>
  /\ overlap = FALSE
  /\ toServer = <<>> /\ toClient = <<>>
  /\ at = "top" /\ status = "disconnected"
  /\ tty = 0
  /\ datagram = FALSE
  /\ report = {}
  /\ received_signal = FALSE
  /\ quiet = FALSE
  /\ why = "running"
  /\ crossed = FALSE

\* What the process does by itself.
client ==
  \/ test_signal \/ select \/ select_timeout \/ pass_ends
  \/ process_command \/ flush_stdin
  \/ get_server_message \/ get_opponent_message
  \/ blocked_read \/ not_answered \/ get_character \/ replies
  \/ place_ships

Ended == at = "ended" /\ UNCHANGED vars

Next ==
  \/ at # "ended" /\ (serve \/ others \/ elapsed \/ shutdown)
  \/ types \/ opponent_sends \/ time_passes \/ interrupted \/ signal
  \/ client
  \/ Ended

Spec == Init /\ [][Next]_vars

\* The process runs, and the server serves what is readable and what has elapsed
\* (strongly fair, because only MaxQueue disables that in between); time passes.
\* Users, opponents and signals owe nothing.
FairSpec ==
  /\ Spec
  /\ WF_vars(client) /\ WF_vars(time_passes)
  /\ SF_vars(serve) /\ SF_vars(elapsed)

---------------------------------------------------------------------------
(* Properties.                                                              *)

\* Types of the variables.
TypeOK ==
  /\ Srv!TypeOK
  /\ toServer \in Seq(Request) /\ toClient \in Seq(Kind)
  /\ at \in Place
  /\ status \in {"disconnected", "my_turn", "other"}
  /\ tty \in 0 .. MaxTyped
  /\ report \subseteq {"stdin", "server", "game"}
  /\ {datagram, received_signal, quiet, crossed} \subseteq BOOLEAN
  /\ why \in {"running", "signal", "quit", "closed", "invalid", "wrong"}

\* The client reports a closed connection only when the server has closed it, and
\* an invalid message never, as long as no message of the server has been on its
\* way together with one of the client: the report of select() is not older
\* than the reads of the commands of the same pass.
EndsWithCause ==
  ~crossed => /\ why # "invalid"
              /\ why = "closed" => server # "running"

\* The client depends on its user: on a line, and on a line that will do.
AtUser ==
  \/ at \in {"placing", "flush", "flush_placing"}
  \/ at = "asking" /\ ~server_readable
  \/ at = "select" /\ status = "disconnected" /\ readable = {}

\* The end of the server ends the client, unless it waits for a line outside its
\* two calls of select(); and a read that blocks is over in the end, unless
\* messages have crossed.
ServerHeard ==
  /\ (server # "running") ~> (at = "ended" \/ AtUser)
  /\ (at \in Reading) ~> (at \notin Reading \/ crossed)

\* A player who is silent, and hears nothing from the opponent, leaves the game,
\* unless the client waits for a line outside the loop.
IdleLeaves ==
  (status # "disconnected") ~>
    (status = "disconnected" \/ at = "ended" \/ tty > 0 \/ datagram \/ AtUser)

\* A signal ends the client, also one that interrupts nothing, unless the client
\* waits for a line, or in the lobby for anything: then it is noticed after.  Or
\* unless it is blocked in a read for good, because messages have crossed.
SignalEnds ==
  received_signal ~> (at = "ended" \/ AtUser \/ (crossed /\ at \in Reading))

\* flush_stdin(): "The caller must be sure that something is in the buffer, or the
\* function will stuck on getchar() call."
FlushHasInput == at = "flush" => tty > 0
=============================================================================
