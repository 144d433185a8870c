------------------------- MODULE BattleServerProofs -------------------------
(***************************************************************************)
(* Proofs about BattleServer, for any number of clients, names and match    *)
(* objects.  The four parts of Inv need each other: the handlers go through *)
(* the match pointer (OwnMatch) to find the players they write to (TypeOK), *)
(* and the counter stays a natural number because it counts the list        *)
(* (LoggedCountExact), which holds whoever has a name (LoginTable).         *)
(***************************************************************************)
EXTENDS BattleServer, FiniteSetTheorems, TLAPS

Inv == TypeOK /\ OwnMatch /\ LoginTable /\ LoggedCountExact

---------------------------------------------------------------------------
(* Messages and pointers.                                                  *)

\* No message, one, or two, are well-typed as what a handler sent.
LEMMA SentNothing == <<>> \in Seq(Message)
  OBVIOUS

LEMMA SentType ==
  ASSUME NEW x \in Message, NEW y \in Message
  PROVE  <<x>> \in Seq(Message) /\ <<x, y>> \in Seq(Message)
  OBVIOUS

\* The constructors build messages.
LEMMA MessageType ==
  ASSUME NEW c \in Client
  PROVE  /\ \A r \in LoginResponse : AnsLogin(c, r) \in Message
         /\ \A u \in Name \cup {Null} : ReqPlay(c, u) \in Message
         /\ \A r \in PlayResponse, p \in Client \cup {Null} :
              AnsPlay(c, r, p) \in Message
         /\ \A d \in BOOLEAN : Endgame(c, d) \in Message
         /\ [to |-> c, type |-> "ANS_BADREQ"] \in Message
<1>1. \A r \in LoginResponse : AnsLogin(c, r) \in Message
  BY DEF AnsLogin, Message
<1>2. \A u \in Name \cup {Null} : ReqPlay(c, u) \in Message
  BY DEF ReqPlay, Message
<1>3. \A r \in PlayResponse, p \in Client \cup {Null} : AnsPlay(c, r, p) \in Message
  BY DEF AnsPlay, Message
<1>4. \A d \in BOOLEAN : Endgame(c, d) \in Message
  BY DEF Endgame, Message
<1>5. [to |-> c, type |-> "ANS_BADREQ"] \in Message
  BY DEF Message
<1> QED BY <1>1, <1>2, <1>3, <1>4, <1>5

\* What a connected client finds behind its match pointer.
LEMMA MatchOf ==
  ASSUME TypeOK, OwnMatch, NEW c \in connected, match[c] # Null
  PROVE  /\ match[c] \in Match
         /\ heap[match[c]] \in MatchRecord
         /\ heap[match[c]].player1 \in Client
         /\ heap[match[c]].player2 \in Client
         /\ Opponent(c) \in Client
         /\ c = heap[match[c]].player1 \/ c = heap[match[c]].player2
<1>1. match[c] \in Match /\ c \in Client
  BY DEF TypeOK
<1>2. heap[match[c]] \in MatchRecord
  BY <1>1 DEF TypeOK, OwnMatch
<1> QED BY <1>1, <1>2 DEF OwnMatch, Players, MatchRecord, Opponent

\* The row of a logged-in client in the answer to !who.
LEMMA WhoRowType ==
  ASSUME TypeOK, OwnMatch, NEW p \in connected
  PROVE  WhoRow(p) \in WhoPlayer
<1>1. username[p] \in Name \cup {Null} /\ p \in Client
  BY DEF TypeOK
<1>2. CASE match[p] = Null
  BY <1>1, <1>2 DEF WhoRow, WhoPlayer
<1>3. CASE match[p] # Null
  <2>1. Opponent(p) \in Client
    BY <1>3, MatchOf
  <2>2. username[Opponent(p)] \in Name \cup {Null}
    BY <2>1 DEF TypeOK
  <2> QED BY <1>1, <1>3, <2>2 DEF WhoRow, WhoPlayer
<1> QED BY <1>2, <1>3

\* What the other player of a match is told is a message.
LEMMA EndMessageType ==
  ASSUME TypeOK, OwnMatch, NEW c \in connected, match[c] # Null,
         NEW d \in BOOLEAN
  PROVE  EndMessage(c, d) \in Message
<1>1. Opponent(c) \in Client /\ c \in Client
  BY MatchOf DEF TypeOK
<1>2. /\ "PLAY_TIMEDOUT" \in PlayResponse
      /\ "PLAY_DECLINE" \in PlayResponse
  BY DEF PlayResponse
<1> QED BY <1>1, <1>2, MessageType DEF EndMessage

---------------------------------------------------------------------------
(* Creating and deleting a match.                                          *)

\* A new match has both its players pointing to it, and leaves every other
\* pointer of a connected client good.
LEMMA AddMatch ==
  ASSUME TypeOK, OwnMatch, NEW p1 \in connected, NEW p2 \in connected, p1 # p2,
         add_match(p1, p2), connected' = connected
  PROVE  /\ match' \in [Client -> Match \cup {Null}]
         /\ heap' \in [Match -> MatchRecord \cup {Null}]
         /\ OwnMatch'
<1>1. PICK m \in Match :
        /\ heap[m] = Null
        /\ heap' = [heap EXCEPT ![m] = [player1 |-> p1, player2 |-> p2,
                                        awaiting_reply |-> TRUE]]
        /\ match' = [match EXCEPT ![p1] = m, ![p2] = m]
  BY DEF add_match
<1>2. p1 \in Client /\ p2 \in Client
  BY DEF TypeOK
<1>3. [player1 |-> p1, player2 |-> p2, awaiting_reply |-> TRUE] \in MatchRecord
  BY <1>2 DEF MatchRecord
<1>4. /\ match' \in [Client -> Match \cup {Null}]
      /\ heap' \in [Match -> MatchRecord \cup {Null}]
  BY <1>1, <1>2, <1>3 DEF TypeOK
<1>5. ASSUME NEW c \in connected, match'[c] # Null
      PROVE  /\ heap'[match'[c]] # Null
             /\ c \in {heap'[match'[c]].player1, heap'[match'[c]].player2}
             /\ heap'[match'[c]].player1 # heap'[match'[c]].player2
  <2>1. CASE c \in {p1, p2}
    <3>1. match'[c] = m
      BY <1>1, <1>2, <2>1 DEF TypeOK
    <3>2. heap'[m] = [player1 |-> p1, player2 |-> p2, awaiting_reply |-> TRUE]
      BY <1>1 DEF TypeOK
    <3>3. heap'[m] # Null
      BY <1>3, <3>2, NullAssumption
    <3> QED BY <2>1, <3>1, <3>2, <3>3 DEF Players
  <2>2. CASE c \notin {p1, p2}
    <3>1. match'[c] = match[c]
      BY <1>1, <2>2 DEF TypeOK
    <3>2. heap[match[c]] # Null /\ match[c] # m
      BY <1>1, <1>5, <3>1 DEF OwnMatch
    <3>3. heap'[match[c]] = heap[match[c]]
      BY <1>1, <3>2 DEF TypeOK
    <3> QED BY <1>5, <3>1, <3>2, <3>3 DEF OwnMatch, Players
  <2> QED BY <2>1, <2>2
<1> QED BY <1>4, <1>5 DEF OwnMatch, Players

\* Deleting the match of a connected client leaves no connected client with a
\* pointer to it.
LEMMA DeleteMatch ==
  ASSUME TypeOK, OwnMatch, NEW c \in connected, match[c] # Null,
         delete_match(match[c]), connected' \subseteq connected
  PROVE  /\ match' \in [Client -> Match \cup {Null}]
         /\ heap' \in [Match -> MatchRecord \cup {Null}]
         /\ OwnMatch'
<1> DEFINE m == match[c]
<1>1. /\ m \in Match
      /\ heap[m].player1 \in Client
      /\ heap[m].player2 \in Client
  BY MatchOf
<1>2. /\ match' = [match EXCEPT ![heap[m].player1] = Null,
                                ![heap[m].player2] = Null]
      /\ heap' = [heap EXCEPT ![m] = Null]
  BY DEF delete_match
<1>3. /\ match' \in [Client -> Match \cup {Null}]
      /\ heap' \in [Match -> MatchRecord \cup {Null}]
  BY <1>1, <1>2 DEF TypeOK
<1>4. ASSUME NEW d \in connected', match'[d] # Null
      PROVE  match'[d] = match[d] /\ heap'[match[d]] = heap[match[d]]
  <2>1. d \in Client /\ d \in connected
    BY DEF TypeOK
  <2>2. match'[d] = match[d] /\ d \notin Players(m)
    BY <1>1, <1>2, <1>4, <2>1 DEF TypeOK, Players
  <2>3. match[d] # m
    BY <1>4, <2>1, <2>2 DEF OwnMatch
  <2>4. match[d] \in Match
    BY <1>4, <2>1, <2>2 DEF TypeOK
  <2> QED BY <1>1, <1>2, <2>2, <2>3, <2>4 DEF TypeOK
<1> QED BY <1>3, <1>4 DEF OwnMatch, Players

---------------------------------------------------------------------------
(* The four invariants.                                                    *)

\* The list of logged-in clients is finite.
LEMMA ListFinite == TypeOK => IsFiniteSet(client_list)
  BY ClientAssumption, FS_Subset DEF TypeOK

\* What no step but a login and a removal touches.
LEMMA TablesUnchanged ==
  ASSUME LoginTable, LoggedCountExact,
         UNCHANGED <<connected, client_list, logged_count, username>>
  PROVE  LoginTable' /\ LoggedCountExact'
  BY DEF LoginTable, LoggedCountExact, logged_in

\* The server starts with every table empty.
LEMMA InitInv == Init => Inv
<1> SUFFICES ASSUME Init PROVE Inv
  OBVIOUS
<1>1. TypeOK
  BY SentNothing DEF Init, TypeOK
<1>2. OwnMatch
  BY DEF Init, OwnMatch
<1>3. LoginTable
  BY DEF Init, LoginTable
<1>4. LoggedCountExact
  BY FS_EmptySet DEF Init, LoggedCountExact
<1> QED BY <1>1, <1>2, <1>3, <1>4 DEF Inv

LEMMA AcceptInv ==
  ASSUME Inv, NEW c \in Client, accept_connection(c)
  PROVE  Inv'
<1> USE DEF accept_connection
<1>1. TypeOK'
  BY SentNothing DEF Inv, TypeOK
<1>2. OwnMatch'
  BY DEF Inv, TypeOK, OwnMatch, Players
<1>3. LoginTable'
  BY DEF Inv, TypeOK, LoginTable, logged_in
<1>4. LoggedCountExact'
  BY DEF Inv, LoggedCountExact
<1> QED BY <1>1, <1>2, <1>3, <1>4 DEF Inv

LEMMA LoginInv ==
  ASSUME Inv, NEW c \in connected, ~logged_in(c), NEW u \in Name \cup {Null},
         do_login(c, u)
  PROVE  Inv'
<1>1. c \in Client
  BY DEF Inv, TypeOK
<1>2. \A r \in LoginResponse : <<AnsLogin(c, r)>> \in Seq(Message)
  BY <1>1, MessageType, SentType
<1>3. CASE UNCHANGED <<client_list, logged_count, username>>
  <2>1. TypeOK'
    BY <1>2, <1>3 DEF Inv, TypeOK, do_login, LoginResponse
  <2>2. OwnMatch'
    BY DEF Inv, OwnMatch, Players, do_login
  <2> QED BY <1>3, <2>1, <2>2, TablesUnchanged DEF Inv, do_login
<1>4. CASE /\ valid_username(u)
           /\ unique_username(u)
           /\ login_client(c, u)
           /\ sent' = <<AnsLogin(c, "LOGIN_OK")>>
  <2> USE <1>4 DEF login_client
  <2>1. TypeOK'
    BY <1>1, <1>2 DEF Inv, TypeOK, do_login, LoginResponse
  <2>2. OwnMatch'
    BY DEF Inv, OwnMatch, Players, do_login
  <2>3. c \notin client_list
    BY DEF Inv, LoginTable
  <2>4. LoginTable'
    BY <1>1, <2>3 DEF Inv, TypeOK, LoginTable, logged_in, valid_username,
                      unique_username, get_clients_by_username, do_login
  <2>5. LoggedCountExact'
    BY <2>3, ListFinite, FS_AddElement DEF Inv, LoggedCountExact
  <2> QED BY <2>1, <2>2, <2>4, <2>5 DEF Inv
<1> QED BY <1>3, <1>4 DEF do_login

LEMMA WhoInv ==
  ASSUME Inv, NEW c \in connected, send_client_list(c)
  PROVE  Inv'
<1> USE DEF send_client_list
<1>1. \A p \in client_list : WhoRow(p) \in WhoPlayer
  BY WhoRowType DEF Inv, LoginTable
<1>2. [to |-> c, type |-> "ANS_WHO",
       players |-> {WhoRow(p) : p \in client_list \ {c}}] \in Message
  BY <1>1 DEF Inv, TypeOK, Message
<1>3. TypeOK'
  BY <1>2, SentType DEF Inv, TypeOK
<1>4. OwnMatch'
  BY DEF Inv, OwnMatch, Players
<1> QED BY <1>3, <1>4, TablesUnchanged DEF Inv

LEMMA PlayRequestInv ==
  ASSUME Inv, NEW c \in connected, NEW u \in Name, process_play_request(c, u)
  PROVE  Inv'
<1>1. c \in Client
  BY DEF Inv, TypeOK
<1>2. UNCHANGED <<server, connected, client_list, logged_count, username>>
  BY DEF process_play_request
<1>3. CASE \E r \in PlayResponse : /\ sent' = <<AnsPlay(c, r, c)>>
                                   /\ UNCHANGED <<match, heap, overlap>>
  <2>1. sent' \in Seq(Message)
    BY <1>1, <1>3, MessageType, SentType
  <2>2. TypeOK' /\ OwnMatch'
    BY <1>2, <1>3, <2>1 DEF Inv, TypeOK, OwnMatch, Players
  <2> QED BY <1>2, <2>2, TablesUnchanged DEF Inv
<1>4. ASSUME NEW opponent \in get_clients_by_username(u) \ {c},
             add_match(c, opponent),
             sent' = <<ReqPlay(opponent, username[c])>>,
             overlap' = (overlap \/ match[c] # Null)
      PROVE  Inv'
  <2>1. opponent \in connected /\ opponent # c /\ opponent \in Client
    BY DEF get_clients_by_username, Inv, LoginTable, TypeOK
  <2>2. /\ match' \in [Client -> Match \cup {Null}]
        /\ heap' \in [Match -> MatchRecord \cup {Null}]
        /\ OwnMatch'
    BY <1>2, <1>4, <2>1, AddMatch DEF Inv
  <2>3. sent' \in Seq(Message)
    BY <1>1, <1>4, <2>1, MessageType, SentType DEF Inv, TypeOK
  <2>4. overlap' \in BOOLEAN
    BY <1>4
  <2>5. TypeOK'
    BY <1>2, <2>2, <2>3, <2>4 DEF Inv, TypeOK
  <2> QED BY <1>2, <2>2, <2>5, TablesUnchanged DEF Inv
<1> QED BY <1>3, <1>4 DEF process_play_request, PlayResponse

LEMMA PlayAnswerInv ==
  ASSUME Inv, NEW c \in connected, NEW accept \in BOOLEAN,
         process_play_req_answer(c, accept)
  PROVE  Inv'
<1> DEFINE m == match[c]
           res == IF accept THEN "PLAY_ACCEPT" ELSE "PLAY_DECLINE"
<1>1. UNCHANGED <<server, connected, client_list, logged_count, username, overlap>>
  BY DEF process_play_req_answer
<1>2. CASE sent' = <<>> /\ UNCHANGED <<match, heap>>
  <2>1. TypeOK' /\ OwnMatch'
    BY <1>1, <1>2, SentNothing DEF Inv, TypeOK, OwnMatch, Players
  <2> QED BY <1>1, <2>1, TablesUnchanged DEF Inv
<1>3. CASE /\ ~answer_ignored(c)
           /\ sent' = <<AnsPlay(heap[m].player1, res, heap[m].player2),
                        AnsPlay(heap[m].player2, res, heap[m].player1)>>
           /\ IF accept
              THEN /\ heap' = [heap EXCEPT ![m].awaiting_reply = FALSE]
                   /\ UNCHANGED match
              ELSE delete_match(m)
  <2>1. match[c] # Null
    BY <1>3 DEF answer_ignored
  <2>2. /\ m \in Match
        /\ heap[m] \in MatchRecord
        /\ heap[m].player1 \in Client
        /\ heap[m].player2 \in Client
    BY <2>1, MatchOf DEF Inv
  <2>3. res \in PlayResponse
    BY DEF PlayResponse
  <2>4. sent' \in Seq(Message)
    <3>1. /\ AnsPlay(heap[m].player1, res, heap[m].player2) \in Message
          /\ AnsPlay(heap[m].player2, res, heap[m].player1) \in Message
      BY <2>2, <2>3, MessageType
    <3> QED BY <1>3, <3>1, SentType
  <2>5. /\ match' \in [Client -> Match \cup {Null}]
        /\ heap' \in [Match -> MatchRecord \cup {Null}]
        /\ OwnMatch'
    <3>1. CASE accept
      <4>1. /\ heap' = [heap EXCEPT ![m].awaiting_reply = FALSE]
            /\ match' = match
        BY <1>3, <3>1
      <4>2. [heap[m] EXCEPT !.awaiting_reply = FALSE] \in MatchRecord
        BY <2>2 DEF MatchRecord
      <4>3. heap' \in [Match -> MatchRecord \cup {Null}]
        BY <4>1, <4>2, <2>2 DEF Inv, TypeOK
      <4>4. /\ \A x \in Match \ {m} : heap'[x] = heap[x]
            /\ heap'[m] \in MatchRecord
            /\ heap'[m].player1 = heap[m].player1
            /\ heap'[m].player2 = heap[m].player2
        BY <4>1, <4>2, <2>2 DEF Inv, TypeOK, MatchRecord
      <4>5. heap'[m] # Null
        BY <4>4, NullAssumption
      <4>6. \A d \in connected : match[d] # Null => match[d] \in Match
        BY DEF Inv, TypeOK
      <4>7. OwnMatch'
        BY <1>1, <4>1, <4>4, <4>5, <4>6 DEF Inv, OwnMatch, Players
      <4> QED BY <4>1, <4>3, <4>7 DEF Inv, TypeOK
    <3>2. CASE ~accept
      BY <1>1, <1>3, <3>2, <2>1, DeleteMatch DEF Inv
    <3> QED BY <3>1, <3>2
  <2>6. TypeOK'
    BY <1>1, <2>4, <2>5 DEF Inv, TypeOK
  <2> QED BY <1>1, <2>5, <2>6, TablesUnchanged DEF Inv
<1> QED BY <1>2, <1>3 DEF process_play_req_answer

\* The part of a match's end that process_endgame and close_client share.
LEMMA TerminateMatchInv ==
  ASSUME Inv, NEW c \in connected, NEW d \in BOOLEAN, terminate_match(c, d),
         connected' \subseteq connected
  PROVE  /\ match' \in [Client -> Match \cup {Null}]
         /\ heap' \in [Match -> MatchRecord \cup {Null}]
         /\ sent' \in Seq(Message)
         /\ OwnMatch'
<1>1. CASE match[c] = Null /\ sent' = <<>> /\ UNCHANGED <<match, heap>>
  BY <1>1, SentNothing DEF Inv, TypeOK, OwnMatch, Players
<1>2. CASE /\ match[c] # Null
           /\ sent' = <<EndMessage(c, d)>>
           /\ delete_match(match[c])
  <2>1. sent' \in Seq(Message)
    BY <1>2, EndMessageType, SentType DEF Inv
  <2> QED BY <1>2, <2>1, DeleteMatch DEF Inv
<1> QED BY <1>1, <1>2 DEF terminate_match

LEMMA EndgameInv ==
  ASSUME Inv, NEW c \in connected, NEW d \in BOOLEAN, process_endgame(c, d)
  PROVE  Inv'
<1>1. /\ terminate_match(c, d)
      /\ UNCHANGED <<server, connected, client_list, logged_count, username, overlap>>
  BY DEF process_endgame
<1>2. OwnMatch' /\ TypeOK'
  BY <1>1, TerminateMatchInv DEF Inv, TypeOK
<1> QED BY <1>1, <1>2, TablesUnchanged DEF Inv

LEMMA BadreqInv ==
  ASSUME Inv, NEW c \in connected, send_ans_badreq(c)
  PROVE  Inv'
<1>1. c \in Client
  BY DEF Inv, TypeOK
<1>2. TypeOK' /\ OwnMatch'
  BY <1>1, MessageType, SentType DEF Inv, TypeOK, OwnMatch, Players, send_ans_badreq
<1> QED BY <1>2, TablesUnchanged DEF Inv, send_ans_badreq

LEMMA CloseInv ==
  ASSUME Inv, NEW c \in connected, close_client(c)
  PROVE  Inv'
<1>1. /\ terminate_match(c, TRUE)
      /\ client_list' = client_list \ {c}
      /\ logged_count' = IF logged_in(c) THEN logged_count - 1 ELSE logged_count
      /\ username' = [username EXCEPT ![c] = Null]
      /\ connected' = connected \ {c}
      /\ UNCHANGED <<server, overlap>>
  BY DEF close_client, remove_client
<1>2. /\ match' \in [Client -> Match \cup {Null}]
      /\ heap' \in [Match -> MatchRecord \cup {Null}]
      /\ sent' \in Seq(Message)
      /\ OwnMatch'
  BY <1>1, TerminateMatchInv
<1>3. c \in client_list <=> logged_in(c)
  BY DEF Inv, LoginTable
<1>4. /\ IsFiniteSet(client_list)
      /\ IsFiniteSet(client_list')
  BY <1>1, ListFinite, FS_RemoveElement DEF Inv
<1>5. LoggedCountExact'
  BY <1>1, <1>3, <1>4, FS_RemoveElement DEF Inv, LoggedCountExact
<1>6. logged_count' \in Nat
  BY <1>4, <1>5, FS_CardinalityType DEF LoggedCountExact
<1>7. TypeOK'
  BY <1>1, <1>2, <1>6 DEF Inv, TypeOK
<1>8. LoginTable'
  BY <1>1 DEF Inv, TypeOK, LoginTable, logged_in
<1> QED BY <1>2, <1>5, <1>7, <1>8 DEF Inv

LEMMA ElapsedInv ==
  ASSUME Inv, NEW c \in connected, remove_elapsed_match(c)
  PROVE  Inv'
<1> DEFINE m == match[c]
<1>1. /\ sent' = <<AnsPlay(heap[m].player2, "PLAY_TIMEDOUT", heap[m].player1),
                   AnsPlay(heap[m].player1, "PLAY_TIMEDOUT", heap[m].player2)>>
      /\ match[c] # Null
      /\ delete_match(m)
      /\ UNCHANGED <<server, connected, client_list, logged_count, username, overlap>>
  BY DEF remove_elapsed_match, Awaiting
<1>2. heap[m].player1 \in Client /\ heap[m].player2 \in Client
  BY <1>1, MatchOf DEF Inv
<1>3. /\ AnsPlay(heap[m].player2, "PLAY_TIMEDOUT", heap[m].player1) \in Message
      /\ AnsPlay(heap[m].player1, "PLAY_TIMEDOUT", heap[m].player2) \in Message
  BY <1>2, MessageType DEF PlayResponse
<1>4. sent' \in Seq(Message)
  BY <1>1, <1>3, SentType
<1>5. /\ match' \in [Client -> Match \cup {Null}]
      /\ heap' \in [Match -> MatchRecord \cup {Null}]
      /\ OwnMatch'
  BY <1>1, DeleteMatch DEF Inv
<1>6. TypeOK'
  BY <1>1, <1>4, <1>5 DEF Inv, TypeOK
<1> QED BY <1>1, <1>5, <1>6, TablesUnchanged DEF Inv

LEMMA StaleInv ==
  ASSUME Inv, NEW c \in connected, stale_player_access(c)
  PROVE  Inv'
<1> USE DEF stale_player_access
<1>1. TypeOK' /\ OwnMatch'
  BY SentNothing DEF Inv, TypeOK, OwnMatch, Players
<1> QED BY <1>1, TablesUnchanged DEF Inv

LEMMA ShutdownInv ==
  ASSUME Inv, shutdown
  PROVE  Inv'
<1> USE DEF shutdown
<1>1. TypeOK' /\ OwnMatch'
  BY SentNothing DEF Inv, TypeOK, OwnMatch, Players
<1>2. LoginTable'
  BY DEF LoginTable
<1>3. LoggedCountExact'
  BY FS_EmptySet DEF LoggedCountExact
<1> QED BY <1>1, <1>2, <1>3 DEF Inv

\* Every step of the server preserves the four invariants.
LEMMA NextInv == Inv /\ [Next]_vars => Inv'
<1> SUFFICES ASSUME Inv, [Next]_vars PROVE Inv'
  OBVIOUS
<1>1. ASSUME NEW c \in Client, accept_connection(c) PROVE Inv'
  BY <1>1, AcceptInv
<1>2. ASSUME NEW c \in connected, dispatch_message(c) PROVE Inv'
  BY <1>2, LoginInv, WhoInv, PlayRequestInv, PlayAnswerInv, EndgameInv, BadreqInv
     DEF dispatch_message
<1>3. ASSUME NEW c \in connected, close_client(c) PROVE Inv'
  BY <1>3, CloseInv
<1>4. ASSUME NEW c \in connected, remove_elapsed_match(c) PROVE Inv'
  BY <1>4, ElapsedInv
<1>5. ASSUME NEW c \in connected, stale_player_access(c) PROVE Inv'
  BY <1>5, StaleInv
<1>6. CASE shutdown
  BY <1>6, ShutdownInv
<1>7. CASE UNCHANGED vars
  BY <1>7, TablesUnchanged DEF vars, Inv, TypeOK, OwnMatch, Players
<1> QED
  BY <1>1, <1>2, <1>3, <1>4, <1>5, <1>6, <1>7 DEF Next, go_server, Handle, Stopped

\* The conjunction of the four invariants holds in every reachable state.
THEOREM InvAlways == Spec => []Inv
<1>1. Init => Inv
  BY InitInv
<1>2. Inv /\ [Next]_vars => Inv'
  BY NextInv
<1> QED BY <1>1, <1>2, PTL DEF Spec

\* Every variable keeps its type: in particular no handler goes through a NULL
\* match pointer, and the unsigned counter of the list never goes below zero.
THEOREM TypeCorrect == Spec => []TypeOK
<1>1. Inv => TypeOK
  BY DEF Inv
<1> QED BY <1>1, InvAlways, PTL

\* A connected client's match pointer never dangles and leads to a match of
\* two distinct players that it is one of, whatever the clients send.
THEOREM OwnMatchAlways == Spec => []OwnMatch
<1>1. Inv => OwnMatch
  BY DEF Inv
<1> QED BY <1>1, InvAlways, PTL

\* The ordered list is exactly the connected clients that have a name, and a
\* name belongs to one of them only.
THEOREM LoginTableAlways == Spec => []LoginTable
<1>1. Inv => LoginTable
  BY DEF Inv
<1> QED BY <1>1, InvAlways, PTL

\* logged_client_count() is the length of the list send_client_list() walks
\* into an array of that size.
THEOREM LoggedCountAlways == Spec => []LoggedCountExact
<1>1. Inv => LoggedCountExact
  BY DEF Inv
<1> QED BY <1>1, InvAlways, PTL

---------------------------------------------------------------------------
(* Matches stay whole until requests overlap.                              *)

\* Without overlap, a player of a match reaches it and is connected.
LEMMA PlayerOf ==
  ASSUME Inv, MatchIntegrity, ~overlap, NEW m \in Match, heap[m] # Null,
         NEW p \in Players(m)
  PROVE  p \in client_list /\ p \in connected /\ p \in Client /\ match[p] = m
  BY DEF MatchIntegrity, Inv, LoginTable, TypeOK

\* Deleting a client's match leaves the other matches whole, even if the
\* client itself leaves the list in the same step.
LEMMA DeleteIntegrity ==
  ASSUME Inv, MatchIntegrity, ~overlap, NEW c \in connected, match[c] # Null,
         delete_match(match[c]), client_list \ {c} \subseteq client_list'
  PROVE  \A m \in Match : heap'[m] # Null =>
           /\ {heap'[m].player1, heap'[m].player2} \subseteq client_list'
           /\ \A p \in {heap'[m].player1, heap'[m].player2} : match'[p] = m
<1> DEFINE d == match[c]
<1>1. /\ d \in Match
      /\ heap[d].player1 \in Client
      /\ heap[d].player2 \in Client
      /\ heap[d] # Null
  BY MatchOf DEF Inv, OwnMatch
<1>2. /\ match' = [match EXCEPT ![heap[d].player1] = Null,
                                ![heap[d].player2] = Null]
      /\ heap' = [heap EXCEPT ![d] = Null]
  BY DEF delete_match
<1> SUFFICES ASSUME NEW m \in Match, heap'[m] # Null
             PROVE  \A p \in {heap'[m].player1, heap'[m].player2} :
                      p \in client_list' /\ match'[p] = m
  OBVIOUS
<1>3. m # d /\ heap'[m] = heap[m] /\ heap[m] # Null
  BY <1>1, <1>2 DEF Inv, TypeOK
<1>4. ASSUME NEW p \in {heap'[m].player1, heap'[m].player2}
      PROVE  p \in client_list' /\ match'[p] = m
  <2>1. p \in Players(m)
    BY <1>3, <1>4 DEF Players
  <2>2. p \in client_list /\ p \in Client /\ match[p] = m
    BY <1>3, <2>1, PlayerOf
  <2>3. p # c
    BY <1>3, <2>2
  <2>4. p \notin Players(d)
    BY <1>1, <1>3, <2>2, PlayerOf
  <2>5. match'[p] = match[p]
    BY <1>1, <1>2, <2>2, <2>4 DEF Players, Inv, TypeOK
  <2> QED BY <2>2, <2>3, <2>5
<1> QED BY <1>4

\* The server starts with no match.
LEMMA InitIntegrity == Init => MatchIntegrity
  BY DEF Init, MatchIntegrity

\* Every step preserves MatchIntegrity, on top of Inv.
LEMMA NextIntegrity == Inv /\ MatchIntegrity /\ [Next]_vars => MatchIntegrity'
<1> SUFFICES ASSUME Inv, MatchIntegrity, [Next]_vars, ~overlap'
             PROVE  /\ server' # "crashed"
                    /\ \A m \in Match : heap'[m] # Null =>
                         /\ {heap'[m].player1, heap'[m].player2} \subseteq client_list'
                         /\ \A p \in {heap'[m].player1, heap'[m].player2} : match'[p] = m
  BY DEF MatchIntegrity, Players
<1> DEFINE Whole ==
      /\ server' # "crashed"
      /\ \A m \in Match : heap'[m] # Null =>
           /\ {heap'[m].player1, heap'[m].player2} \subseteq client_list'
           /\ \A p \in {heap'[m].player1, heap'[m].player2} : match'[p] = m
<1>1. ~overlap
  <2>1. CASE overlap' = overlap
    BY <2>1
  <2>2. ASSUME NEW c \in Client, NEW u \in Name, process_play_request(c, u)
        PROVE  ~overlap
    BY <2>2 DEF process_play_request
  <2> QED
    BY <2>1, <2>2
       DEF Next, go_server, Handle, Stopped, vars, accept_connection, dispatch_message,
           do_login, send_client_list, process_play_req_answer, process_endgame,
           send_ans_badreq, close_client, remove_elapsed_match, stale_player_access,
           shutdown, Inv, TypeOK
<1>2. server # "crashed"
  BY <1>1 DEF MatchIntegrity
<1>3. \A m \in Match : heap[m] # Null =>
        \A p \in {heap[m].player1, heap[m].player2} :
           p \in client_list /\ p \in connected /\ p \in Client /\ match[p] = m
  BY <1>1, PlayerOf DEF Players
<1>4. CASE UNCHANGED <<server, client_list, match, heap>>
  BY <1>2, <1>3, <1>4
<1>5. ASSUME NEW c \in Client, accept_connection(c) PROVE Whole
  BY <1>2, <1>3, <1>5 DEF accept_connection, Inv, TypeOK
<1>6. ASSUME NEW c \in connected, NEW u \in Name \cup {Null}, do_login(c, u)
      PROVE  Whole
  BY <1>2, <1>3, <1>6 DEF do_login, login_client
<1>7. ASSUME NEW c \in connected, logged_in(c), NEW u \in Name,
             process_play_request(c, u)
      PROVE  Whole
  <2>1. UNCHANGED <<server, client_list>>
    BY <1>7 DEF process_play_request
  <2>2. ASSUME NEW opponent \in get_clients_by_username(u) \ {c},
               ~busy(opponent), add_match(c, opponent),
               overlap' = (overlap \/ match[c] # Null)
        PROVE  Whole
    <3>1. PICK m \in Match :
            /\ heap[m] = Null
            /\ heap' = [heap EXCEPT ![m] = [player1 |-> c, player2 |-> opponent,
                                            awaiting_reply |-> TRUE]]
            /\ match' = [match EXCEPT ![c] = m, ![opponent] = m]
      BY <2>2 DEF add_match
    <3>2. match[c] = Null /\ match[opponent] = Null
      BY <2>2 DEF busy
    <3>3. /\ c \in Client /\ c \in client_list
          /\ opponent \in Client /\ opponent \in client_list
      BY <1>7, <2>2 DEF get_clients_by_username, Inv, LoginTable, TypeOK
    <3>4. ASSUME NEW x \in Match, heap'[x] # Null,
                 NEW p \in {heap'[x].player1, heap'[x].player2}
          PROVE  p \in client_list' /\ match'[p] = x
      <4>1. CASE x = m
        BY <2>1, <3>1, <3>3, <3>4, <4>1 DEF Inv, TypeOK
      <4>2. CASE x # m
        <5>1. heap'[x] = heap[x]
          BY <3>1, <4>2 DEF Inv, TypeOK
        <5>2. p \in client_list /\ p \in Client /\ match[p] = x
          BY <1>3, <3>4, <5>1
        <5>3. x # Null
          BY NullAssumption
        <5>4. p # c /\ p # opponent
          BY <3>2, <5>2, <5>3
        <5>5. match'[p] = match[p]
          BY <3>1, <5>2, <5>4 DEF Inv, TypeOK
        <5> QED BY <2>1, <5>2, <5>5
      <4> QED BY <4>1, <4>2
    <3> QED BY <1>2, <2>1, <3>4
  <2> QED BY <1>4, <1>7, <2>1, <2>2 DEF process_play_request
<1>8. ASSUME NEW c \in connected, NEW accept \in BOOLEAN,
             process_play_req_answer(c, accept)
      PROVE  Whole
  <2>1. UNCHANGED <<server, connected, client_list>>
    BY <1>8 DEF process_play_req_answer
  <2>2. CASE answer_ignored(c) /\ UNCHANGED <<match, heap>>
    BY <1>4, <2>1, <2>2
  <2>3. CASE /\ ~answer_ignored(c)
             /\ heap' = [heap EXCEPT ![match[c]].awaiting_reply = FALSE]
             /\ UNCHANGED match
    <3>1. match[c] \in Match /\ heap[match[c]] \in MatchRecord /\ heap[match[c]] # Null
      BY <2>3, MatchOf DEF answer_ignored, Inv, OwnMatch
    <3>2. /\ heap'[match[c]].player1 = heap[match[c]].player1
          /\ heap'[match[c]].player2 = heap[match[c]].player2
          /\ \A x \in Match \ {match[c]} : heap'[x] = heap[x]
      BY <2>3, <3>1 DEF Inv, TypeOK, MatchRecord
    <3> QED BY <1>2, <1>3, <2>1, <2>3, <3>1, <3>2
  <2>4. CASE ~answer_ignored(c) /\ delete_match(match[c])
    <3>1. match[c] # Null
      BY <2>4 DEF answer_ignored
    <3> QED BY <1>1, <1>2, <2>1, <2>4, <3>1, DeleteIntegrity
  <2> QED BY <1>8, <2>2, <2>3, <2>4 DEF process_play_req_answer
<1>9. ASSUME NEW c \in connected, NEW d \in BOOLEAN, process_endgame(c, d)
      PROVE  Whole
  BY <1>1, <1>2, <1>4, <1>9, DeleteIntegrity DEF process_endgame, terminate_match
<1>10. ASSUME NEW c \in connected, close_client(c) PROVE Whole
  <2>1. /\ terminate_match(c, TRUE)
        /\ client_list' = client_list \ {c}
        /\ server' = server
    BY <1>10 DEF close_client, remove_client
  <2>2. CASE match[c] # Null /\ delete_match(match[c])
    BY <1>1, <1>2, <2>1, <2>2, DeleteIntegrity
  <2>3. CASE match[c] = Null /\ UNCHANGED <<match, heap>>
    <3>1. \A m \in Match : m # Null
      BY NullAssumption
    <3> QED BY <1>2, <1>3, <2>1, <2>3, <3>1
  <2> QED BY <2>1, <2>2, <2>3 DEF terminate_match
<1>11. ASSUME NEW c \in connected, remove_elapsed_match(c) PROVE Whole
  BY <1>1, <1>2, <1>11, DeleteIntegrity DEF remove_elapsed_match, Awaiting
<1>12. ASSUME NEW c \in connected, stale_player_access(c) PROVE FALSE
  <2>1. match[c] \in Match /\ heap[match[c]] # Null
    BY <1>12, MatchOf DEF stale_player_access, Inv, OwnMatch
  <2>2. Players(match[c]) \subseteq connected
    BY <1>3, <2>1 DEF Players
  <2> QED BY <1>12, <2>2 DEF stale_player_access, PlayersAlive
<1>13. CASE shutdown
  BY <1>13 DEF shutdown
<1> QED
  BY <1>4, <1>5, <1>6, <1>7, <1>8, <1>9, <1>10, <1>11, <1>12, <1>13
     DEF Next, go_server, Handle, Stopped, vars, dispatch_message, send_client_list,
         send_ans_badreq

\* Until a client sends a request while it is in a match already, every match
\* has two logged-in players that point to it, and the server never touches a
\* client it has freed: process_play_request() not testing client->match is
\* the only thing that can break its tables.
THEOREM MatchIntegrityAlways == Spec => []MatchIntegrity
<1>1. Init => Inv /\ MatchIntegrity
  BY InitInv, InitIntegrity
<1>2. Inv /\ MatchIntegrity /\ [Next]_vars => (Inv /\ MatchIntegrity)'
  BY NextInv, NextIntegrity
<1> QED BY <1>1, <1>2, PTL DEF Spec

---------------------------------------------------------------------------
(* What clients are told.                                                  *)

\* Which match a deletion frees.
LEMMA DeleteFrees ==
  ASSUME Inv, NEW c \in connected, match[c] # Null, delete_match(match[c]),
         NEW m \in Match, heap[m] # Null, heap'[m] = Null
  PROVE  m = match[c]
  BY MatchOf DEF delete_match, Inv, TypeOK

\* The message that ends a match goes to the player who did not end it.
LEMMA EndMessageInforms ==
  ASSUME Inv, NEW c \in connected, match[c] # Null, NEW d \in BOOLEAN,
         sent' = <<EndMessage(c, d)>>,
         NEW p \in Players(match[c]) \ {c}
  PROVE  \E k \in DOMAIN sent' :
           /\ sent'[k].to = p
           /\ \/ sent'[k].type = "ANS_PLAY"
              \/ sent'[k].type = "MSG_ENDGAME" /\ ~heap[match[c]].awaiting_reply
<1>1. p = Opponent(c)
  BY MatchOf DEF Players, Opponent, Inv
<1>2. /\ EndMessage(c, d).to = p
      /\ \/ EndMessage(c, d).type = "ANS_PLAY"
         \/ EndMessage(c, d).type = "MSG_ENDGAME" /\ ~heap[match[c]].awaiting_reply
  BY <1>1 DEF EndMessage, AnsPlay, Endgame, Awaiting
<1>3. 1 \in DOMAIN sent' /\ sent'[1] = EndMessage(c, d)
  OBVIOUS
<1> QED BY <1>2, <1>3

\* Two answers to a request reach both players.
LEMMA AnswersInform ==
  ASSUME NEW m \in Match, NEW r \in PlayResponse, NEW p \in Players(m),
         \/ sent' = <<AnsPlay(heap[m].player1, r, heap[m].player2),
                     AnsPlay(heap[m].player2, r, heap[m].player1)>>
         \/ sent' = <<AnsPlay(heap[m].player2, r, heap[m].player1),
                     AnsPlay(heap[m].player1, r, heap[m].player2)>>
  PROVE  \E k \in DOMAIN sent' : sent'[k].to = p /\ sent'[k].type = "ANS_PLAY"
<1>1. 1 \in DOMAIN sent' /\ 2 \in DOMAIN sent'
  OBVIOUS
<1>2. \A q1, q2 : AnsPlay(q1, r, q2).to = q1 /\ AnsPlay(q1, r, q2).type = "ANS_PLAY"
  BY DEF AnsPlay
<1>3. CASE p = heap[m].player1
  BY <1>1, <1>2, <1>3
<1>4. CASE p = heap[m].player2
  BY <1>1, <1>2, <1>4
<1> QED BY <1>3, <1>4 DEF Players

\* No match ends behind the back of a connected player: one of the two ended
\* it, or nobody did, and whoever did not is sent the message its client is
\* waiting for in that state of the match.
THEOREM PlayersInformedAlways == Spec => PlayersInformed
<1> DEFINE Told(m, p) ==
      \E k \in DOMAIN sent' :
        /\ sent'[k].to = p
        /\ \/ sent'[k].type = "ANS_PLAY"
           \/ sent'[k].type = "MSG_ENDGAME" /\ ~heap[m].awaiting_reply
<1>1. ASSUME Inv, [Next]_vars, NEW m \in Match, heap[m] # Null, heap'[m] = Null,
             server' = "running"
      PROVE  \E actor \in Players(m) : \A p \in Players(m) \ {actor} :
               p \in connected' => Told(m, p)
  <2>1. heap' # heap
    BY <1>1
  <2>2. heap[m] \in MatchRecord /\ \E q \in Players(m) : TRUE
    BY <1>1 DEF Inv, TypeOK, Players
  <2>3. ASSUME NEW c \in Client, NEW u \in Name, process_play_request(c, u)
        PROVE  FALSE
    <3>1. PICK opponent \in Client, n \in Match :
            heap' = [heap EXCEPT ![n] = [player1 |-> c, player2 |-> opponent,
                                         awaiting_reply |-> TRUE]]
      BY <1>1, <2>1, <2>3 DEF process_play_request, add_match, get_clients_by_username,
                        Inv, TypeOK
    <3>2. [player1 |-> c, player2 |-> opponent, awaiting_reply |-> TRUE] \in MatchRecord
      BY DEF MatchRecord
    <3> QED BY <1>1, <3>1, <3>2, NullAssumption DEF Inv, TypeOK
  <2>4. ASSUME NEW c \in connected, NEW accept \in BOOLEAN,
               process_play_req_answer(c, accept)
        PROVE  \A p \in Players(m) : Told(m, p)
    <3>1. match[c] # Null /\ ~answer_ignored(c)
      BY <2>1, <2>4 DEF process_play_req_answer, answer_ignored
    <3>2. match[c] \in Match /\ heap[match[c]] \in MatchRecord
      BY <1>1, <3>1, MatchOf DEF Inv
    <3>3. ~accept
      <4>1. ASSUME accept PROVE FALSE
        <5>1. heap' = [heap EXCEPT ![match[c]].awaiting_reply = FALSE]
          BY <2>4, <3>1, <4>1 DEF process_play_req_answer
        <5>2. \A x \in Match \ {match[c]} : heap'[x] = heap[x]
          BY <1>1, <3>2, <5>1 DEF Inv, TypeOK
        <5>3. heap'[match[c]] \in MatchRecord
          BY <1>1, <3>2, <5>1 DEF Inv, TypeOK, MatchRecord
        <5> QED BY <1>1, <5>2, <5>3, NullAssumption
      <4> QED BY <4>1
    <3>4. m = match[c]
      BY <1>1, <2>4, <3>1, <3>3, DeleteFrees DEF process_play_req_answer
    <3>5. sent' = <<AnsPlay(heap[m].player1, "PLAY_DECLINE", heap[m].player2),
                    AnsPlay(heap[m].player2, "PLAY_DECLINE", heap[m].player1)>>
      BY <2>4, <3>1, <3>3, <3>4 DEF process_play_req_answer
    <3>6. "PLAY_DECLINE" \in PlayResponse
      BY DEF PlayResponse
    <3> QED BY <3>5, <3>6, AnswersInform
  <2>5. ASSUME NEW c \in connected, NEW d \in BOOLEAN, terminate_match(c, d)
        PROVE  c \in Players(m) /\ \A p \in Players(m) \ {c} : Told(m, p)
    <3>1. /\ match[c] # Null
          /\ sent' = <<EndMessage(c, d)>>
          /\ delete_match(match[c])
      BY <2>1, <2>5 DEF terminate_match
    <3>2. m = match[c]
      BY <1>1, <3>1, DeleteFrees
    <3>3. c \in Players(m)
      BY <1>1, <3>1, <3>2 DEF Inv, OwnMatch
    <3> QED BY <1>1, <3>1, <3>2, <3>3, EndMessageInforms
  <2>6. ASSUME NEW c \in connected, remove_elapsed_match(c)
        PROVE  \A p \in Players(m) : Told(m, p)
    <3>1. m = match[c]
      BY <1>1, <2>6, DeleteFrees DEF remove_elapsed_match, Awaiting
    <3>2. sent' = <<AnsPlay(heap[m].player2, "PLAY_TIMEDOUT", heap[m].player1),
                    AnsPlay(heap[m].player1, "PLAY_TIMEDOUT", heap[m].player2)>>
      BY <2>6, <3>1 DEF remove_elapsed_match
    <3>3. "PLAY_TIMEDOUT" \in PlayResponse
      BY DEF PlayResponse
    <3> QED BY <3>2, <3>3, AnswersInform
  <2>7. \/ \E c \in Client, u \in Name : process_play_request(c, u)
        \/ \E c \in connected, accept \in BOOLEAN : process_play_req_answer(c, accept)
        \/ \E c \in connected, d \in BOOLEAN : terminate_match(c, d)
        \/ \E c \in connected : remove_elapsed_match(c)
    BY <1>1, <2>1
       DEF Inv, TypeOK, Next, go_server, Handle, Stopped, vars, accept_connection,
           dispatch_message, do_login, send_client_list, process_endgame,
           send_ans_badreq, close_client, stale_player_access, shutdown
  <2> HIDE DEF Told
  <2> QED BY <2>2, <2>3, <2>4, <2>5, <2>6, <2>7
<1>2. Inv /\ [Next]_vars =>
        [\A m \in Match :
           (heap[m] # Null /\ heap'[m] = Null /\ server' = "running") =>
             \E actor \in Players(m) : \A p \in Players(m) \ {actor} :
               p \in connected' => Told(m, p)]_vars
  BY <1>1
<1> QED BY <1>2, InvAlways, PTL DEF Spec, PlayersInformed

---------------------------------------------------------------------------
(* What !who shows.                                                        *)

\* Without overlap, the opponent of a client that is in a match is logged in,
\* is in the same match, and has that client for opponent.
LEMMA OpponentOf ==
  ASSUME Inv, MatchIntegrity, ~overlap, NEW p \in connected, match[p] # Null
  PROVE  /\ Opponent(p) \in client_list
         /\ match[Opponent(p)] = match[p]
         /\ Opponent(Opponent(p)) = p
<1>1. /\ match[p] \in Match
      /\ heap[match[p]] # Null
      /\ p \in Players(match[p])
      /\ heap[match[p]].player1 # heap[match[p]].player2
  BY MatchOf DEF Inv, OwnMatch
<1>2. Opponent(p) \in Players(match[p])
  BY DEF Opponent, Players
<1>3. Opponent(p) \in client_list /\ match[Opponent(p)] = match[p]
  BY <1>1, <1>2, PlayerOf
<1> QED BY <1>1, <1>3 DEF Opponent, Players

\* The rows of two opponents agree.
LEMMA RowsAgree ==
  ASSUME Inv, MatchIntegrity, ~overlap, NEW p \in client_list,
         WhoRow(p).status # "PLAYER_IDLE"
  PROVE  /\ match[p] # Null
         /\ WhoRow(p).opponent = username[Opponent(p)]
         /\ WhoRow(Opponent(p)).username = WhoRow(p).opponent
         /\ WhoRow(Opponent(p)).opponent = WhoRow(p).username
         /\ WhoRow(Opponent(p)).status = WhoRow(p).status
<1>1. match[p] # Null /\ p \in connected
  BY DEF WhoRow, Inv, LoginTable
<1>2. /\ match[Opponent(p)] = match[p]
      /\ Opponent(Opponent(p)) = p
  BY <1>1, OpponentOf
<1> QED BY <1>1, <1>2 DEF WhoRow

\* Only send_client_list() sends ANS_WHO.
LEMMA OnlyWhoSendsWho ==
  ASSUME Inv, Next,
         NEW k \in DOMAIN sent', sent'[k].type = "ANS_WHO"
  PROVE  \/ \E c \in connected : send_client_list(c)
         \/ UNCHANGED vars
<1> DEFINE None == \A i \in DOMAIN sent' : sent'[i].type # "ANS_WHO"
<1>1. /\ \A c, r, q : AnsPlay(c, r, q).type = "ANS_PLAY"
      /\ \A c, r : AnsLogin(c, r).type = "ANS_LOGIN"
      /\ \A c, u : ReqPlay(c, u).type = "REQ_PLAY"
      /\ \A c, d : Endgame(c, d).type = "MSG_ENDGAME"
      /\ \A c : [to |-> c, type |-> "ANS_BADREQ"].type = "ANS_BADREQ"
      /\ \A c, d : EndMessage(c, d).type # "ANS_WHO"
  BY DEF AnsPlay, AnsLogin, ReqPlay, Endgame, EndMessage
<1>2. ASSUME sent' = <<>> PROVE None
  BY <1>2
<1>3. ASSUME NEW x, x.type # "ANS_WHO", sent' = <<x>> PROVE None
  BY <1>3
<1>4. ASSUME NEW x, NEW y, x.type # "ANS_WHO", y.type # "ANS_WHO", sent' = <<x, y>>
      PROVE  None
  BY <1>4
<1> HIDE DEF None
<1>5. ASSUME NEW c \in Client, accept_connection(c) PROVE None
  BY <1>2, <1>5 DEF accept_connection
<1>6. ASSUME NEW c, NEW u, do_login(c, u) PROVE None
  BY <1>1, <1>3, <1>6 DEF do_login
<1>7. ASSUME NEW c, NEW u, process_play_request(c, u) PROVE None
  BY <1>1, <1>3, <1>7 DEF process_play_request
<1>8. ASSUME NEW c, NEW accept, process_play_req_answer(c, accept) PROVE None
  BY <1>1, <1>2, <1>4, <1>8 DEF process_play_req_answer
<1>9. ASSUME NEW c, NEW d, terminate_match(c, d) PROVE None
  BY <1>1, <1>2, <1>3, <1>9 DEF terminate_match
<1>10. ASSUME NEW c, send_ans_badreq(c) PROVE None
  BY <1>1, <1>3, <1>10 DEF send_ans_badreq
<1>11. ASSUME NEW c, remove_elapsed_match(c) PROVE None
  BY <1>1, <1>4, <1>11 DEF remove_elapsed_match
<1>12. ASSUME NEW c, stale_player_access(c) PROVE None
  BY <1>2, <1>12 DEF stale_player_access
<1>13. CASE shutdown
  BY <1>2, <1>13 DEF shutdown, None
<1>14. ~None
  BY DEF None
<1> QED
  BY <1>5, <1>6, <1>7, <1>8, <1>9, <1>10, <1>11, <1>12, <1>13, <1>14
     DEF Next, go_server, Handle, Stopped, dispatch_message, process_endgame,
         close_client

\* Every step preserves WhoSymmetric.
LEMMA NextWho ==
  Inv /\ MatchIntegrity /\ WhoSymmetric /\ [Next]_vars => WhoSymmetric'
<1> SUFFICES ASSUME Inv, MatchIntegrity, WhoSymmetric, [Next]_vars, ~overlap',
                    NEW k \in DOMAIN sent', sent'[k].type = "ANS_WHO",
                    NEW r \in sent'[k].players, r.status # "PLAYER_IDLE"
             PROVE  \/ r.opponent = username'[sent'[k].to]
                    \/ \E q \in sent'[k].players : /\ q.username = r.opponent
                                                   /\ q.opponent = r.username
                                                   /\ q.status = r.status
  BY DEF WhoSymmetric
<1>1. CASE UNCHANGED vars
  BY <1>1 DEF WhoSymmetric, vars
<1>2. ASSUME NEW c \in connected, send_client_list(c)
      PROVE  \/ r.opponent = username'[sent'[k].to]
             \/ \E q \in sent'[k].players : /\ q.username = r.opponent
                                            /\ q.opponent = r.username
                                            /\ q.status = r.status
  <2>1. /\ k = 1
        /\ sent'[1].to = c
        /\ sent'[1].players = {WhoRow(p) : p \in client_list \ {c}}
        /\ username' = username
        /\ overlap' = overlap
    BY <1>2 DEF send_client_list
  <2>2. PICK p \in client_list \ {c} : r = WhoRow(p)
    BY <2>1
  <2>3. /\ match[p] # Null
        /\ r.opponent = username[Opponent(p)]
        /\ WhoRow(Opponent(p)).username = r.opponent
        /\ WhoRow(Opponent(p)).opponent = r.username
        /\ WhoRow(Opponent(p)).status = r.status
    BY <2>1, <2>2, RowsAgree
  <2>4. Opponent(p) \in client_list
    BY <2>1, <2>2, <2>3, OpponentOf DEF Inv, LoginTable
  <2>5. CASE Opponent(p) = c
    BY <2>1, <2>3, <2>5
  <2>6. CASE Opponent(p) # c
    BY <2>1, <2>3, <2>4, <2>6
  <2> QED BY <2>5, <2>6
<1>3. CASE Next
  BY <1>1, <1>2, <1>3, OnlyWhoSendsWho
<1> QED BY <1>1, <1>3

\* Until requests overlap, the rows of an ANS_WHO agree with each other: a
\* player is never shown against one who is shown idle, with somebody else, or
\* in another status.
THEOREM WhoSymmetricAlways == Spec => []WhoSymmetric
<1>1. Init => Inv /\ MatchIntegrity /\ WhoSymmetric
  BY InitInv, InitIntegrity DEF Init, WhoSymmetric
<1>2. Inv /\ MatchIntegrity /\ WhoSymmetric /\ [Next]_vars
        => (Inv /\ MatchIntegrity /\ WhoSymmetric)'
  BY NextInv, NextIntegrity, NextWho
<1> QED BY <1>1, <1>2, PTL DEF Spec
=============================================================================
