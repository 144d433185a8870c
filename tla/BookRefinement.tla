--------------------------- MODULE BookRefinement ---------------------------
(***************************************************************************)
(* BattleServer implements MatchBook, for any number of clients, names and  *)
(* match objects, as long as no request replaces its sender's own match.    *)
(* Two facts carry the proof: different match objects are different entries *)
(* of the book, because their players point back to one of them only, and   *)
(* a client without a match pointer is in no entry.  Then the book itself:  *)
(* it is sound, whoever keeps it, hence the server's is.                    *)
(***************************************************************************)
EXTENDS BattleServerProofs

\* Without overlap an entry of the book is one match object.
LEMMA EntryOfOne ==
  ASSUME Inv, MatchIntegrity, ~overlap, NEW m \in Matches, NEW n \in Matches,
         entry(m) = entry(n)
  PROVE  m = n
<1>1. heap[m].player1 \in Players(m) /\ heap[m].player1 \in Players(n)
  BY DEF Players, entry
<1> QED BY <1>1, PlayerOf DEF Matches

\* Without overlap a client without a match is in no entry.
LEMMA FreeNotBooked ==
  ASSUME Inv, MatchIntegrity, ~overlap, NEW c \in Client, match[c] = Null
  PROVE  ~Book!booked(c)
<1> SUFFICES ASSUME NEW m \in Matches, c \in Players(m) PROVE FALSE
  BY DEF Book!booked, Book!PlayersOf, Entries, entry, Players
<1>1. m \in Match /\ heap[m] # Null /\ match[c] = m
  BY PlayerOf DEF Matches
<1> QED BY <1>1, NullAssumption

\* Steps that leave the match objects alone leave the book alone.
LEMMA SameHeap ==
  ASSUME heap' = heap
  PROVE  Entries' = Entries
  BY DEF Entries, Matches, entry

\* add_match() adds an entry.
LEMMA AddEntry ==
  ASSUME Inv, NEW a \in Client, NEW b \in Client, add_match(a, b)
  PROVE  Entries' = Entries \cup {[asker |-> a, invited |-> b, awaiting |-> TRUE]}
<1> DEFINE new == [player1 |-> a, player2 |-> b, awaiting_reply |-> TRUE]
<1>1. PICK m \in Match : heap[m] = Null /\ heap' = [heap EXCEPT ![m] = new]
  BY DEF add_match
<1>2. new \in MatchRecord /\ new # Null
  <2>1. new \in MatchRecord
    BY DEF MatchRecord
  <2> QED BY <2>1, NullAssumption
<1>3. heap'[m] = new /\ \A x \in Match \ {m} : heap'[x] = heap[x]
  BY <1>1 DEF Inv, TypeOK
<1>4. Matches' = Matches \cup {m} /\ m \notin Matches
  BY <1>1, <1>2, <1>3 DEF Matches
<1>5. /\ entry(m)' = [asker |-> a, invited |-> b, awaiting |-> TRUE]
      /\ \A x \in Matches : entry(x)' = entry(x)
  BY <1>3, <1>4 DEF entry, Matches
<1> QED BY <1>4, <1>5 DEF Entries

\* delete_match() strikes out the entry of that match and no other.
LEMMA StrikeEntry ==
  ASSUME Inv, MatchIntegrity, ~overlap, NEW c \in connected, match[c] # Null,
         delete_match(match[c])
  PROVE  /\ match[c] \in Matches
         /\ Entries' = Entries \ {entry(match[c])}
<1> DEFINE d == match[c]
<1>1. d \in Matches /\ d \in Match
  BY MatchOf DEF Inv, OwnMatch, Matches
<1>2. heap'[d] = Null /\ \A x \in Match \ {d} : heap'[x] = heap[x]
  BY <1>1 DEF delete_match, Inv, TypeOK
<1>3. Matches' = Matches \ {d} /\ \A x \in Matches' : entry(x)' = entry(x)
  BY <1>2 DEF Matches, entry
<1>4. \A x \in Matches \ {d} : entry(x) # entry(d)
  BY <1>1, EntryOfOne
<1> QED BY <1>1, <1>3, <1>4 DEF Entries

\* What has overlapped stays so.
LEMMA OverlapStays == overlap /\ [Next]_vars => overlap'
<1> SUFFICES ASSUME overlap, [Next]_vars PROVE overlap'
  OBVIOUS
<1>1. ASSUME NEW c, dispatch_message(c) PROVE overlap'
  BY <1>1 DEF dispatch_message, do_login, send_client_list, process_play_request,
              process_play_req_answer, process_endgame, send_ans_badreq
<1>2. ASSUME NEW c, accept_connection(c) \/ close_client(c) \/ remove_elapsed_match(c)
                      \/ stale_player_access(c)
      PROVE  overlap'
  BY <1>2 DEF accept_connection, close_client, remove_elapsed_match, stale_player_access
<1>3. CASE shutdown \/ UNCHANGED vars
  BY <1>3 DEF shutdown, vars
<1> QED BY <1>1, <1>2, <1>3 DEF Next, go_server, Handle, Stopped

\* Every handler is a step of the book, or changes nothing in it.
LEMMA BookStep ==
  ASSUME Inv, MatchIntegrity, ~overlap', [Next]_vars
  PROVE  Book!Next \/ UNCHANGED Book!vars
<1> DEFINE Kept == Book!Next \/ UNCHANGED Book!vars
<1>1. ~overlap
  BY OverlapStays
<1>2. connected \subseteq Client /\ client_list \subseteq connected
  BY DEF Inv, TypeOK, LoginTable
<1>3. CASE UNCHANGED <<client_list, heap>>
  BY <1>3, SameHeap DEF Book!vars
<1>4. ASSUME NEW c \in connected, match[c] # Null, delete_match(match[c]),
             client_list' = client_list
      PROVE  Kept
  <2>1. match[c] \in Matches /\ Entries' = Entries \ {entry(match[c])}
    BY <1>1, <1>4, StrikeEntry
  <2>2. entry(match[c]) \in Entries
    BY <2>1 DEF Entries
  <2> QED BY <1>4, <2>1, <2>2 DEF Book!Next, Book!End
<1>5. ASSUME NEW c \in connected, ~logged_in(c), NEW u \in Name \cup {Null}, do_login(c, u)
      PROVE  Kept
  <2>1. CASE login_client(c, u) /\ UNCHANGED heap
    <3>1. c \notin client_list /\ Entries' = Entries
      BY <1>5, <2>1, SameHeap DEF Inv, LoginTable
    <3>2. Book!Join(c)
      BY <2>1, <3>1 DEF Book!Join, login_client
    <3> QED BY <1>2, <3>2 DEF Book!Next
  <2> QED BY <1>3, <1>5, <2>1 DEF do_login
<1>6. ASSUME NEW c \in connected, logged_in(c), NEW u \in Name, process_play_request(c, u)
      PROVE  Kept
  <2>1. client_list' = client_list
    BY <1>6 DEF process_play_request
  <2>2. ASSUME NEW opponent \in get_clients_by_username(u) \ {c}, ~busy(opponent),
               add_match(c, opponent), overlap' = (overlap \/ match[c] # Null)
        PROVE  Kept
    <3>1. c \in client_list /\ opponent \in client_list
      BY <1>6, <2>2 DEF get_clients_by_username, Inv, LoginTable
    <3>2. match[c] = Null /\ match[opponent] = Null
      BY <2>2 DEF busy
    <3>3. ~Book!booked(c) /\ ~Book!booked(opponent)
      BY <1>1, <1>2, <3>1, <3>2, FreeNotBooked
    <3>4. Entries' = Entries \cup {[asker |-> c, invited |-> opponent, awaiting |-> TRUE]}
      BY <1>2, <2>2, <3>1, AddEntry
    <3>5. Book!Invite(c, opponent)
      BY <2>1, <2>2, <3>1, <3>3, <3>4 DEF Book!Invite
    <3> QED BY <1>2, <3>1, <3>5 DEF Book!Next
  <2> QED BY <1>3, <1>6, <2>1, <2>2 DEF process_play_request
<1>7. ASSUME NEW c \in connected, NEW accept \in BOOLEAN, process_play_req_answer(c, accept)
      PROVE  Kept
  <2>1. client_list' = client_list
    BY <1>7 DEF process_play_req_answer
  <2>2. CASE /\ ~answer_ignored(c)
             /\ heap' = [heap EXCEPT ![match[c]].awaiting_reply = FALSE]
    <3>1. PICK m \in Match : m = match[c] /\ heap[m] \in MatchRecord /\ heap[m] # Null
      BY <2>2, MatchOf DEF answer_ignored, Inv, OwnMatch
    <3>2. /\ heap'[m] = [heap[m] EXCEPT !.awaiting_reply = FALSE]
          /\ \A x \in Match \ {m} : heap'[x] = heap[x]
      BY <2>2, <3>1 DEF Inv, TypeOK
    <3>3. heap'[m] \in MatchRecord /\ heap'[m] # Null
      BY <3>1, <3>2, NullAssumption DEF MatchRecord
    <3>4. Matches' = Matches /\ m \in Matches
      BY <3>1, <3>2, <3>3 DEF Matches
    <3>5. entry(m)' = [asker |-> heap[m].player1, invited |-> heap[m].player2,
                       awaiting |-> FALSE]
      <4>1. /\ heap'[m].player1 = heap[m].player1
            /\ heap'[m].player2 = heap[m].player2
            /\ heap'[m].awaiting_reply = FALSE
        BY <3>1, <3>2 DEF MatchRecord
      <4> QED BY <4>1 DEF entry
    <3>6. \A x \in Matches \ {m} : entry(x)' = entry(x) /\ entry(x) # entry(m)
      <4> TAKE x \in Matches \ {m}
      <4>1. heap'[x] = heap[x]
        BY <3>2 DEF Matches
      <4>2. entry(x) # entry(m)
        BY <1>1, <3>4, EntryOfOne
      <4> QED BY <4>1, <4>2 DEF entry
    <3> DEFINE new == [asker |-> heap[m].player1, invited |-> heap[m].player2,
                       awaiting |-> FALSE]
    <3>7. Entries' = (Entries \ {entry(m)}) \cup {new}
      <4>1. Entries' = {entry(x)' : x \in Matches}
        BY <3>4 DEF Entries
      <4>2. Entries = {entry(x) : x \in Matches}
        BY DEF Entries
      <4>3. entry(m)' = new
        BY <3>5
      <4> HIDE DEF new
      <4> QED BY <3>4, <3>6, <4>1, <4>2, <4>3
    <3>8. entry(m) \in Entries
      BY <3>4 DEF Entries
    <3>9. CASE entry(m).awaiting
      <4>1. new = [asker |-> entry(m).asker, invited |-> entry(m).invited,
                   awaiting |-> FALSE]
        BY DEF entry
      <4>2. Book!Accept(entry(m))
        BY <2>1, <3>7, <3>9, <4>1 DEF Book!Accept
      <4> QED BY <3>8, <4>2 DEF Book!Next
    <3>10. CASE ~entry(m).awaiting
      <4>1. heap[m].awaiting_reply = FALSE
        BY <3>1, <3>10 DEF entry, MatchRecord
      <4>2. new = entry(m)
        BY <4>1 DEF entry
      <4>3. Entries' = Entries
        BY <3>7, <3>8, <4>2
      <4> QED BY <2>1, <4>3 DEF Book!vars
    <3> QED BY <3>9, <3>10
  <2>3. CASE ~answer_ignored(c) /\ delete_match(match[c])
    BY <1>4, <2>1, <2>3 DEF answer_ignored
  <2> QED BY <1>3, <1>7, <2>1, <2>2, <2>3 DEF process_play_req_answer
<1>8. ASSUME NEW c \in connected, NEW d \in BOOLEAN, process_endgame(c, d)
      PROVE  Kept
  BY <1>3, <1>4, <1>8 DEF process_endgame, terminate_match
<1>9. ASSUME NEW c \in connected, close_client(c) PROVE Kept
  <2>1. terminate_match(c, TRUE) /\ client_list' = client_list \ {c}
    BY <1>9 DEF close_client, remove_client
  <2>2. CASE c \notin client_list
    <3>1. client_list' = client_list
      BY <2>1, <2>2
    <3> QED BY <1>3, <1>4, <2>1, <3>1 DEF terminate_match
  <2>3. CASE c \in client_list
    <3>1. Entries' = {e \in Entries : c \notin Book!PlayersOf(e)}
      <4>1. \A m \in Matches : c \in Book!PlayersOf(entry(m)) => match[c] = m
        BY <1>1, PlayerOf DEF Book!PlayersOf, entry, Players, Matches
      <4>2. CASE match[c] = Null /\ heap' = heap
        <5>1. Entries' = Entries
          BY <4>2, SameHeap
        <5>2. \A m \in Matches : m # Null
          BY NullAssumption DEF Matches
        <5> QED BY <4>1, <4>2, <5>1, <5>2 DEF Entries
      <4>3. CASE match[c] # Null /\ delete_match(match[c])
        <5>1. match[c] \in Matches /\ Entries' = Entries \ {entry(match[c])}
          BY <1>1, <4>3, StrikeEntry
        <5>2. c \in Book!PlayersOf(entry(match[c]))
          BY <4>3 DEF Inv, OwnMatch, Players, Book!PlayersOf, entry
        <5> QED BY <4>1, <5>1, <5>2 DEF Entries
      <4> QED BY <2>1, <4>2, <4>3 DEF terminate_match
    <3>2. Book!Leave(c)
      BY <2>1, <2>3, <3>1 DEF Book!Leave
    <3> QED BY <1>2, <3>2 DEF Book!Next
  <2> QED BY <2>2, <2>3
<1>10. ASSUME NEW c \in connected, remove_elapsed_match(c) PROVE Kept
  BY <1>4, <1>10 DEF remove_elapsed_match, Awaiting
<1>11. CASE shutdown
  <2>1. Matches' = {}
    BY <1>11 DEF shutdown, Matches
  <2>2. Entries' = {} /\ client_list' = {}
    BY <1>11, <2>1 DEF Entries, shutdown
  <2> QED BY <2>2 DEF Book!Next, Book!Close
<1>12. CASE UNCHANGED vars
  BY <1>3, <1>12 DEF vars
<1> QED
  BY <1>2, <1>3, <1>5, <1>6, <1>7, <1>8, <1>9, <1>10, <1>11, <1>12
     DEF Next, go_server, Handle, Stopped, dispatch_message, accept_connection,
         send_client_list, send_ans_badreq, stale_player_access

\* The server does to its matches what the abstract book of matches allows:
\* request between two free players, acceptance, end, or a player leaving with
\* the match, each in one step, until a request replaces its sender's match.
THEOREM KeepsBookAlways == Spec => KeepsBook
<1>1. Init => Book!Init
  <2> SUFFICES ASSUME Init PROVE Book!Init
    OBVIOUS
  <2>1. Matches = {}
    BY DEF Init, Matches
  <2> QED BY <2>1 DEF Init, Book!Init, Entries
<1>2. Inv /\ MatchIntegrity /\ [Next]_vars => [overlap' \/ Book!Next]_Book!vars
  BY BookStep
<1> QED BY <1>1, <1>2, InvAlways, MatchIntegrityAlways, PTL DEF Spec, KeepsBook

---------------------------------------------------------------------------
(* What the book is worth.                                                  *)

\* Every step of the book keeps it sound, whatever the order of requests, answers,
\* ends and departures.
LEMMA SoundStep == Book!Sound /\ [Book!Next]_Book!vars => Book!Sound'
<1> SUFFICES ASSUME Book!Sound, [Book!Next]_Book!vars PROVE Book!Sound'
  OBVIOUS
<1>1. ASSUME NEW p \in Client, Book!Join(p) PROVE Book!Sound'
  BY <1>1 DEF Book!Sound, Book!Join, Book!PlayersOf
<1>2. ASSUME NEW p \in Client, Book!Leave(p) PROVE Book!Sound'
  BY <1>2 DEF Book!Sound, Book!Leave, Book!PlayersOf
<1>3. ASSUME NEW p \in Client, NEW q \in Client, Book!Invite(p, q) PROVE Book!Sound'
  <2> DEFINE new == [asker |-> p, invited |-> q, awaiting |-> TRUE]
  <2>1. Book!PlayersOf(new) = {p, q} /\ new.asker # new.invited
    BY <1>3 DEF Book!Invite, Book!PlayersOf
  <2>2. \A e \in Entries : Book!PlayersOf(e) \cap {p, q} = {}
    BY <1>3 DEF Book!Invite, Book!booked
  <2>3. /\ Entries' = Entries \cup {new} /\ client_list' = client_list
        /\ {p, q} \subseteq client_list
    BY <1>3 DEF Book!Invite
  <2> HIDE DEF new
  <2> QED BY <2>1, <2>2, <2>3 DEF Book!Sound, Book!PlayersOf
<1>4. ASSUME NEW e \in Entries, Book!Accept(e) PROVE Book!Sound'
  <2> DEFINE new == [asker |-> e.asker, invited |-> e.invited, awaiting |-> FALSE]
  <2>1. /\ Book!PlayersOf(new) = Book!PlayersOf(e)
        /\ new.asker = e.asker /\ new.invited = e.invited
    BY DEF Book!PlayersOf
  <2>2. Entries' = (Entries \ {e}) \cup {new} /\ client_list' = client_list
    BY <1>4 DEF Book!Accept
  <2> HIDE DEF new
  <2> QED BY <2>1, <2>2 DEF Book!Sound
<1>5. ASSUME NEW e \in Entries, Book!End(e) PROVE Book!Sound'
  BY <1>5 DEF Book!Sound, Book!End, Book!PlayersOf
<1>6. CASE Book!Close
  BY <1>6 DEF Book!Sound, Book!Close
<1>7. CASE UNCHANGED Book!vars
  BY <1>7 DEF Book!Sound, Book!vars, Book!PlayersOf
<1> QED BY <1>1, <1>2, <1>3, <1>4, <1>5, <1>6, <1>7 DEF Book!Next

\* A player is in one match at most, and only while logged in, in every behaviour of
\* the book.
THEOREM BookSound == Book!Spec => []Book!Sound
<1>1. Book!Init => Book!Sound
  BY DEF Book!Init, Book!Sound
<1> QED BY <1>1, SoundStep, PTL DEF Book!Spec

\* The server's own matches: nobody is in two, and nobody who is not logged in is in
\* one, until a request replaces its sender's match.
THEOREM BookSoundAlways == Spec => [](overlap \/ Book!Sound)
<1>1. Init => overlap \/ Book!Sound
  <2> SUFFICES ASSUME Init PROVE Book!Sound
    OBVIOUS
  <2>1. Entries = {}
    BY DEF Init, Entries, Matches
  <2> QED BY <2>1 DEF Book!Sound
<1>2. Inv /\ MatchIntegrity /\ (overlap \/ Book!Sound) /\ [Next]_vars
        => (overlap \/ Book!Sound)'
  BY BookStep, SoundStep, OverlapStays
<1> QED BY <1>1, <1>2, InvAlways, MatchIntegrityAlways, PTL DEF Spec
=============================================================================
