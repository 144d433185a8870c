----------------------------- MODULE SelectLoop -----------------------------
(***************************************************************************)
(* The descriptors of go_server(): which of them select() watches, in which *)
(* order one pass visits those it reported, and how accept() and close()    *)
(* reuse numbers under the loop.  What the handlers do with a message is    *)
(* the business of BattleServer; here a message is read or not.             *)
(*                                                                          *)
(* Peers run concurrently: they connect, send, and close between any two    *)
(* steps of the loop.                                                       *)
(***************************************************************************)
EXTENDS Integers, FiniteSetsExt

CONSTANTS
  sfd,        \* the listening socket
  FD_SETSIZE, \* descriptors below this fit an fd_set
  Fd,         \* descriptors that accept() may return
  MaxBacklog  \* bound on the connections waiting to be accepted

\* The listening socket is the first descriptor the server opens, and accept()
\* returns the lowest free number, so connections come after it.  The limit on
\* the process's descriptors keeps them in an fd_set.
ASSUME FdAssumption ==
  /\ sfd \in Nat /\ FD_SETSIZE \in Nat
  /\ Fd \subseteq sfd + 1 .. FD_SETSIZE - 1

ASSUME BacklogAssumption == MaxBacklog \in Nat \ {0}

VARIABLES
  backlog,    \* connections that wait to be accepted
  open,       \* connections the process has open
  input,      \* the head of each connection's stream
  eof,        \* connections whose peer has closed
  signalled,  \* received_signal > 0
  pc,         \* "top", "select", "pass"; "exited", "failed", "aborted"
  readfds,    \* what select() is to watch
  _readfds,   \* what it reported
  nfds,       \* upper bound of both
  fd,         \* where the pass is
  clients     \* sockets in client_hashtable

kernel == <<backlog, open, input, eof, signalled>>

vars == <<backlog, open, input, eof, signalled, pc, readfds, _readfds, nfds, fd,
          clients>>

Stream == {"empty", "partial", "message", "malformed"}

Running == pc \in {"top", "select", "pass"}

---------------------------------------------------------------------------
(* The peers and the signal.                                                *)

peer_connect ==
  /\ backlog < MaxBacklog
  /\ backlog' = backlog + 1
  /\ UNCHANGED <<open, input, eof, signalled>>

peer_send(f) ==
  /\ f \in open \ eof
  /\ \/ input[f] = "empty" /\ input' \in {[input EXCEPT ![f] = s] : s \in Stream}
     \/ input[f] = "partial" /\ input' = [input EXCEPT ![f] = "message"]
  /\ UNCHANGED <<backlog, open, eof, signalled>>

peer_close(f) ==
  /\ f \in open \ eof
  /\ eof' = eof \cup {f}
  /\ UNCHANGED <<backlog, open, input, signalled>>

signal_handler ==
  /\ ~signalled
  /\ signalled' = TRUE
  /\ UNCHANGED <<backlog, open, input, eof>>

Environment ==
  /\ Running
  /\ \/ peer_connect
     \/ \E f \in Fd : peer_send(f) \/ peer_close(f)
     \/ signal_handler
  /\ UNCHANGED <<pc, readfds, _readfds, nfds, fd, clients>>

---------------------------------------------------------------------------
(* The loop.                                                                *)

\* close_range(sfd + 1, nfds), on the way out.
close_all ==
  /\ open' = {f \in open : f > nfds}
  /\ UNCHANGED <<backlog, input, eof, signalled>>

shutdown ==
  /\ pc' = "exited"
  /\ clients' = {}
  /\ close_all
  /\ UNCHANGED <<readfds, _readfds, nfds, fd>>

top ==
  /\ pc = "top"
  /\ \/ signalled /\ shutdown
     \/ /\ ~signalled
        /\ pc' = "select"
        /\ UNCHANGED <<kernel, readfds, _readfds, nfds, fd, clients>>

readable(f) ==
  IF f = sfd THEN backlog > 0 ELSE input[f] # "empty" \/ f \in eof

watched == {f \in readfds : f <= nfds}

\* Mutation: the pass tests the set that select() did not modify.
reported_Readfds == watched

\* Mutation: one descriptor is handled for each call of select().
reported_First ==
  {f \in watched : readable(f) /\ \A g \in watched : readable(g) => f <= g}

reported == {f \in watched : readable(f)}

\* select(): the ready descriptors, or none after the timeout; EINTR if the
\* signal came while it waited; EBADF if it is given a closed descriptor.
select ==
  /\ pc = "select"
  /\ \/ /\ watched \subseteq open \cup {sfd}
        /\ pc' = "pass"
        /\ _readfds' = reported
        /\ fd' = 0
        /\ UNCHANGED <<kernel, readfds, nfds, clients>>
     \/ signalled /\ shutdown
     \/ /\ ~(watched \subseteq open \cup {sfd})
        /\ pc' = "failed"
        /\ clients' = {}
        /\ close_all
        /\ UNCHANGED <<readfds, _readfds, nfds, fd>>

\* Mutation: the bound of the loop stays where it was.
raise_nfds_Not(f) == nfds' = nfds

raise_nfds(f) == nfds' = IF f > nfds THEN f ELSE nfds

\* The lowest free number, or an error that leaves the connection waiting.
accept_connection ==
  IF Fd \subseteq open
  THEN UNCHANGED <<kernel, readfds, nfds, clients>>
  ELSE LET connfd == Min(Fd \ open) IN
       /\ backlog > 0
       /\ backlog' = backlog - 1
       /\ open' = open \cup {connfd}
       /\ input' = [input EXCEPT ![connfd] = "empty"]
       /\ eof' = eof \ {connfd}
       /\ clients' = clients \cup {connfd}
       /\ readfds' = readfds \cup {connfd}
       /\ raise_nfds(connfd)
       /\ UNCHANGED signalled

\* Mutation: the other clients are not taken into account.
lower_nfds_ToListener(f) == nfds' = IF f >= nfds THEN sfd ELSE nfds

lower_nfds(f) ==
  nfds' = IF f >= nfds THEN Max((clients \ {f}) \cup {sfd}) ELSE nfds

\* Mutation: the descriptor stays in the set.
close_client_NoClear(f) ==
  /\ open' = open \ {f}
  /\ clients' = clients \ {f}
  /\ lower_nfds(f)
  /\ UNCHANGED <<readfds, backlog, input, eof, signalled>>

\* CLOSE_CLIENT.
close_client(f) ==
  /\ open' = open \ {f}
  /\ readfds' = readfds \ {f}
  /\ clients' = clients \ {f}
  /\ lower_nfds(f)
  /\ UNCHANGED <<backlog, input, eof, signalled>>

\* bytes_available() being zero is taken for the end of the stream; a message
\* that is not complete is left for later.
serve(f) ==
  \/ input[f] = "empty" /\ close_client(f)
  \/ input[f] = "partial" /\ UNCHANGED <<kernel, readfds, nfds, clients>>
  \/ /\ input[f] = "message"
     /\ input' = [input EXCEPT ![f] = "empty"]
     /\ UNCHANGED <<backlog, open, eof, signalled, readfds, nfds, clients>>
  \/ input[f] = "malformed" /\ close_client(f)

\* The pass goes on to the next reported descriptor, or to the top.
pass ==
  LET rest == {f \in _readfds : fd <= f /\ f <= nfds} IN
  /\ pc = "pass"
  /\ UNCHANGED _readfds
  /\ \/ /\ rest = {}
        /\ pc' = "top"
        /\ UNCHANGED <<kernel, readfds, nfds, fd, clients>>
     \/ /\ rest # {}
        /\ Min(rest) = sfd
        /\ fd' = sfd + 1
        /\ accept_connection
        /\ UNCHANGED pc
     \/ /\ rest # {}
        /\ Min(rest) \in clients
        /\ fd' = Min(rest) + 1
        /\ serve(Min(rest))
        /\ UNCHANGED pc
     \/ /\ rest # {}
        /\ Min(rest) \notin clients \cup {sfd}
        /\ pc' = "aborted"
        /\ UNCHANGED <<kernel, readfds, nfds, fd, clients>>

Stopped == ~Running /\ UNCHANGED vars

go_server == top \/ select \/ pass

Init ==
  /\ backlog = 0
  /\ open = {}
  /\ input = [f \in Fd |-> "empty"]
  /\ eof = {}
  /\ signalled = FALSE
  /\ pc = "top"
  /\ readfds = {sfd}
  /\ _readfds = {}
  /\ nfds = sfd
  /\ fd = 0
  /\ clients = {}

Next == Environment \/ go_server \/ Stopped

\* The server is one thread.  It waits in select(), which has a timeout, and
\* nowhere else as long as its peers read what it sends.
Spec == Init /\ [][Next]_vars /\ WF_vars(go_server)

---------------------------------------------------------------------------
(* Properties.                                                              *)

\* Types of the variables.
TypeOK ==
  /\ backlog \in 0 .. MaxBacklog
  /\ open \subseteq Fd
  /\ input \in [Fd -> Stream]
  /\ eof \subseteq Fd
  /\ signalled \in BOOLEAN
  /\ pc \in {"top", "select", "pass", "exited", "failed", "aborted"}
  /\ readfds \subseteq Fd \cup {sfd}
  /\ _readfds \subseteq Fd \cup {sfd}
  /\ nfds \in Fd \cup {sfd}
  /\ fd \in Nat
  /\ clients \subseteq Fd

\* At any time select() is asked to watch the listening socket and every
\* connection in the table, none beyond nfds, and the table holds exactly the
\* open connections.
Watched ==
  Running =>
    /\ clients = open
    /\ readfds = clients \cup {sfd}
    /\ \A f \in readfds : f <= nfds

\* The assertion that a reported descriptor has a client never fails, and
\* select() is never given a closed descriptor, although numbers are closed
\* and reused during a pass.
NoAbort == pc \notin {"aborted", "failed"}

\* A connection is closed only after its peer has closed it or sent a
\* malformed message: the zero of bytes_available() is only looked at where
\* select() has reported this very connection, not an earlier one with the
\* same number.
OnlyDeadClosed ==
  [][\A f \in clients : (f \notin clients' /\ pc' = "pass") =>
       input[f] = "malformed" \/ (input[f] = "empty" /\ f \in eof)]_vars

\* nfds is exact, so closing the descriptors up to it at the end closes all.
ExitClosesAll == pc = "exited" => open = {}

\* Every complete message is read and every connection closed by its peer is
\* removed, whatever the others send.  A peer that closes within a message is
\* left out: its incomplete message is never read, so it stays.
Served ==
  \A f \in Fd :
    (/\ f \in open
     /\ \/ input[f] \in {"message", "malformed"}
        \/ f \in eof /\ input[f] = "empty")
      ~> (~Running \/ f \notin open \/ (input[f] = "empty" /\ f \notin eof))
=============================================================================
