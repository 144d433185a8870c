------------------------------ MODULE Framing ------------------------------
(***************************************************************************)
(* Messages on a byte stream: one direction of one TCP connection.  The     *)
(* sender writes whole messages, the network delivers them piece by piece,  *)
(* and _read_message() puts them together: for the server, which must never *)
(* wait for one client, and for the client, which blocks.                   *)
(*                                                                          *)
(* The header is two pieces long and a body as many as its length says.  A  *)
(* piece knows its message and its place in it: a header is valid if it     *)
(* begins with the first piece of a message.  The sender may die in the     *)
(* middle of a write; programs other than these two are left out.           *)
(***************************************************************************)
EXTENDS Naturals, Sequences, SequencesExt

CONSTANTS
  Length,      \* lengths of a body
  MaxMessages  \* bound on the messages that are written

ASSUME LengthAssumption == Length \subseteq Nat

ASSUME MaxMessagesAssumption == MaxMessages \in Nat

VARIABLES
  side,      \* who reads: "server" or "client"
  sent, received, ended, cut, signalled, open,  \* as in Channel
  flight,    \* pieces on the way
  input,     \* pieces that have arrived: FIONREAD counts them
  pc,        \* where the reader is: "select", "peek", "check", "recv"
  mh         \* the message whose header was read

vars == <<side, sent, received, ended, cut, signalled, open, flight, input, pc, mh>>

Message == [number : 1 .. MaxMessages, length : Length]

NoMessage == [number |-> 0, length |-> 0]

HEADER == 2

msg_size(m) == HEADER + m.length

pieces(m) == [k \in 1 .. msg_size(m) |-> [of |-> m, place |-> k]]

\* Nothing more will arrive.
eof == (ended \/ cut) /\ flight = <<>>

---------------------------------------------------------------------------
(* The sender and the network.                                              *)

reader == <<side, received, signalled, open, pc, mh>>

next_message(l) == [number |-> Len(sent) + 1, length |-> l]

write_message(l) ==
  /\ ~ended /\ ~cut /\ Len(sent) < MaxMessages
  /\ sent' = Append(sent, next_message(l))
  /\ flight' = flight \o pieces(next_message(l))
  /\ UNCHANGED <<reader, ended, cut, input>>

\* The process dies with a part of its message written.
dies(l) ==
  /\ ~ended /\ ~cut /\ Len(sent) < MaxMessages
  /\ \E k \in 1 .. msg_size(next_message(l)) - 1 :
       flight' = flight \o SubSeq(pieces(next_message(l)), 1, k)
  /\ cut' = TRUE
  /\ UNCHANGED <<reader, sent, ended, input>>

closes ==
  /\ ~ended /\ ~cut
  /\ ended' = TRUE
  /\ UNCHANGED <<reader, sent, cut, flight, input>>

arrives ==
  /\ flight # <<>>
  /\ input' = Append(input, Head(flight))
  /\ flight' = Tail(flight)
  /\ UNCHANGED <<reader, sent, ended, cut>>

---------------------------------------------------------------------------
(* The reader.                                                              *)

go(p) == pc' = p /\ UNCHANGED <<open, input, received, mh>>

\* The connection is closed, by CLOSE_CLIENT or with the process.
gives_up == open' = FALSE /\ pc' = "select" /\ UNCHANGED <<input, received, mh>>

\* select() has reported the socket.  No bytes: the end of the stream; for the
\* server, less than a header: the rest is left for another pass.
visit ==
  /\ pc = "select" /\ open
  /\ input # <<>> \/ eof
  /\ IF input = <<>> THEN gives_up
     ELSE IF side = "server" /\ Len(input) < HEADER THEN go("select")
     ELSE go("peek")
  /\ UNCHANGED <<side, sent, ended, cut, signalled, flight>>

\* The client also reads where it waits for an answer, without select().
read_message ==
  /\ pc = "select" /\ open /\ side = "client"
  /\ go("peek")
  /\ UNCHANGED <<side, sent, ended, cut, signalled, flight>>

\* recv() with MSG_WAITALL returns what was asked for, or less at the end.
returns(size) == Len(input) >= size \/ eof

\* The header, which stays in the socket.  It is valid if it begins a message.
peek ==
  /\ pc = "peek" /\ returns(HEADER)
  /\ IF Len(input) >= HEADER /\ Head(input).place = 1
     THEN /\ mh' = Head(input).of
          /\ pc' = IF side = "server" THEN "check" ELSE "recv"
          /\ UNCHANGED <<open, input, received>>
     ELSE gives_up
  /\ UNCHANGED <<side, sent, ended, cut, signalled, flight>>

\* Mutation: what is available is compared with the length of the body alone.
check_BodyOnly ==
  /\ pc = "check"
  /\ go(IF Len(input) < mh.length THEN "select" ELSE "recv")
  /\ UNCHANGED <<side, sent, ended, cut, signalled, flight>>

\* Mutation: a message that is not complete is an error.
check_Closes ==
  /\ pc = "check"
  /\ IF Len(input) < msg_size(mh) THEN gives_up ELSE go("recv")
  /\ UNCHANGED <<side, sent, ended, cut, signalled, flight>>

\* Is all of it there?
check ==
  /\ pc = "check"
  /\ go(IF Len(input) < msg_size(mh) THEN "select" ELSE "recv")
  /\ UNCHANGED <<side, sent, ended, cut, signalled, flight>>

\* What the dispatcher gets for the bytes that were read.
parsed(bytes) == IF bytes = pieces(mh) THEN mh ELSE NoMessage

\* The whole message.
recv ==
  /\ pc = "recv" /\ returns(msg_size(mh))
  /\ IF Len(input) < msg_size(mh) THEN gives_up
     ELSE /\ received' = Append(received, parsed(SubSeq(input, 1, msg_size(mh))))
          /\ input' = SubSeq(input, msg_size(mh) + 1, Len(input))
          /\ pc' = "select" /\ mh' = NoMessage
          /\ UNCHANGED open
  /\ UNCHANGED <<side, sent, ended, cut, signalled, flight>>

\* A signal fails the recv() that blocks, or is noticed by the loop: the process
\* ends.
signal ==
  /\ ~signalled
  /\ signalled' = TRUE
  /\ UNCHANGED <<side, sent, received, ended, cut, open, flight, input, pc, mh>>

interrupted ==
  /\ signalled /\ open
  /\ \/ pc = "select"
     \/ pc = "peek" /\ ~returns(HEADER)
     \/ pc = "recv" /\ ~returns(msg_size(mh))
  /\ gives_up
  /\ UNCHANGED <<side, sent, ended, cut, signalled, flight>>

---------------------------------------------------------------------------
Init ==
  /\ side \in {"server", "client"}
  /\ sent = <<>> /\ received = <<>>
  /\ ended = FALSE /\ cut = FALSE /\ signalled = FALSE
  /\ open = TRUE
  /\ flight = <<>> /\ input = <<>>
  /\ pc = "select"
  /\ mh = NoMessage

reads == visit \/ peek \/ check \/ recv

Stopped == ~open /\ UNCHANGED vars

Next ==
  \/ \E l \in Length : write_message(l) \/ dies(l)
  \/ closes \/ arrives
  \/ read_message \/ reads
  \/ signal \/ interrupted
  \/ Stopped

\* The network delivers, and the reader runs: select() reports what is there.
Spec == Init /\ [][Next]_vars /\ WF_vars(arrives) /\ WF_vars(reads)

---------------------------------------------------------------------------
(* Properties.                                                              *)

\* The server never waits for one client: when it calls recv() the bytes it asks
\* for are there, however they arrive and although it asks twice.
NeverBlocks ==
  side = "server" =>
    /\ pc = "peek" => Len(input) >= HEADER
    /\ pc = "recv" => Len(input) >= msg_size(mh)

\* Whatever the pieces, the messages are received whole, once and in order, all of
\* them; a connection is given up when its sender has closed it and nothing is
\* unread, or because of a signal, and in the first case certainly.
Chan == INSTANCE Channel

Carries == Chan!FairSpec
=============================================================================
