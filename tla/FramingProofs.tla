--------------------------- MODULE FramingProofs ---------------------------
(***************************************************************************)
(* One direction of a connection: proofs for messages of any lengths, cut   *)
(* into pieces and delivered in any way.                                    *)
(*                                                                          *)
(* The invariant says of the bytes between the two programs, those on the   *)
(* way and those unread, that they are whole messages one after the other,  *)
(* the next of which is the first that is not received; only the last may   *)
(* be incomplete, and only if its sender died.  It is stated for positions  *)
(* in the stream, so that no induction over the stream is needed.           *)
(***************************************************************************)
EXTENDS Framing, SequenceTheorems, TLAPS

---------------------------------------------------------------------------
Piece == [of : Message, place : Nat]

\* Types of the variables.
TypeOK ==
  /\ side \in {"server", "client"}
  /\ sent \in Seq(Message) /\ received \in Seq(Message)
  /\ ended \in BOOLEAN /\ cut \in BOOLEAN /\ signalled \in BOOLEAN /\ open \in BOOLEAN
  /\ flight \in Seq(Piece) /\ input \in Seq(Piece)
  /\ pc \in {"select", "peek", "check", "recv"}
  /\ mh \in Message \cup {NoMessage}

\* The reader is in the middle of a message only on an open connection, and then
\* has read its header; the server has waited for what it asks for.
Reading ==
  /\ pc # "select" => open
  /\ pc = "peek" /\ side = "server" => Len(input) >= HEADER
  /\ pc \in {"check", "recv"} =>
       Len(input) >= HEADER /\ mh = input[1].of /\ mh \in Message
  /\ pc = "check" => side = "server"
  /\ pc = "recv" /\ side = "server" => Len(input) >= msg_size(mh)

\* What was written and is not read.
stream == input \o flight

\* Where the message of the i-th piece of s starts, less one, and where it ends.
before(s, i) == i - s[i].place
finish(s, i) == before(s, i) + msg_size(s[i].of)

\* The i-th piece of s is in its place in a message.
InPlace(s, i) ==
  /\ s[i].place \in 1 .. msg_size(s[i].of) /\ before(s, i) \in Nat
  /\ \A j \in 1 .. Len(s) :
       (before(s, i) < j /\ j <= finish(s, i)) =>
          s[j] = [of |-> s[i].of, place |-> j - before(s, i)]

\* Its message is one of those written, and is followed by the next one, or is the
\* last, or is the one that was not finished.
InOrder(s, i) ==
  /\ s[i].of.number \in 1 .. Len(sent) + 1
  /\ s[i].of.number <= Len(sent) => s[i].of = sent[s[i].of.number]
  /\ finish(s, i) < Len(s) =>
       /\ s[finish(s, i) + 1].place = 1
       /\ s[finish(s, i) + 1].of.number = s[i].of.number + 1
  /\ finish(s, i) = Len(s) => ~cut /\ s[i].of.number = Len(sent)
  /\ finish(s, i) > Len(s) => cut /\ s[i].of.number = Len(sent) + 1

\* The messages of the stream are those that are still to be received.
Whole(s) ==
  /\ \A i \in 1 .. Len(s) : InPlace(s, i) /\ InOrder(s, i)
  /\ Len(s) > 0 => s[1].place = 1 /\ s[1].of.number = Len(received) + 1
  /\ Len(s) = 0 => Len(received) = Len(sent)

\* What is received is what was sent, as far as it goes.
Prefix ==
  /\ Len(received) <= Len(sent)
  /\ \A k \in 1 .. Len(received) : received[k] = sent[k]

IInv == TypeOK /\ Reading /\ Whole(stream) /\ Prefix

---------------------------------------------------------------------------
(* Messages and the stream.                                                 *)

\* A message takes two pieces at least.
LEMMA Sizes ==
  /\ \A m \in Message : msg_size(m) \in Nat /\ msg_size(m) >= 2
  /\ \A m \in Message : m.number \in Nat
  /\ HEADER = 2 /\ NoMessage.length = 0 /\ msg_size(NoMessage) = 2
<1>1. \A m \in Message : m.length \in Nat
  BY LengthAssumption DEF Message
<1>2. \A m \in Message : m.number \in Nat
  BY MaxMessagesAssumption DEF Message
<1> QED BY <1>1, <1>2 DEF msg_size, HEADER, NoMessage

\* The message that is written next.
LEMMA NextMessage ==
  ASSUME TypeOK, NEW l \in Length, Len(sent) < MaxMessages
  PROVE  next_message(l) \in Message /\ next_message(l).number = Len(sent) + 1
<1>1. Len(sent) \in Nat
  BY DEF TypeOK
<1> QED BY <1>1, MaxMessagesAssumption DEF next_message, Message

\* The pieces of a message.
LEMMA WholePieces ==
  ASSUME NEW m \in Message
  PROVE  pieces(m) \in Seq(Piece) /\ Len(pieces(m)) = msg_size(m)
<1> DEFINE n == msg_size(m)
<1>1. n \in Nat /\ n > 0
  BY Sizes
<1>2. pieces(m) \in [1 .. n -> Piece]
  BY DEF pieces, Piece
<1>3. DOMAIN pieces(m) = 1 .. n
  BY DEF pieces
<1> HIDE DEF n
<1>4. pieces(m) \in Seq(Piece)
  BY <1>1, <1>2, SeqDef
<1>5. Len(pieces(m)) \in Nat /\ 1 .. Len(pieces(m)) = 1 .. n
  BY <1>3, <1>4, LenProperties
<1>6. Len(pieces(m)) = n
  BY <1>1, <1>5
<1> QED BY <1>4, <1>6 DEF n

\* The first k pieces of a message.
LEMMA Pieces ==
  ASSUME NEW m \in Message, NEW k \in 0 .. msg_size(m)
  PROVE  LET t == SubSeq(pieces(m), 1, k) IN
         /\ t \in Seq(Piece) /\ Len(t) = k
         /\ \A j \in 1 .. k : t[j] = [of |-> m, place |-> j]
<1>1. pieces(m) \in Seq(Piece) /\ Len(pieces(m)) = msg_size(m)
  BY WholePieces
<1>2. \A j \in 1 .. msg_size(m) : pieces(m)[j] = [of |-> m, place |-> j]
  BY DEF pieces
<1> HIDE DEF Piece
<1> QED BY <1>1, <1>2, Sizes, SubSeqProperties

\* All of them are the message.
LEMMA AllPieces ==
  ASSUME NEW m \in Message
  PROVE  pieces(m) = SubSeq(pieces(m), 1, msg_size(m))
<1>1. pieces(m) \in Seq(Piece) /\ Len(pieces(m)) = msg_size(m)
  BY WholePieces
<1> QED BY <1>1, SubSeqFull

\* Pieces that arrived come before those on the way.
LEMMA Stream ==
  ASSUME TypeOK
  PROVE  /\ stream \in Seq(Piece)
         /\ Len(stream) = Len(input) + Len(flight)
         /\ Len(input) \in Nat /\ Len(flight) \in Nat
         /\ \A i \in 1 .. Len(input) : stream[i] = input[i]
BY DEF TypeOK, stream

\* What is written is added at the end.
LEMMA Written ==
  ASSUME TypeOK, NEW t \in Seq(Piece), flight' = flight \o t, input' = input
  PROVE  stream' = stream \o t
BY ConcatAssociative DEF TypeOK, stream

\* What arrives stays in its place.
LEMMA Arrived ==
  ASSUME TypeOK, arrives
  PROVE  stream' = stream
<1>1. flight = <<Head(flight)>> \o Tail(flight)
  <2>1. flight \in Seq(Piece) /\ flight # <<>>
    BY DEF TypeOK, arrives
  <2> QED BY <2>1
<1>2. input' = input \o <<Head(flight)>> /\ flight' = Tail(flight)
  BY AppendIsConcat DEF TypeOK, arrives
<1>3. <<Head(flight)>> \in Seq(Piece) /\ Tail(flight) \in Seq(Piece) /\ input \in Seq(Piece)
  BY DEF TypeOK, arrives
<1>4. (input \o <<Head(flight)>>) \o Tail(flight) = input \o (<<Head(flight)>> \o Tail(flight))
  BY <1>3, ConcatAssociative
<1> QED BY <1>1, <1>2, <1>4 DEF stream

\* What c elements less at the front of a sequence do to what it is the front of.
LEMMA Dropped ==
  ASSUME NEW S, NEW s \in Seq(S), NEW t \in Seq(S), NEW u \in Seq(S), NEW c \in Nat,
         c <= Len(s), Len(u) = Len(s) - c, \A i \in 1 .. Len(u) : u[i] = s[i + c],
         NEW v, v = u \o t, NEW w, w = s \o t
  PROVE  /\ Len(v) = Len(w) - c
         /\ \A i \in 1 .. Len(w) - c : v[i] = w[i + c]
<1>1. /\ Len(w) = Len(s) + Len(t)
      /\ \A i \in 1 .. Len(s) + Len(t) :
           w[i] = IF i <= Len(s) THEN s[i] ELSE t[i - Len(s)]
  BY ConcatProperties
<1>2. /\ Len(v) = Len(u) + Len(t)
      /\ \A i \in 1 .. Len(u) + Len(t) :
           v[i] = IF i <= Len(u) THEN u[i] ELSE t[i - Len(u)]
  BY ConcatProperties
<1>3. Len(s) \in Nat /\ Len(t) \in Nat /\ Len(u) \in Nat
  BY LenProperties
<1>4. ASSUME NEW i \in 1 .. Len(w) - c PROVE v[i] = w[i + c]
  <2>1. i \in 1 .. Len(u) + Len(t) /\ i + c \in 1 .. Len(s) + Len(t)
    BY <1>1, <1>3
  <2>2. CASE i <= Len(u)
    <3>1. i + c <= Len(s) /\ i \in 1 .. Len(u)
      BY <1>3, <2>1, <2>2
    <3> QED BY <1>1, <1>2, <2>1, <2>2, <3>1
  <2>3. CASE ~(i <= Len(u))
    <3>1. ~(i + c <= Len(s)) /\ i - Len(u) = (i + c) - Len(s)
      BY <1>3, <2>1, <2>3
    <3> QED BY <1>1, <1>2, <2>1, <2>3, <3>1
  <2> QED BY <2>2, <2>3
<1> QED BY <1>1, <1>2, <1>3, <1>4

\* The end of a sequence.
LEMMA EndOfSeq ==
  ASSUME NEW S, NEW s \in Seq(S), NEW c \in Nat, c <= Len(s)
  PROVE  LET u == SubSeq(s, c + 1, Len(s)) IN
         /\ u \in Seq(S) /\ Len(u) = Len(s) - c
         /\ \A i \in 1 .. Len(u) : u[i] = s[i + c]
<1> DEFINE l == Len(s)
           u == SubSeq(s, c + 1, l)
<1>1. l \in Nat /\ c <= l /\ \A i \in 1 .. l : s[i] \in S
  BY LenProperties
<1> HIDE DEF l
<1>2. c + 1 \in Int /\ l \in Int /\ \A i \in c + 1 .. l : s[i] \in S
  BY <1>1
<1>3. /\ u \in Seq(S)
      /\ Len(u) = IF c + 1 <= l THEN l - (c + 1) + 1 ELSE 0
      /\ \A i \in 1 .. l - (c + 1) + 1 : u[i] = s[c + 1 + i - 1]
  BY <1>2, SubSeqProperties
<1> HIDE DEF u
<1>4. Len(u) = l - c
  BY <1>1, <1>3
<1>5. ASSUME NEW i \in 1 .. Len(u) PROVE u[i] = s[i + c]
  <2>1. i \in 1 .. l - (c + 1) + 1 /\ c + 1 + i - 1 = i + c
    BY <1>1, <1>4
  <2> QED BY <1>3, <2>1
<1> QED BY <1>3, <1>4, <1>5 DEF l, u

\* What is read is taken from the front.
LEMMA Taken ==
  ASSUME TypeOK, NEW c \in Nat, c <= Len(input), input' = SubSeq(input, c + 1, Len(input)),
         flight' = flight
  PROVE  /\ input' \in Seq(Piece)
         /\ Len(stream') = Len(stream) - c
         /\ \A i \in 1 .. Len(stream) - c : stream'[i] = stream[i + c]
<1> DEFINE u == SubSeq(input, c + 1, Len(input))
<1>1. input \in Seq(Piece) /\ flight \in Seq(Piece)
  BY DEF TypeOK
<1>2. u \in Seq(Piece) /\ Len(u) = Len(input) - c /\ \A i \in 1 .. Len(u) : u[i] = input[i + c]
  BY <1>1, EndOfSeq
<1>3. stream' = u \o flight /\ stream = input \o flight /\ input' = u
  BY DEF stream
<1> HIDE DEF u
<1>4. /\ Len(stream') = Len(stream) - c
      /\ \A i \in 1 .. Len(stream) - c : stream'[i] = stream[i + c]
  BY <1>1, <1>2, <1>3, Dropped
<1> QED BY <1>2, <1>3, <1>4

---------------------------------------------------------------------------
(* The stream stays whole.                                                  *)

\* What is known of a piece of the stream.
LEMMA APiece ==
  ASSUME TypeOK, Whole(stream), NEW i \in 1 .. Len(stream)
  PROVE  /\ stream[i].of \in Message /\ stream[i].place \in Nat
         /\ msg_size(stream[i].of) \in Nat /\ msg_size(stream[i].of) >= 2
         /\ Len(stream) \in Nat /\ i \in Nat /\ Len(sent) \in Nat
         /\ stream[i].place >= 1 /\ stream[i].place <= msg_size(stream[i].of)
         /\ stream[i].of.number \in Nat
         /\ before(stream, i) \in Nat /\ before(stream, i) < i /\ i <= finish(stream, i)
         /\ finish(stream, i) \in Nat
<1>1. stream \in Seq(Piece) /\ Len(stream) \in Nat /\ Len(sent) \in Nat
  BY Stream, LenProperties DEF TypeOK
<1>2. stream[i] \in Piece
  BY <1>1
<1>3. /\ stream[i].of \in Message /\ stream[i].place \in Nat
      /\ msg_size(stream[i].of) \in Nat /\ msg_size(stream[i].of) >= 2
      /\ stream[i].of.number \in Nat
  BY <1>2, Sizes DEF Piece
<1>4. stream[i].place \in 1 .. msg_size(stream[i].of) /\ before(stream, i) \in Nat
  BY DEF Whole, InPlace
<1> QED BY <1>1, <1>3, <1>4 DEF before, finish

\* A sequence and what is added to it.
LEMMA Joined ==
  ASSUME NEW S, NEW s \in Seq(S), NEW t \in Seq(S), NEW n, n = Len(s),
         NEW k, k = Len(t), NEW v, v = s \o t
  PROVE  /\ Len(v) = n + k
         /\ \A i \in 1 .. n : v[i] = s[i]
         /\ \A j \in 1 .. k : v[n + j] = t[j]
<1>1. /\ Len(v) = n + k
      /\ \A i \in 1 .. n + k : v[i] = IF i <= n THEN s[i] ELSE t[i - n]
  BY ConcatProperties
<1>2. n \in Nat /\ k \in Nat
  BY LenProperties
<1>3. \A i \in 1 .. n : i \in 1 .. n + k /\ i <= n
  BY <1>2
<1>4. \A j \in 1 .. k : n + j \in 1 .. n + k /\ ~(n + j <= n) /\ (n + j) - n = j
  BY <1>2
<1> QED BY <1>1, <1>3, <1>4

\* A message, or a part of the last one, is added at the end.
LEMMA Extended ==
  ASSUME TypeOK, Whole(stream), Prefix, ~cut,
         NEW m \in Message, m.number = Len(sent) + 1, NEW k \in 1 .. msg_size(m),
         flight' = flight \o SubSeq(pieces(m), 1, k), input' = input, received' = received,
         \/ k = msg_size(m) /\ sent' = Append(sent, m) /\ cut' = FALSE
         \/ k < msg_size(m) /\ sent' = sent /\ cut' = TRUE
  PROVE  Whole(stream)'
<1> DEFINE s == stream
           r == stream'
           n == Len(stream)
           t == SubSeq(pieces(m), 1, k)
           d == msg_size(m)
<1>1. d \in Nat /\ d >= 2 /\ k \in Nat /\ k <= d /\ k >= 1
  BY Sizes
<1>2. t \in Seq(Piece) /\ Len(t) = k /\ \A j \in 1 .. k : t[j] = [of |-> m, place |-> j]
  BY <1>1, Pieces
<1>3. r = s \o t /\ s \in Seq(Piece) /\ n \in Nat
  BY <1>2, Written, Stream, LenProperties
<1>4. /\ Len(r) = n + k
      /\ \A i \in 1 .. n : r[i] = s[i]
      /\ \A j \in 1 .. k : r[n + j] = [of |-> m, place |-> j]
  <2>1. Len(s) = n /\ Len(t) = k
    BY <1>2
  <2> HIDE DEF t, s, r, n
  <2>2. /\ Len(r) = n + k
        /\ \A i \in 1 .. n : r[i] = s[i]
        /\ \A j \in 1 .. k : r[n + j] = t[j]
    <3>1. s \in Seq(Piece) /\ t \in Seq(Piece) /\ n = Len(s) /\ k = Len(t) /\ r = s \o t
      BY <1>2, <1>3, <2>1
    <3> HIDE DEF Piece
    <3> QED BY ONLY <3>1, Joined
  <2> QED BY <1>2, <2>2
<1>5. /\ Len(sent) \in Nat /\ Len(received) \in Nat /\ Len(received) <= Len(sent)
      /\ sent \in Seq(Message)
  BY LenProperties DEF TypeOK, Prefix
<1>6. /\ k = d => Len(sent') = Len(sent) + 1 /\ cut' = FALSE /\ sent'[Len(sent) + 1] = m
                  /\ \A j \in 1 .. Len(sent) : sent'[j] = sent[j]
      /\ k < d => sent' = sent /\ cut' = TRUE
  <2>1. ASSUME k = d
        PROVE  Len(sent') = Len(sent) + 1 /\ cut' = FALSE /\ sent'[Len(sent) + 1] = m
               /\ \A j \in 1 .. Len(sent) : sent'[j] = sent[j]
    <3>1. sent' = Append(sent, m) /\ cut' = FALSE
      BY <1>1, <2>1
    <3> QED BY <1>5, <3>1, AppendProperties
  <2>2. k < d => sent' = sent /\ cut' = TRUE
    BY <1>1
  <2> HIDE DEF d
  <2> QED BY <2>1, <2>2
<1>7. ASSUME NEW i \in 1 .. n
      PROVE  /\ s[i].of \in Message /\ s[i].place \in Nat
             /\ msg_size(s[i].of) \in Nat /\ s[i].of.number \in Nat
             /\ before(s, i) \in Nat /\ before(s, i) < i /\ i <= finish(s, i)
             /\ finish(s, i) \in Nat /\ finish(s, i) <= n
             /\ InPlace(s, i) /\ InOrder(s, i)
             /\ s[i].of.number <= Len(sent)
             /\ r[i] = s[i] /\ before(r, i) = before(s, i) /\ finish(r, i) = finish(s, i)
  <2>1. /\ s[i].of \in Message /\ s[i].place \in Nat
        /\ msg_size(s[i].of) \in Nat /\ s[i].of.number \in Nat
        /\ before(s, i) \in Nat /\ before(s, i) < i /\ i <= finish(s, i)
        /\ finish(s, i) \in Nat
    BY APiece
  <2>2. InPlace(s, i) /\ InOrder(s, i)
    BY DEF Whole
  <2>3. r[i] = s[i] /\ before(r, i) = before(s, i) /\ finish(r, i) = finish(s, i)
    BY <1>4 DEF before, finish
  <2>4. finish(s, i) <= n
    BY <1>3, <2>1, <2>2 DEF InOrder
  <2>5. s[i].of.number <= Len(sent)
    <3>1. CASE finish(s, i) = n
      BY <1>5, <2>2, <3>1 DEF InOrder
    <3>2. CASE finish(s, i) < n
      <4> DEFINE f == finish(s, i) + 1
      <4>1. f \in 1 .. n /\ s[f].of.number = s[i].of.number + 1
        BY <1>3, <2>1, <2>2, <3>2, SMTT(30) DEF InOrder
      <4>2. s[f].of.number \in 1 .. Len(sent) + 1
        BY <4>1 DEF Whole, InOrder
      <4> QED BY <1>5, <2>1, <4>1, <4>2, SMTT(30)
    <3> QED BY <1>3, <2>1, <2>4, <3>1, <3>2
  <2> QED BY <2>1, <2>2, <2>3, <2>4, <2>5
<1>8. n = 0 => Len(received) = Len(sent)
  BY DEF Whole
<1>9. n > 0 => s[1].place = 1 /\ s[1].of.number = Len(received) + 1
  BY DEF Whole
<1>10. r = stream'
  OBVIOUS
<1> HIDE DEF s, r, n, t, d
<1>11. ASSUME NEW j \in 1 .. k
       PROVE  /\ r[n + j].of = m /\ r[n + j].place = j
              /\ before(r, n + j) = n /\ finish(r, n + j) = n + d
  <2>1. r[n + j] = [of |-> m, place |-> j]
    BY <1>4
  <2>3. r[n + j].of = m /\ r[n + j].place = j
    BY <2>1
  <2>2. (n + j) - j = n
    BY <1>1, <1>3
  <2> QED BY <2>2, <2>3 DEF before, finish, d
<1>12. ASSUME NEW i \in 1 .. n + k PROVE InPlace(r, i)
  <2>1. CASE i \in 1 .. n
    <3>1. \A j \in 1 .. n + k : (before(r, i) < j /\ j <= finish(r, i)) =>
             r[j] = [of |-> r[i].of, place |-> j - before(r, i)]
      <4> SUFFICES ASSUME NEW j \in 1 .. n + k, before(r, i) < j, j <= finish(r, i)
                   PROVE  r[j] = [of |-> r[i].of, place |-> j - before(r, i)]
        OBVIOUS
      <4>1. j \in 1 .. n /\ before(s, i) < j /\ j <= finish(s, i)
        BY <1>3, <1>7, <2>1
      <4>2. s[j] = [of |-> s[i].of, place |-> j - before(s, i)]
        BY <1>7, <2>1, <4>1 DEF InPlace, n, s
      <4> QED BY <1>7, <2>1, <4>1, <4>2
    <3>2. r[i].place \in 1 .. msg_size(r[i].of) /\ before(r, i) \in Nat
      BY <1>7, <2>1 DEF InPlace
    <3> QED BY <1>4, <3>1, <3>2 DEF InPlace
  <2>2. CASE i \notin 1 .. n
    <3>1. PICK j \in 1 .. k : i = n + j
      <4>1. i - n \in 1 .. k /\ i = n + (i - n)
        BY <1>1, <1>3, <2>2
      <4> QED BY <4>1
    <3>2. r[i].of = m /\ r[i].place = j /\ before(r, i) = n /\ finish(r, i) = n + d
      BY <1>11, <3>1
    <3>3. ASSUME NEW h \in 1 .. n + k, n < h
          PROVE  r[h] = [of |-> m, place |-> h - n]
      <4>1. h - n \in 1 .. k /\ n + (h - n) = h
        BY <1>1, <1>3, <3>3
      <4> QED BY <1>4, <4>1
    <3>4. r[i].place \in 1 .. msg_size(r[i].of) /\ before(r, i) \in Nat
      BY <1>1, <1>3, <3>2 DEF d
    <3> QED BY <1>4, <3>2, <3>3, <3>4 DEF InPlace
  <2> QED BY <2>1, <2>2
<1>13. ASSUME NEW i \in 1 .. n + k PROVE InOrder(stream, i)'
  <2>1. CASE i \in 1 .. n
    <3> DEFINE f == finish(s, i)
    <3>1. f \in Nat /\ f <= n /\ r[i] = s[i] /\ finish(r, i) = f /\ s[i].of.number \in Nat
          /\ s[i].of.number <= Len(sent) /\ InOrder(s, i)
      BY <1>7, <2>1
    <3> HIDE DEF f
    <3>2. r[i].of.number \in 1 .. Len(sent') + 1
      <4>1. s[i].of.number \in Nat /\ 1 <= s[i].of.number /\ s[i].of.number <= Len(sent)
        BY <3>1 DEF InOrder
      <4>2. PICK x, y, z : x = s[i].of.number /\ y = Len(sent) /\ z = Len(sent')
        OBVIOUS
      <4>3. y \in Nat /\ (z = y \/ z = y + 1)
        BY <1>1, <1>5, <1>6, <4>2
      <4>4. x \in 1 .. z + 1
        BY ONLY <4>1, <4>2, <4>3
      <4> QED BY ONLY <3>1, <4>2, <4>4
    <3>3. r[i].of.number <= Len(sent') => r[i].of = sent'[r[i].of.number]
      <4>1. s[i].of.number \in 1 .. Len(sent) /\ s[i].of = sent[s[i].of.number]
        BY <1>1, <3>1 DEF InOrder
      <4>2. \A h \in 1 .. Len(sent) : sent'[h] = sent[h]
        BY <1>1, <1>5, <1>6
      <4> QED BY ONLY <3>1, <4>1, <4>2
    <3>4. f < n + k
      BY <1>1, <1>3, <3>1
    <3>5. r[f + 1].place = 1 /\ r[f + 1].of.number = r[i].of.number + 1
      <4>1. CASE f < n
        <5>1. s[f + 1].place = 1 /\ s[f + 1].of.number = s[i].of.number + 1
          BY <3>1, <4>1 DEF InOrder, f, n, s
        <5>2. r[f + 1] = s[f + 1]
          BY <1>3, <1>4, <3>1, <4>1
        <5> QED BY <3>1, <5>1, <5>2
      <4>2. CASE f = n
        <5>1. s[i].of.number = Len(sent)
          BY <3>1, <4>2 DEF InOrder, f, n, s
        <5>2. r[n + 1].of = m /\ r[n + 1].place = 1
          BY <1>1, <1>11
        <5> QED BY <3>1, <4>2, <5>1, <5>2
      <4>3. f < n \/ f = n
        BY <1>3, <3>1
      <4> QED BY <4>1, <4>2, <4>3
    <3>6. Len(r) = n + k /\ f # n + k /\ ~(f > n + k)
      BY <1>1, <1>3, <1>4, <3>1, <3>4
    <3> QED BY <1>10, <3>1, <3>2, <3>3, <3>5, <3>6 DEF InOrder, finish, before
  <2>2. CASE i \notin 1 .. n
    <3>1. PICK j \in 1 .. k : i = n + j
      <4>1. i - n \in 1 .. k /\ i = n + (i - n)
        BY <1>1, <1>3, <2>2
      <4> QED BY <4>1
    <3>2. r[i].of = m /\ finish(r, i) = n + d
      BY <1>11, <3>1
    <3>3. CASE k = d
      BY <1>3, <1>1, <1>4, <1>5, <1>6, <1>10, <3>2, <3>3 DEF InOrder, finish, before
    <3>4. CASE k < d
      BY <1>3, <1>1, <1>4, <1>5, <1>6, <1>10, <3>2, <3>4 DEF InOrder, finish, before
    <3> QED BY <1>1, <3>3, <3>4
  <2> QED BY <2>1, <2>2
<1>14. r[1].place = 1 /\ r[1].of.number = Len(received) + 1
  <2>1. CASE n = 0
    BY <1>1, <1>8, <1>11, <2>1
  <2>2. CASE n > 0
    BY <1>3, <1>4, <1>9, <2>2
  <2>3. n = 0 \/ n > 0
    BY <1>3
  <2> QED BY <2>1, <2>2, <2>3
<1> QED BY <1>1, <1>3, <1>4, <1>10, <1>12, <1>13, <1>14, SMTT(30) DEF Whole, InPlace, before, finish

\* The first message of the stream, when it has arrived whole, is the next one to be
\* received, and its bytes are all of its pieces.
LEMMA FirstMessage ==
  ASSUME TypeOK, Whole(stream), Prefix, NEW m, Len(input) > 0, m = stream[1].of,
         msg_size(m) <= Len(input)
  PROVE  /\ m \in Message /\ msg_size(m) \in Nat /\ msg_size(m) >= 2
         /\ before(stream, 1) = 0 /\ finish(stream, 1) = msg_size(m)
         /\ m.number = Len(received) + 1 /\ m.number <= Len(sent)
         /\ m = sent[Len(received) + 1]
         /\ \A j \in 1 .. msg_size(m) : stream[j] = [of |-> m, place |-> j]
         /\ SubSeq(input, 1, msg_size(m)) = pieces(m)
<1> DEFINE s == stream
           n == Len(stream)
           c == msg_size(m)
<1>1. /\ Len(input) \in Nat /\ Len(flight) \in Nat /\ n = Len(input) + Len(flight)
      /\ \A i \in 1 .. Len(input) : s[i] = input[i]
      /\ input \in Seq(Piece) /\ Len(sent) \in Nat /\ Len(received) \in Nat
  BY Stream, LenProperties DEF TypeOK
<1>2. n \in Nat /\ n > 0 /\ 1 \in 1 .. n
  BY <1>1
<1>3. s[1].of \in Message /\ c \in Nat /\ c >= 2
  BY <1>2, APiece
<1>4. s[1].place = 1 /\ s[1].of.number = Len(received) + 1 /\ InPlace(s, 1) /\ InOrder(s, 1)
  BY <1>2 DEF Whole
<1>5. before(s, 1) = 0 /\ finish(s, 1) = c
  BY <1>3, <1>4 DEF before, finish
<1> HIDE DEF c, n, s
<1>6. c <= n /\ c <= Len(input)
  BY <1>1, <1>3 DEF c
<1>7. s[1].of = m
  BY DEF s
<1>8. \A j \in 1 .. c : s[j] = [of |-> m, place |-> j]
  <2> SUFFICES ASSUME NEW j \in 1 .. c PROVE s[j] = [of |-> m, place |-> j]
    OBVIOUS
  <2>1. j \in 1 .. n /\ 0 < j /\ j <= c /\ j - 0 = j
    BY <1>2, <1>3, <1>6
  <2> QED BY <1>4, <1>5, <1>7, <2>1 DEF InPlace, n, s
<1>9. m.number = Len(received) + 1 /\ m.number \in Nat
  BY <1>1, <1>4, <1>7
<1>10. m.number <= Len(sent)
  <2>1. CASE c = n
    <3>1. m.number = Len(sent)
      BY <1>4, <1>5, <1>7, <2>1 DEF InOrder, n, s
    <3> QED BY <1>1, <3>1
  <2>2. CASE c < n
    <3>1. s[c + 1].of.number = m.number + 1
      BY <1>4, <1>5, <1>7, <2>2 DEF InOrder, n, s
    <3>2. c + 1 \in 1 .. n
      BY <1>2, <1>3, <2>2
    <3>3. s[c + 1].of.number \in 1 .. Len(sent) + 1
      BY <3>2 DEF Whole, InOrder, n, s
    <3> QED BY <1>1, <1>9, <3>1, <3>3
  <2> QED BY <1>2, <1>3, <1>6, <2>1, <2>2
<1>11. m = sent[Len(received) + 1]
  <2>1. s[1].of.number <= Len(sent) => s[1].of = sent[s[1].of.number]
    BY <1>4 DEF InOrder
  <2> QED BY <1>7, <1>9, <1>10, <2>1
<1>12. m \in Message
  BY <1>3, <1>7
<1>13. SubSeq(input, 1, c) = pieces(m)
  <2>1. c \in 0 .. msg_size(m) /\ c = msg_size(m)
    BY <1>3 DEF c
  <2>2. pieces(m) \in Seq(Piece) /\ Len(pieces(m)) = c
    BY <1>12, <2>1, WholePieces
  <2>3. \A j \in 1 .. c : pieces(m)[j] = [of |-> m, place |-> j]
    BY DEF pieces, c
  <2> DEFINE u == SubSeq(input, 1, c)
  <2>4. u \in Seq(Piece) /\ Len(u) = c /\ \A j \in 1 .. c : u[j] = input[j]
    <3> HIDE DEF Piece
    <3>1. \A i \in 1 .. c : input[i] \in Piece
      BY <1>1, <1>3, <1>6
    <3> QED BY <1>1, <1>3, <3>1, SubSeqProperties
  <2>5. \A j \in 1 .. c : j \in 1 .. Len(input)
    BY <1>1, <1>3, <1>6
  <2>6. \A j \in 1 .. c : u[j] = pieces(m)[j]
    BY <1>1, <1>8, <2>3, <2>4, <2>5, ZenonT(60)
  <2> HIDE DEF u, Piece
  <2>7. u = pieces(m)
    BY <2>2, <2>4, <2>6, SeqEqual
  <2> QED BY <2>7 DEF u
<1> QED BY <1>3, <1>5, <1>8, <1>9, <1>10, <1>11, <1>12, <1>13 DEF c, s

\* That message is taken away: the rest is still whole.
LEMMA Shrunk ==
  ASSUME TypeOK, Whole(stream), Prefix, NEW m, Len(input) > 0, m = stream[1].of,
         msg_size(m) <= Len(input),
         input' = SubSeq(input, msg_size(m) + 1, Len(input)), flight' = flight,
         sent' = sent, cut' = cut, received' = Append(received, m)
  PROVE  Whole(stream)'
<1> DEFINE s == stream
           r == stream'
           n == Len(stream)
           c == msg_size(m)
<1>1. /\ m \in Message /\ c \in Nat /\ c >= 2
      /\ before(s, 1) = 0 /\ finish(s, 1) = c
      /\ m.number = Len(received) + 1 /\ m.number <= Len(sent)
      /\ \A j \in 1 .. c : s[j] = [of |-> m, place |-> j]
  BY FirstMessage
<1>2. /\ Len(input) \in Nat /\ Len(flight) \in Nat /\ n = Len(input) + Len(flight)
      /\ Len(sent) \in Nat /\ Len(received) \in Nat /\ received \in Seq(Message)
  BY Stream, LenProperties DEF TypeOK
<1>3. n \in Nat /\ n > 0 /\ c <= n
  <2> HIDE DEF n
  <2> QED BY <1>1, <1>2
<1>4. Len(r) = n - c /\ \A i \in 1 .. n - c : r[i] = s[i + c]
  BY <1>1, Taken
<1>5. Len(received') = Len(received) + 1
  BY <1>1, <1>2, AppendProperties
<1>6. InOrder(s, 1) /\ s[1].of = m
  BY <1>3 DEF Whole
<1>7. ASSUME NEW i \in 1 .. n
      PROVE  /\ s[i].of \in Message /\ s[i].place \in Nat
             /\ msg_size(s[i].of) \in Nat /\ s[i].of.number \in Nat /\ s[i].place >= 1
             /\ before(s, i) \in Nat /\ before(s, i) < i /\ i <= finish(s, i)
             /\ finish(s, i) \in Nat
             /\ InPlace(s, i) /\ InOrder(s, i)
  <2>1. InPlace(s, i) /\ InOrder(s, i)
    BY DEF Whole
  <2> QED BY <2>1, APiece
<1>8. r = stream'
  OBVIOUS
<1> HIDE DEF s, r, n, c
<1>9. ASSUME NEW i \in 1 .. n - c
      PROVE  /\ i + c \in 1 .. n /\ r[i] = s[i + c]
             /\ before(s, i + c) >= c
  <2>1. i + c \in 1 .. n /\ r[i] = s[i + c]
    BY <1>1, <1>3, <1>4
  <2> DEFINE b == before(s, i + c)
  <2>2. /\ b \in Nat /\ b < i + c /\ i + c <= finish(s, i + c)
        /\ InPlace(s, i + c) /\ finish(s, i + c) \in Nat
    BY <1>7, <2>1
  <2>3. finish(s, i + c) = b + msg_size(s[i + c].of)
    BY DEF finish
  <2> HIDE DEF b
  <2>4. SUFFICES ASSUME b < c PROVE FALSE
    BY <1>1, <2>1, <2>2 DEF b
  <2>5. b + 1 \in 1 .. n /\ b < b + 1 /\ b + 1 <= finish(s, i + c) /\ (b + 1) - b = 1
    BY <1>1, <1>3, <2>1, <2>2, <2>4
  <2>6. s[b + 1] = [of |-> s[i + c].of, place |-> 1]
    BY <2>2, <2>5 DEF InPlace, b, n, s
  <2>7. b + 1 \in 1 .. c
    BY <1>1, <2>2, <2>4
  <2>8. s[b + 1] = [of |-> m, place |-> b + 1]
    BY <1>1, <2>7
  <2>9. s[i + c].of = m /\ b + 1 = 1
    BY <2>6, <2>8
  <2>10. b = 0 /\ finish(s, i + c) = c
    BY <1>1, <2>2, <2>3, <2>9 DEF c
  <2> QED BY <1>1, <1>3, <2>2, <2>10
<1>10. ASSUME NEW i \in 1 .. n - c
       PROVE  /\ before(r, i) = before(s, i + c) - c
              /\ finish(r, i) = finish(s, i + c) - c
  <2>1. r[i] = s[i + c] /\ i + c \in 1 .. n
    BY <1>9
  <2>2. msg_size(s[i + c].of) \in Nat /\ s[i + c].place \in Nat
    BY <1>7, <2>1
  <2>3. i - s[i + c].place = ((i + c) - s[i + c].place) - c
    BY <1>1, <1>3, <2>2
  <2>4. before(r, i) = before(s, i + c) - c /\ before(s, i + c) \in Nat
    BY <1>7, <2>1, <2>3 DEF before
  <2>5. finish(r, i) = before(r, i) + msg_size(s[i + c].of)
        /\ finish(s, i + c) = before(s, i + c) + msg_size(s[i + c].of)
    BY <2>1 DEF finish
  <2> QED BY <1>1, <2>2, <2>4, <2>5
<1>11. ASSUME NEW i \in 1 .. n - c PROVE InPlace(r, i)
  <2>1. /\ i + c \in 1 .. n /\ r[i] = s[i + c] /\ before(s, i + c) >= c
        /\ before(r, i) = before(s, i + c) - c /\ finish(r, i) = finish(s, i + c) - c
    BY <1>9, <1>10
  <2>2. InPlace(s, i + c) /\ before(s, i + c) \in Nat /\ finish(s, i + c) \in Nat
    BY <1>7, <2>1
  <2>3. r[i].place \in 1 .. msg_size(r[i].of)
    BY <2>1, <2>2 DEF InPlace
  <2>4. before(r, i) \in Nat
    BY <1>1, <2>1, <2>2
  <2>5. ASSUME NEW j \in 1 .. n - c, before(r, i) < j, j <= finish(r, i)
        PROVE  r[j] = [of |-> r[i].of, place |-> j - before(r, i)]
    <3>1. /\ j + c \in 1 .. n /\ before(s, i + c) < j + c /\ j + c <= finish(s, i + c)
          /\ (j + c) - before(s, i + c) = j - before(r, i)
      BY <1>1, <1>3, <2>1, <2>2, <2>5
    <3>2. s[j + c] = [of |-> s[i + c].of, place |-> (j + c) - before(s, i + c)]
      BY <2>2, <3>1 DEF InPlace, n, s
    <3> QED BY <1>4, <2>1, <3>1, <3>2
  <2> QED BY <1>4, <2>3, <2>4, <2>5 DEF InPlace
<1>12. ASSUME NEW i \in 1 .. n - c PROVE InOrder(stream, i)'
  <2> DEFINE f == finish(s, i + c)
  <2>1. /\ i + c \in 1 .. n /\ r[i] = s[i + c] /\ finish(r, i) = f - c /\ f \in Nat
        /\ InOrder(s, i + c) /\ f >= i + c
    BY <1>1, <1>3, <1>7, <1>9, <1>10
  <2> HIDE DEF f
  <2>2. f - c < n - c => f < n /\ (f - c) + 1 \in 1 .. n - c /\ ((f - c) + 1) + c = f + 1
    BY <1>1, <1>3, <2>1
  <2>3. f - c < n - c => r[(f - c) + 1].place = 1
                         /\ r[(f - c) + 1].of.number = r[i].of.number + 1
    <3> HAVE f - c < n - c
    <3>1. s[f + 1].place = 1 /\ s[f + 1].of.number = s[i + c].of.number + 1
      BY <2>1, <2>2 DEF InOrder, f, n, s
    <3>2. r[(f - c) + 1] = s[f + 1]
      BY <1>4, <2>2
    <3> QED BY <2>1, <3>1, <3>2
  <2>4. f - c = n - c => ~cut /\ r[i].of.number = Len(sent)
    <3> HAVE f - c = n - c
    <3>1. f = n
      BY <1>1, <1>3, <2>1
    <3> QED BY <2>1, <3>1 DEF InOrder, f, n, s
  <2>5. f - c > n - c => cut /\ r[i].of.number = Len(sent) + 1
    <3> HAVE f - c > n - c
    <3>1. f > n
      BY <1>1, <1>3, <2>1
    <3> QED BY <2>1, <3>1 DEF InOrder, f, n, s
  <2>6. /\ r[i].of.number \in 1 .. Len(sent) + 1
        /\ r[i].of.number <= Len(sent) => r[i].of = sent[r[i].of.number]
    BY <2>1 DEF InOrder
  <2> QED BY <1>4, <1>8, <2>1, <2>3, <2>4, <2>5, <2>6 DEF InOrder, finish, before
<1>13. n - c > 0 => r[1].place = 1 /\ r[1].of.number = Len(received') + 1
  <2> HAVE n - c > 0
  <2>1. c < n /\ 1 \in 1 .. n - c /\ 1 + c = c + 1
    BY <1>1, <1>3
  <2>2. s[c + 1].place = 1 /\ s[c + 1].of.number = m.number + 1
    BY <1>1, <1>6, <2>1 DEF InOrder, n, s
  <2>3. r[1] = s[c + 1]
    BY <1>4, <2>1
  <2> QED BY <1>1, <1>2, <1>5, <2>2, <2>3
<1>14. n - c = 0 => Len(received') = Len(sent')
  <2> HAVE n - c = 0
  <2>1. c = n
    BY <1>1, <1>3
  <2>2. m.number = Len(sent)
    BY <1>1, <1>6, <2>1 DEF InOrder, n, s
  <2> QED BY <1>1, <1>5, <2>2
<1> QED BY <1>4, <1>8, <1>11, <1>12, <1>13, <1>14 DEF Whole, InPlace, before, finish

---------------------------------------------------------------------------
(* The invariant.                                                           *)

\* What recv() does with a message that is there.
LEMMA Received ==
  ASSUME IInv, recv, ~(Len(input) < msg_size(mh))
  PROVE  /\ Len(input) > 0 /\ mh = stream[1].of /\ msg_size(mh) <= Len(input)
         /\ mh \in Message /\ mh = sent[Len(received) + 1] /\ Len(received) < Len(sent)
         /\ received' = Append(received, mh)
         /\ input' = SubSeq(input, msg_size(mh) + 1, Len(input))
         /\ pc' = "select" /\ mh' = NoMessage
         /\ UNCHANGED <<side, sent, ended, cut, signalled, open, flight>>
<1>1. TypeOK /\ Whole(stream) /\ Prefix /\ Reading /\ pc = "recv"
  BY DEF IInv, recv
<1>2. Len(input) \in Nat /\ Len(input) >= 2 /\ mh = input[1].of /\ mh \in Message
  BY <1>1, Stream, Sizes DEF Reading
<1>3. stream[1] = input[1]
  BY <1>1, <1>2, Stream
<1>4. msg_size(mh) \in Nat /\ msg_size(mh) <= Len(input)
  BY <1>2, Sizes
<1>5. /\ mh = sent[Len(received) + 1] /\ mh.number = Len(received) + 1
      /\ mh.number <= Len(sent) /\ SubSeq(input, 1, msg_size(mh)) = pieces(mh)
  BY <1>1, <1>2, <1>3, <1>4, FirstMessage
<1>6. Len(received) < Len(sent)
  <2>1. Len(received) \in Nat /\ Len(sent) \in Nat
    BY <1>1, LenProperties DEF TypeOK
  <2> QED BY <1>5, <2>1
<1> QED BY <1>2, <1>3, <1>4, <1>5, <1>6 DEF recv, parsed

\* Types are kept.
LEMMA TypesKept ==
  ASSUME IInv, [Next]_vars
  PROVE  TypeOK'
<1> USE DEF IInv
<1>1. TypeOK
  OBVIOUS
<1> USE <1>1 DEF TypeOK
<1> HIDE DEF Piece
<1>2. ASSUME NEW l \in Length, write_message(l) PROVE TypeOK'
  <2>1. next_message(l) \in Message
    BY <1>2, NextMessage DEF write_message
  <2>2. pieces(next_message(l)) \in Seq(Piece)
    BY <2>1, WholePieces
  <2>3. sent' \in Seq(Message) /\ flight' \in Seq(Piece)
    BY <1>2, <2>1, <2>2, AppendProperties, ConcatProperties DEF write_message
  <2> QED BY <1>2, <2>3 DEF write_message, reader
<1>3. ASSUME NEW l \in Length, dies(l) PROVE TypeOK'
  <2> DEFINE m == next_message(l)
  <2>1. m \in Message
    BY <1>3, NextMessage DEF dies
  <2> HIDE DEF m
  <2>2. PICK k \in 1 .. msg_size(m) - 1 : flight' = flight \o SubSeq(pieces(m), 1, k)
    BY <1>3 DEF dies, m
  <2>3. k \in 0 .. msg_size(m)
    BY <2>1, <2>2, Sizes
  <2>4. SubSeq(pieces(m), 1, k) \in Seq(Piece)
    BY <2>1, <2>3, Pieces
  <2>5. flight' \in Seq(Piece)
    BY <2>2, <2>4, ConcatProperties
  <2> QED BY <1>3, <2>5 DEF dies, reader
<1>4. CASE closes
  BY <1>4 DEF closes, reader
<1>5. CASE arrives
  <2>1. Head(flight) \in Piece /\ Tail(flight) \in Seq(Piece)
    BY <1>5, HeadTailProperties DEF arrives
  <2>2. input' \in Seq(Piece) /\ flight' \in Seq(Piece)
    BY <1>5, <2>1, AppendProperties DEF arrives
  <2> QED BY <1>5, <2>2 DEF arrives, reader
<1>6. CASE read_message
  BY <1>6 DEF read_message, go
<1>7. CASE visit
  BY <1>7 DEF visit, go, gives_up
<1>8. CASE peek
  <2>1. Len(input) >= HEADER => Head(input).of \in Message
    <3>1. Len(input) >= HEADER => input # <<>>
      BY Sizes
    <3>2. input # <<>> => Head(input) \in Piece
      BY HeadTailProperties
    <3> QED BY <3>1, <3>2 DEF Piece
  <2> QED BY <1>8, <2>1 DEF peek, go, gives_up
<1>9. CASE check
  BY <1>9 DEF check, go
<1>10. CASE recv
  <2>1. CASE Len(input) < msg_size(mh)
    BY <1>10, <2>1 DEF recv, gives_up
  <2>2. CASE ~(Len(input) < msg_size(mh))
    <3>1. /\ mh \in Message /\ msg_size(mh) <= Len(input)
          /\ received' = Append(received, mh)
          /\ input' = SubSeq(input, msg_size(mh) + 1, Len(input))
          /\ pc' = "select" /\ mh' = NoMessage
          /\ UNCHANGED <<side, sent, ended, cut, signalled, open, flight>>
      BY <1>10, <2>2, Received
    <3>2. received' \in Seq(Message)
      BY <3>1, AppendProperties
    <3>3. input' \in Seq(Piece)
      BY <3>1, Sizes, Taken
    <3> QED BY <3>1, <3>2, <3>3
  <2> QED BY <2>1, <2>2
<1>11. CASE signal
  BY <1>11 DEF signal
<1>12. CASE interrupted
  BY <1>12 DEF interrupted, gives_up
<1>13. CASE UNCHANGED vars
  BY <1>13 DEF vars
<1> HIDE DEF TypeOK, IInv
<1> QED BY <1>2, <1>3, <1>4, <1>5, <1>6, <1>7, <1>8, <1>9, <1>10, <1>11, <1>12, <1>13
        DEF Next, reads, Stopped

\* The reader has what it needs to go on.
LEMMA ReadingKept ==
  ASSUME IInv, [Next]_vars
  PROVE  Reading'
<1>1. TypeOK /\ Reading
  BY DEF IInv
<1>2. Len(input) \in Nat /\ HEADER = 2 /\ input \in Seq(Piece)
  BY <1>1, Stream, Sizes DEF TypeOK
<1> HIDE DEF Piece
<1>3. ASSUME NEW l \in Length, write_message(l) \/ dies(l) PROVE Reading'
  BY <1>1, <1>3 DEF write_message, dies, reader, Reading
<1>4. CASE closes
  BY <1>1, <1>4 DEF closes, reader, Reading
<1>5. CASE arrives
  <2>1. Head(flight) \in Piece
    BY <1>1, <1>5, HeadTailProperties DEF arrives, TypeOK
  <2>2. Len(input') = Len(input) + 1 /\ \A i \in 1 .. Len(input) : input'[i] = input[i]
    BY <1>2, <1>5, <2>1, AppendProperties DEF arrives
  <2>3. Len(input) >= 2 => Len(input') >= 2 /\ input'[1] = input[1]
    BY <1>2, <2>2
  <2>4. Len(input) >= msg_size(mh) /\ mh \in Message => Len(input') >= msg_size(mh)
    BY <1>2, <2>2, Sizes
  <2>5. UNCHANGED <<side, pc, mh, open>>
    BY <1>5 DEF arrives, reader
  <2> HIDE DEF TypeOK
  <2> QED BY <1>1, <1>2, <2>3, <2>4, <2>5 DEF Reading
<1>6. CASE read_message
  BY <1>1, <1>6 DEF read_message, go, Reading
<1>7. CASE visit
  <2>1. CASE input = <<>>
    BY <1>7, <2>1 DEF visit, gives_up, Reading
  <2>2. CASE input # <<>> /\ side = "server" /\ Len(input) < HEADER
    BY <1>7, <2>2 DEF visit, go, Reading
  <2>3. CASE input # <<>> /\ ~(side = "server" /\ Len(input) < HEADER)
    <3>1. pc' = "peek" /\ UNCHANGED <<open, side, input>> /\ open
      BY <1>7, <2>3 DEF visit, go
    <3>2. side = "server" => Len(input) >= HEADER
      BY <1>2, <2>3
    <3> QED BY <3>1, <3>2 DEF Reading
  <2> QED BY <2>1, <2>2, <2>3
<1>8. CASE peek
  <2>1. CASE Len(input) >= HEADER /\ Head(input).place = 1
    <3>1. /\ pc = "peek" /\ mh' = Head(input).of
          /\ pc' = IF side = "server" THEN "check" ELSE "recv"
          /\ UNCHANGED <<open, input, side>>
      BY <1>8, <2>1 DEF peek
    <3>2. input # <<>> /\ Head(input) = input[1] /\ input[1] \in Piece
      <4>1. Len(input) >= 2
        BY <1>2, <2>1
      <4> QED BY <1>2, <4>1
    <3>3. mh' = input'[1].of /\ mh' \in Message
      BY <3>1, <3>2 DEF Piece
    <3>4. open
      BY <1>1, <3>1 DEF Reading
    <3>5. side \in {"server", "client"}
      BY <1>1 DEF TypeOK
    <3> QED BY <2>1, <3>1, <3>3, <3>4, <3>5 DEF Reading
  <2>2. CASE ~(Len(input) >= HEADER /\ Head(input).place = 1)
    BY <1>8, <2>2 DEF peek, gives_up, Reading
  <2> QED BY <2>1, <2>2
<1>9. CASE check
  <2>1. msg_size(mh) \in Nat
    BY <1>1, <1>9, Sizes DEF Reading, check
  <2>2. pc' = "select" \/ (pc' = "recv" /\ Len(input) >= msg_size(mh))
    BY <1>2, <1>9, <2>1 DEF check, go
  <2> QED BY <1>1, <1>9, <2>2 DEF check, go, Reading
<1>10. CASE recv
  BY <1>10 DEF recv, gives_up, Reading
<1>11. CASE signal
  BY <1>1, <1>11 DEF signal, Reading
<1>12. CASE interrupted
  BY <1>12 DEF interrupted, gives_up, Reading
<1>13. CASE UNCHANGED vars
  BY <1>1, <1>13 DEF vars, Reading
<1> QED BY <1>3, <1>4, <1>5, <1>6, <1>7, <1>8, <1>9, <1>10, <1>11, <1>12, <1>13
        DEF Next, reads, Stopped

\* The stream stays whole.
LEMMA WholeKept ==
  ASSUME IInv, [Next]_vars
  PROVE  Whole(stream)'
<1>1. TypeOK /\ Whole(stream) /\ Prefix
  BY DEF IInv
<1>2. ASSUME UNCHANGED <<stream, sent, received, cut>> PROVE Whole(stream)'
  BY <1>1, <1>2 DEF Whole, InPlace, InOrder, before, finish
<1>3. ASSUME NEW l \in Length, write_message(l) PROVE Whole(stream)'
  <2> DEFINE m == next_message(l)
  <2>1. m \in Message /\ m.number = Len(sent) + 1
    BY <1>1, <1>3, NextMessage DEF write_message
  <2>2. /\ ~cut /\ cut' = FALSE /\ sent' = Append(sent, m)
        /\ input' = input /\ received' = received /\ flight' = flight \o pieces(m)
    BY <1>1, <1>3 DEF write_message, reader, TypeOK
  <2> HIDE DEF m
  <2>3. flight' = flight \o SubSeq(pieces(m), 1, msg_size(m))
    BY <2>1, <2>2, AllPieces
  <2>4. msg_size(m) \in 1 .. msg_size(m)
    BY <2>1, Sizes
  <2> QED BY <1>1, <2>1, <2>2, <2>3, <2>4, Extended
<1>4. ASSUME NEW l \in Length, dies(l) PROVE Whole(stream)'
  <2> DEFINE m == next_message(l)
  <2>1. m \in Message /\ m.number = Len(sent) + 1
    BY <1>1, <1>4, NextMessage DEF dies
  <2>2. ~cut /\ cut' = TRUE /\ sent' = sent /\ input' = input /\ received' = received
    BY <1>4 DEF dies, reader
  <2>3. PICK k \in 1 .. msg_size(m) - 1 : flight' = flight \o SubSeq(pieces(m), 1, k)
    BY <1>4 DEF dies
  <2> HIDE DEF m
  <2>4. k \in 1 .. msg_size(m) /\ k < msg_size(m)
    BY <2>1, Sizes
  <2> QED BY <1>1, <2>1, <2>2, <2>3, <2>4, Extended
<1>5. CASE closes
  BY <1>2, <1>5 DEF closes, reader, stream
<1>6. CASE arrives
  <2>1. stream' = stream
    BY <1>1, <1>6, Arrived
  <2> QED BY <1>2, <1>6, <2>1 DEF arrives, reader
<1>7. CASE read_message
  BY <1>2, <1>7 DEF read_message, go, stream
<1>8. CASE visit
  BY <1>2, <1>8 DEF visit, go, gives_up, stream
<1>9. CASE peek
  BY <1>2, <1>9 DEF peek, gives_up, stream
<1>10. CASE check
  BY <1>2, <1>10 DEF check, go, stream
<1>11. CASE recv
  <2>1. CASE Len(input) < msg_size(mh)
    BY <1>2, <1>11, <2>1 DEF recv, gives_up, stream
  <2>2. CASE ~(Len(input) < msg_size(mh))
    BY <1>1, <1>11, <2>2, Received, Shrunk
  <2> QED BY <2>1, <2>2
<1>12. CASE signal
  BY <1>2, <1>12 DEF signal, stream
<1>13. CASE interrupted
  BY <1>2, <1>13 DEF interrupted, gives_up, stream
<1>14. CASE UNCHANGED vars
  BY <1>2, <1>14 DEF vars, stream
<1> QED BY <1>3, <1>4, <1>5, <1>6, <1>7, <1>8, <1>9, <1>10, <1>11, <1>12, <1>13, <1>14
        DEF Next, reads, Stopped

\* What is received stays what was sent.
LEMMA PrefixKept ==
  ASSUME IInv, [Next]_vars
  PROVE  Prefix'
<1>1. TypeOK /\ Prefix
  BY DEF IInv
<1>2. /\ sent \in Seq(Message) /\ received \in Seq(Message)
      /\ Len(sent) \in Nat /\ Len(received) \in Nat
  BY <1>1, LenProperties DEF TypeOK
<1>3. ASSUME UNCHANGED <<sent, received>> PROVE Prefix'
  BY <1>1, <1>3 DEF Prefix
<1>4. ASSUME NEW l \in Length, write_message(l) PROVE Prefix'
  <2> DEFINE m == next_message(l)
  <2>1. m \in Message
    BY <1>1, <1>4, NextMessage DEF write_message
  <2>2. sent' = Append(sent, m) /\ received' = received
    BY <1>4 DEF write_message, reader
  <2> HIDE DEF m
  <2>3. Len(sent') = Len(sent) + 1 /\ \A k \in 1 .. Len(sent) : sent'[k] = sent[k]
    BY <1>2, <2>1, <2>2, AppendProperties
  <2> QED BY <1>1, <1>2, <2>2, <2>3 DEF Prefix
<1>5. CASE recv
  <2>1. CASE Len(input) < msg_size(mh)
    BY <1>3, <1>5, <2>1 DEF recv, gives_up
  <2>2. CASE ~(Len(input) < msg_size(mh))
    <3>1. /\ mh \in Message /\ mh = sent[Len(received) + 1] /\ Len(received) < Len(sent)
          /\ received' = Append(received, mh) /\ sent' = sent
      BY <1>5, <2>2, Received
    <3>2. /\ Len(received') = Len(received) + 1 /\ received'[Len(received) + 1] = mh
          /\ \A k \in 1 .. Len(received) : received'[k] = received[k]
      BY <1>2, <3>1, AppendProperties
    <3> QED BY <1>1, <1>2, <3>1, <3>2 DEF Prefix
  <2> QED BY <2>1, <2>2
<1>6. CASE UNCHANGED vars
  BY <1>3, <1>6 DEF vars
<1> QED BY <1>3, <1>4, <1>5, <1>6
        DEF Next, reads, Stopped, dies, closes, arrives, reader, read_message, visit, peek,
            check, signal, interrupted, go, gives_up

\* The invariant is inductive.
THEOREM Inductive == Spec => []IInv
<1>1. Init => IInv
  <2> SUFFICES ASSUME Init PROVE IInv
    OBVIOUS
  <2>1. TypeOK
    <3>1. <<>> \in Seq(Piece) /\ <<>> \in Seq(Message)
      OBVIOUS
    <3> QED BY <3>1 DEF Init, TypeOK
  <2>2. Reading
    BY DEF Init, Reading
  <2>3. Whole(stream)
    <3>1. Len(stream) = 0
      BY DEF Init, stream
    <3> QED BY <3>1 DEF Init, Whole
  <2>4. Prefix
    BY DEF Init, Prefix
  <2> QED BY <2>1, <2>2, <2>3, <2>4 DEF IInv
<1>2. IInv /\ [Next]_vars => IInv'
  BY TypesKept, ReadingKept, WholeKept, PrefixKept DEF IInv
<1> QED BY <1>1, <1>2, PTL DEF Spec

\* The server never waits for one client, whatever the lengths of the messages and
\* the pieces in which they arrive.
THEOREM NeverBlocksAlways == Spec => []NeverBlocks
<1>1. IInv => NeverBlocks
  BY DEF IInv, Reading, NeverBlocks
<1> QED BY <1>1, Inductive, PTL

---------------------------------------------------------------------------
(* The channel.                                                             *)

\* A connection is given up by a reader that is not signalled only when everything is
\* received and nothing more will come.
LEMMA GivesUp ==
  ASSUME IInv, visit \/ peek \/ recv, pc' = "select", open' = FALSE
  PROVE  received = sent /\ (ended \/ cut)
<1>1. TypeOK /\ Reading /\ Whole(stream) /\ Prefix
  BY DEF IInv
<1>2. /\ Len(input) \in Nat /\ Len(stream) = Len(input) + Len(flight) /\ HEADER = 2
      /\ Len(sent) \in Nat /\ Len(received) \in Nat
      /\ sent \in Seq(Message) /\ received \in Seq(Message)
      /\ \A i \in 1 .. Len(input) : stream[i] = input[i]
  BY <1>1, Stream, Sizes, LenProperties DEF TypeOK
<1>3. open
  BY <1>1 DEF Reading, visit, peek, recv
<1>4. Len(input) > 0 =>
            /\ stream[1].place = 1 /\ stream[1].of \in Message
            /\ Head(input) = stream[1]
            /\ finish(stream, 1) = msg_size(stream[1].of)
  <2> HAVE Len(input) > 0
  <2>1. Len(flight) \in Nat /\ 1 \in 1 .. Len(stream) /\ input # <<>>
    BY <1>1, <1>2, Stream
  <2>2. stream[1].place = 1
    BY <1>1, <1>2, <2>1 DEF Whole
  <2>3. stream[1].of \in Message
    BY <1>1, <2>1, APiece
  <2>4. msg_size(stream[1].of) \in Nat
    BY <2>3, Sizes
  <2>5. finish(stream, 1) = msg_size(stream[1].of)
    BY <2>2, <2>4 DEF finish, before
  <2>6. Head(input) = input[1] /\ input[1] = stream[1]
    BY <1>1, <1>2, <2>1 DEF TypeOK
  <2> QED BY <2>2, <2>3, <2>5, <2>6
<1>5. /\ eof
      /\ Len(input) = 0 \/ (Len(input) > 0 /\ Len(input) < finish(stream, 1))
  <2>1. CASE visit
    <3>1. input = <<>>
      BY <1>3, <2>1 DEF visit, go, gives_up
    <3> QED BY <2>1, <3>1 DEF visit
  <2>2. CASE peek
    <3>1. ~(Len(input) >= HEADER /\ Head(input).place = 1)
      BY <1>3, <2>2 DEF peek
    <3>2. ~(Len(input) >= HEADER)
      BY <1>2, <1>4, <3>1
    <3>3. eof
      BY <2>2, <3>2 DEF peek, returns
    <3>4. Len(input) > 0 => Len(input) < finish(stream, 1)
      BY <1>2, <1>4, <3>2, Sizes
    <3> QED BY <1>2, <3>3, <3>4
  <2>3. CASE recv
    <3>1. Len(input) < msg_size(mh)
      BY <1>3, <2>3 DEF recv
    <3>2. Len(input) >= HEADER /\ mh = input[1].of /\ mh \in Message
      BY <1>1, <2>3 DEF Reading, recv
    <3>3. eof
      BY <2>3, <3>1, <3>2, <1>2, Sizes DEF recv, returns
    <3>4. mh = stream[1].of /\ Len(input) > 0
      BY <1>2, <3>2
    <3> QED BY <1>4, <3>1, <3>3, <3>4
  <2> QED BY <2>1, <2>2, <2>3
<1>6. (ended \/ cut) /\ Len(stream) = Len(input)
  BY <1>2, <1>5 DEF eof
<1>7. Len(received) = Len(sent)
  <2>1. CASE Len(input) = 0
    BY <1>1, <1>6, <2>1 DEF Whole
  <2>2. CASE Len(input) > 0 /\ Len(input) < finish(stream, 1)
    <3>1. 1 \in 1 .. Len(stream) /\ finish(stream, 1) > Len(stream)
      BY <1>2, <1>6, <2>2
    <3>2. stream[1].of.number = Len(sent) + 1
      BY <1>1, <3>1 DEF Whole, InOrder
    <3>3. stream[1].of.number = Len(received) + 1
      BY <1>1, <1>2, <1>6, <2>2 DEF Whole
    <3> QED BY <1>2, <3>2, <3>3
  <2> QED BY <1>5, <2>1, <2>2
<1>8. received = sent
  BY <1>1, <1>2, <1>7, SeqEqual DEF Prefix
<1> QED BY <1>6, <1>8

\* A step of the two programs and the network is a step of the channel, or none.
LEMMA ChannelStep ==
  ASSUME IInv, [Next]_vars
  PROVE  [Chan!Next]_Chan!vars
<1> USE DEF Chan!Next, Chan!vars
<1>1. TypeOK
  BY DEF IInv
<1>2. ASSUME NEW l \in Length, write_message(l) PROVE Chan!Send
  <2>1. next_message(l) \in Message
    BY <1>1, <1>2, NextMessage DEF write_message
  <2> QED BY <1>2, <2>1 DEF write_message, reader, Chan!Send
<1>3. ASSUME NEW l \in Length, dies(l) PROVE Chan!End
  BY <1>3 DEF dies, reader, Chan!End
<1>4. ASSUME closes PROVE Chan!End
  BY <1>4 DEF closes, reader, Chan!End
<1>5. ASSUME gives_up, open, visit \/ peek \/ recv PROVE Chan!Hangup
  <2>1. received = sent /\ (ended \/ cut)
    BY <1>5, GivesUp DEF gives_up
  <2> QED BY <1>5, <2>1 DEF gives_up, visit, peek, recv, Chan!Hangup
<1>6. pc # "select" => open
  BY DEF IInv, Reading
<1>7. CASE visit
  <2>1. CASE gives_up
    BY <1>5, <1>7, <2>1 DEF visit
  <2>2. CASE ~gives_up
    BY <1>7, <2>2 DEF visit, go
  <2> QED BY <2>1, <2>2
<1>8. CASE peek
  <2>1. CASE gives_up
    BY <1>5, <1>6, <1>8, <2>1 DEF peek
  <2>2. CASE ~gives_up
    BY <1>8, <2>2 DEF peek
  <2> QED BY <2>1, <2>2
<1>9. CASE recv
  <2>1. CASE Len(input) < msg_size(mh)
    BY <1>5, <1>6, <1>9, <2>1 DEF recv
  <2>2. CASE ~(Len(input) < msg_size(mh))
    <3>1. /\ mh = sent[Len(received) + 1] /\ Len(received) < Len(sent)
          /\ received' = Append(received, mh)
          /\ UNCHANGED <<sent, ended, cut, signalled, open>>
      BY <1>9, <2>2, Received
    <3>2. Chan!Receive
      BY <1>6, <1>9, <3>1 DEF recv, Chan!Receive
    <3> QED BY <3>2
  <2> QED BY <2>1, <2>2
<1>10. CASE signal
  BY <1>10 DEF signal, Chan!Signal
<1>11. CASE interrupted
  BY <1>11 DEF interrupted, gives_up, Chan!Hangup
<1>12. CASE arrives \/ read_message \/ check \/ UNCHANGED vars
  BY <1>12 DEF arrives, reader, read_message, check, go, vars
<1> QED BY <1>2, <1>3, <1>4, <1>7, <1>8, <1>9, <1>10, <1>11, <1>12 DEF Next, reads, Stopped

\* Whatever the lengths and the pieces, the messages are received whole, once and in
\* order, and a connection is given up when its sender has ended it and everything is
\* received, or because of a signal: _read_message() implements a channel.
THEOREM CarriesSafely == Spec => Chan!Spec
<1>1. Init => Chan!Init
  BY DEF Init, Chan!Init
<1>2. IInv /\ [Next]_vars => [Chan!Next]_Chan!vars
  BY ChannelStep
<1> QED BY <1>1, <1>2, Inductive, PTL DEF Spec, Chan!Spec
=============================================================================
