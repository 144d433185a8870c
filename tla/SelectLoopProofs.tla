-------------------------- MODULE SelectLoopProofs --------------------------
(***************************************************************************)
(* Proofs about SelectLoop, for any set of descriptors below FD_SETSIZE.    *)
(* The point is Reported: what select() said of the descriptors that the    *)
(* pass has not reached yet is still true, because the only one that can be *)
(* reused under it is accepted first, at the lowest number.                 *)
(***************************************************************************)
EXTENDS SelectLoop, WellFoundedInduction, TLAPS

\* Connections that the pass has still to visit are open and readable.
Reported ==
  pc = "pass" =>
    \A f \in _readfds : (fd <= f /\ f # sfd) =>
      f \in open /\ (input[f] # "empty" \/ f \in eof)

Inv == TypeOK /\ Watched /\ Reported /\ NoAbort /\ ExitClosesAll

---------------------------------------------------------------------------
(* Smallest and largest elements.                                           *)

\* A non-empty set of natural numbers has a smallest element.
LEMMA SmallestElement ==
  ASSUME NEW T, T \subseteq Nat, T # {}
  PROVE  \E x \in T : \A y \in T : x <= y
<1> DEFINE R == OpToRel(<, Nat)
<1>1. PICK x \in T : \A y \in T : ~ (<<y, x>> \in R)
  BY WFMin, NatLessThanWellFounded
<1> HIDE DEF R
<1>2. ASSUME NEW y \in T PROVE x <= y
  <2>1. x \in Nat /\ y \in Nat /\ <<y, x>> \notin R
    BY <1>1
  <2>2. ~ (y < x)
    BY ONLY <2>1 DEF R, OpToRel
  <2> QED BY <2>1, <2>2
<1> QED BY <1>1, <1>2

\* Min returns it.
LEMMA MinType ==
  ASSUME NEW T, T \subseteq Nat, T # {}
  PROVE  Min(T) \in T /\ \A y \in T : Min(T) <= y
  BY SmallestElement DEF Min

\* A bounded one has a largest element, which Max returns.
LEMMA MaxType ==
  ASSUME NEW T, NEW n \in Nat, T \subseteq 0 .. n, T # {}
  PROVE  Max(T) \in T /\ \A y \in T : y <= Max(T)
<1> DEFINE U == {n - x : x \in T}
<1>1. /\ U \subseteq Nat
      /\ \A x \in T : x \in Nat /\ n - x \in U
  OBVIOUS
<1>2. U # {}
  BY <1>1
<1>3. PICK u \in U : \A v \in U : u <= v
  BY <1>1, <1>2, SmallestElement
<1>4. PICK x \in T : u = n - x
  BY <1>3
<1>5. \A y \in T : x >= y
  BY <1>1, <1>3, <1>4
<1>6. Max(T) \in T /\ \A y \in T : Max(T) >= y
  BY <1>4, <1>5 DEF Max
<1> QED BY <1>1, <1>6

\* Descriptors are natural numbers below FD_SETSIZE, above the listening one.
LEMMA Descriptors ==
  /\ sfd \in Nat
  /\ \A f \in Fd : f \in Nat /\ f < FD_SETSIZE /\ sfd < f
  /\ FD_SETSIZE \in Nat
  BY FdAssumption

\* The new bound covers the remaining clients and is one of them, or sfd.
LEMMA LowerNfds ==
  ASSUME TypeOK, Watched, Running, NEW f \in clients, lower_nfds(f)
  PROVE  /\ nfds' \in Fd \cup {sfd}
         /\ \A g \in (clients \ {f}) \cup {sfd} : g <= nfds'
<1> DEFINE T == (clients \ {f}) \cup {sfd}
<1>1. T \subseteq Fd \cup {sfd} /\ T # {}
  BY DEF TypeOK
<1>2. \A n \in Nat : (\A g \in T : g <= n) => T \subseteq 0 .. n
  BY <1>1, Descriptors
<1>3. \A g \in T : g <= FD_SETSIZE + sfd
  BY <1>1, Descriptors
<1>4. FD_SETSIZE + sfd \in Nat
  BY Descriptors
<1>5. Max(T) \in T /\ \A g \in T : g <= Max(T)
  BY <1>1, <1>2, <1>3, <1>4, MaxType
<1>6. CASE f >= nfds
  BY <1>1, <1>5, <1>6 DEF lower_nfds
<1>7. CASE ~(f >= nfds)
  BY <1>7 DEF lower_nfds, TypeOK, Watched
<1> QED BY <1>6, <1>7

---------------------------------------------------------------------------
(* Steps.                                                                   *)

LEMMA InitInv == Init => Inv
<1> SUFFICES ASSUME Init PROVE Inv
  OBVIOUS
<1>1. TypeOK
  <2>1. 0 \in 0 .. MaxBacklog
    BY BacklogAssumption
  <2>2. input \in [Fd -> Stream]
    BY DEF Init, Stream
  <2> QED BY <2>1, <2>2 DEF Init, TypeOK
<1>2. Watched
  BY Descriptors DEF Init, Watched
<1> QED BY <1>1, <1>2 DEF Init, Inv, Reported, NoAbort, ExitClosesAll

\* The peers and the signal take nothing away from what was reported.
LEMMA EnvironmentInv == Inv /\ Environment => Inv'
<1> SUFFICES ASSUME Inv, Environment PROVE Inv'
  OBVIOUS
<1> USE DEF Inv
<1>1. /\ UNCHANGED <<pc, readfds, _readfds, nfds, fd, clients, open>>
      /\ backlog' \in 0 .. MaxBacklog
      /\ input' \in [Fd -> Stream]
      /\ eof' \subseteq Fd /\ eof \subseteq eof'
      /\ signalled' \in BOOLEAN
      /\ \A f \in Fd : input[f] # "empty" => input'[f] # "empty"
  <2>1. CASE peer_connect
    BY <2>1, BacklogAssumption DEF Environment, peer_connect, TypeOK
  <2>2. ASSUME NEW f \in Fd, peer_send(f)
        PROVE  /\ input' \in [Fd -> Stream]
               /\ \A g \in Fd : input[g] # "empty" => input'[g] # "empty"
    BY <2>2 DEF peer_send, TypeOK, Stream
  <2>3. ASSUME NEW f \in Fd, peer_send(f)
        PROVE  UNCHANGED <<backlog, open, eof, signalled>>
    BY <2>3 DEF peer_send
  <2>4. ASSUME NEW f \in Fd, peer_close(f)
        PROVE  /\ eof' \subseteq Fd /\ eof \subseteq eof'
               /\ UNCHANGED <<backlog, open, input, signalled>>
    BY <2>4 DEF peer_close, TypeOK
  <2>5. CASE signal_handler
    BY <2>5 DEF Environment, signal_handler, TypeOK
  <2>6. UNCHANGED <<pc, readfds, _readfds, nfds, fd, clients>>
    BY DEF Environment
  <2> QED BY <2>1, <2>2, <2>3, <2>4, <2>5, <2>6 DEF Environment, TypeOK
<1>2. TypeOK'
  BY <1>1 DEF TypeOK
<1>3. Watched' /\ NoAbort' /\ ExitClosesAll'
  BY <1>1 DEF Watched, NoAbort, ExitClosesAll, Running
<1>4. Reported'
  BY <1>1 DEF Reported, TypeOK
<1> QED BY <1>2, <1>3, <1>4

\* nfds covers every connection, so none is left open at the end.
LEMMA ShutdownInv == Inv /\ Running /\ shutdown => Inv'
<1> SUFFICES ASSUME Inv, Running, shutdown PROVE Inv'
  OBVIOUS
<1> USE DEF Inv, shutdown, close_all
<1>1. open' = {}
  BY Descriptors DEF Watched, TypeOK
<1>2. TypeOK'
  BY <1>1 DEF TypeOK
<1> QED BY <1>1, <1>2 DEF Watched, Reported, NoAbort, ExitClosesAll, Running

LEMMA TopInv == Inv /\ top => Inv'
<1> SUFFICES ASSUME Inv, top PROVE Inv'
  OBVIOUS
<1>1. CASE shutdown
  BY <1>1, ShutdownInv DEF top, Running
<1>2. CASE pc' = "select" /\ UNCHANGED <<kernel, readfds, _readfds, nfds, fd, clients>>
  BY <1>2 DEF top, Inv, TypeOK, Watched, Reported, NoAbort, ExitClosesAll, Running, kernel
<1> QED BY <1>1, <1>2 DEF top

\* Only open descriptors are watched, and those reported are readable.
LEMMA SelectInv == Inv /\ select => Inv'
<1> SUFFICES ASSUME Inv, select PROVE Inv'
  OBVIOUS
<1>1. watched \subseteq open \cup {sfd}
  BY DEF watched, Inv, Watched, Running, select
<1>2. CASE shutdown
  BY <1>2, ShutdownInv DEF select, Running
<1>3. CASE /\ pc' = "pass"
           /\ _readfds' = reported
           /\ fd' = 0
           /\ UNCHANGED <<kernel, readfds, nfds, clients>>
  <2> USE <1>3 DEF kernel
  <2>1. TypeOK'
    BY <1>1 DEF Inv, TypeOK, reported, watched
  <2>2. Reported'
    BY <1>1 DEF Reported, reported, readable
  <2> QED BY <2>1, <2>2 DEF Inv, Watched, NoAbort, ExitClosesAll, Running, select
<1> QED BY <1>1, <1>2, <1>3 DEF select

\* A new connection has a number that the pass has nothing to say about.
LEMMA AcceptInv ==
  ASSUME Inv, pc = "pass", fd <= sfd, fd' = sfd + 1, accept_connection, UNCHANGED <<pc, _readfds>>
  PROVE  Inv'
<1>1. CASE Fd \subseteq open /\ UNCHANGED <<kernel, readfds, nfds, clients>>
  <2>1. TypeOK' /\ Watched'
    BY <1>1, Descriptors DEF Inv, TypeOK, Watched, Running, kernel
  <2>2. Reported'
    BY <1>1, Descriptors DEF Inv, TypeOK, Reported, kernel
  <2> QED BY <1>1, <2>1, <2>2 DEF Inv, NoAbort, ExitClosesAll
<1>2. CASE ~(Fd \subseteq open)
  <2> DEFINE connfd == Min(Fd \ open)
  <2>1. connfd \in Fd \ open
    <3>1. Fd \ open \subseteq Nat /\ Fd \ open # {}
      BY <1>2, Descriptors
    <3> QED BY <3>1, MinType
  <2> HIDE DEF connfd
  <2>2. /\ backlog > 0
        /\ backlog' = backlog - 1
        /\ open' = open \cup {connfd}
        /\ input' = [input EXCEPT ![connfd] = "empty"]
        /\ eof' = eof \ {connfd}
        /\ clients' = clients \cup {connfd}
        /\ readfds' = readfds \cup {connfd}
        /\ raise_nfds(connfd)
        /\ UNCHANGED signalled
    BY <1>2 DEF accept_connection, connfd
  <2>3. nfds' \in Fd \cup {sfd} /\ nfds <= nfds' /\ connfd <= nfds'
    BY <2>1, <2>2, Descriptors DEF raise_nfds, Inv, TypeOK
  <2>4. TypeOK'
    BY <2>1, <2>2, <2>3, Descriptors, BacklogAssumption DEF Inv, TypeOK, Stream
  <2>5. Watched'
    <3>1. \A f \in readfds : f \in Nat /\ f <= nfds
      BY Descriptors DEF Inv, TypeOK, Watched, Running
    <3>2. nfds \in Nat /\ nfds' \in Nat
      BY <2>3, Descriptors DEF Inv, TypeOK
    <3> QED BY <2>1, <2>2, <2>3, <3>1, <3>2 DEF Inv, Watched, Running
  <2>6. Reported'
    <3>1. SUFFICES ASSUME NEW f \in _readfds, fd' <= f, f # sfd
                   PROVE  f \in open' /\ (input'[f] # "empty" \/ f \in eof')
      BY DEF Reported
    <3>2. f \in open /\ (input[f] # "empty" \/ f \in eof)
      <4>1. fd <= f
        BY <3>1, Descriptors DEF Inv, TypeOK
      <4> QED BY <3>1, <4>1, Descriptors DEF Inv, Reported, TypeOK
    <3>3. f # connfd
      BY <2>1, <3>2
    <3> QED BY <2>1, <2>2, <3>2, <3>3 DEF Inv, TypeOK
  <2> QED BY <2>4, <2>5, <2>6 DEF Inv, NoAbort, ExitClosesAll
<1> QED BY <1>1, <1>2 DEF accept_connection

LEMMA CloseInv ==
  ASSUME Inv, pc = "pass", NEW f \in clients, close_client(f), fd' = f + 1, fd <= f,
         UNCHANGED <<pc, _readfds>>
  PROVE  Inv'
<1> USE DEF close_client
<1>1. /\ nfds' \in Fd \cup {sfd}
      /\ \A g \in (clients \ {f}) \cup {sfd} : g <= nfds'
  BY LowerNfds DEF Inv, Running
<1>2. f \in Fd /\ f \in Nat
  BY Descriptors DEF Inv, TypeOK
<1>3. TypeOK'
  BY <1>1, <1>2 DEF Inv, TypeOK
<1>4. Watched'
  <2>1. clients = open /\ readfds = clients \cup {sfd} /\ f # sfd
    BY <1>2, Descriptors DEF Inv, Watched, Running
  <2>2. clients' = open' /\ readfds' = (clients \ {f}) \cup {sfd}
    BY <2>1
  <2> QED BY <1>1, <2>1, <2>2 DEF Watched
<1>5. Reported'
  <2> SUFFICES ASSUME NEW g \in _readfds, f + 1 <= g, g # sfd
               PROVE  g \in open' /\ (input'[g] # "empty" \/ g \in eof')
    BY DEF Reported
  <2>1. g \in Nat /\ fd <= g /\ g # f
    BY <1>2, Descriptors DEF Inv, TypeOK
  <2> QED BY <2>1 DEF Inv, Reported
<1> QED BY <1>3, <1>4, <1>5 DEF Inv, NoAbort, ExitClosesAll

\* Reading from one connection changes nothing for those after it.
LEMMA ServeInv ==
  ASSUME Inv, pc = "pass", NEW f \in clients, serve(f), fd' = f + 1, fd <= f,
         UNCHANGED <<pc, _readfds>>
  PROVE  Inv'
<1>1. f \in Fd /\ f \in Nat
  BY Descriptors DEF Inv, TypeOK
<1>2. CASE close_client(f)
  BY <1>2, CloseInv
<1>3. CASE /\ input' \in {input, [input EXCEPT ![f] = "empty"]}
           /\ UNCHANGED <<backlog, open, eof, signalled, readfds, nfds, clients>>
  <2>1. TypeOK'
    BY <1>1, <1>3 DEF Inv, TypeOK, Stream
  <2>2. Watched'
    BY <1>3 DEF Inv, Watched, Running
  <2>3. Reported'
    <3> SUFFICES ASSUME NEW g \in _readfds, f + 1 <= g, g # sfd
                 PROVE  g \in open' /\ (input'[g] # "empty" \/ g \in eof')
      BY DEF Reported
    <3>1. g \in Nat /\ fd <= g /\ g # f /\ g \in Fd
      BY <1>1, Descriptors DEF Inv, TypeOK
    <3> QED BY <1>1, <1>3, <3>1 DEF Inv, Reported, TypeOK
  <2> QED BY <1>3, <2>1, <2>2, <2>3 DEF Inv, NoAbort, ExitClosesAll
<1> QED BY <1>2, <1>3 DEF serve, kernel

\* Where the pass goes next: to a descriptor it reported, at or after fd.
LEMMA RestType ==
  ASSUME Inv, pc = "pass", NEW rest,
         rest = {f \in _readfds : fd <= f /\ f <= nfds}, rest # {}
  PROVE  /\ Min(rest) \in rest
         /\ Min(rest) # sfd =>
              Min(rest) \in clients /\ (input[Min(rest)] # "empty" \/ Min(rest) \in eof)
<1>1. rest \subseteq Nat
  BY Descriptors DEF Inv, TypeOK
<1>2. Min(rest) \in rest
  BY <1>1, MinType
<1> QED BY <1>2 DEF Inv, Reported, Watched, Running

LEMMA PassInv == Inv /\ pass => Inv'
<1> SUFFICES ASSUME Inv, pass PROVE Inv'
  OBVIOUS
<1> DEFINE rest == {f \in _readfds : fd <= f /\ f <= nfds}
<1>1. pc = "pass" /\ UNCHANGED _readfds
  BY DEF pass
<1>2. CASE rest = {} /\ pc' = "top" /\ UNCHANGED <<kernel, readfds, nfds, fd, clients>>
  BY <1>1, <1>2 DEF Inv, TypeOK, Watched, Reported, NoAbort, ExitClosesAll, Running, kernel
<1>3. CASE /\ rest # {} /\ Min(rest) = sfd
           /\ fd' = sfd + 1 /\ accept_connection /\ UNCHANGED pc
  <2>1. fd <= sfd
    BY <1>1, <1>3, RestType
  <2> QED BY <1>1, <1>3, <2>1, AcceptInv
<1>4. CASE /\ rest # {} /\ Min(rest) \in clients
           /\ fd' = Min(rest) + 1 /\ serve(Min(rest)) /\ UNCHANGED pc
  <2>1. fd <= Min(rest)
    BY <1>1, <1>4, RestType
  <2> QED BY <1>1, <1>4, <2>1, ServeInv
<1>5. CASE rest # {} /\ Min(rest) \notin clients \cup {sfd}
  BY <1>1, <1>5, RestType
<1> QED BY <1>2, <1>3, <1>4, <1>5 DEF pass

\* Every step preserves the invariants.
LEMMA NextInv == Inv /\ [Next]_vars => Inv'
<1>1. Inv /\ UNCHANGED vars => Inv'
  BY DEF vars, Inv, TypeOK, Watched, Reported, NoAbort, ExitClosesAll, Running
<1> QED
  BY <1>1, EnvironmentInv, TopInv, SelectInv, PassInv DEF Next, go_server, Stopped

\* The conjunction of the invariants holds in every reachable state.
THEOREM InvAlways == Spec => []Inv
<1>1. Init => Inv
  BY InitInv
<1>2. Inv /\ [Next]_vars => Inv'
  BY NextInv
<1> QED BY <1>1, <1>2, PTL DEF Spec

\* The variables keep their types: pc, nfds and the sets of descriptors.
THEOREM TypeCorrect == Spec => []TypeOK
<1>1. Inv => TypeOK
  BY DEF Inv
<1> QED BY <1>1, InvAlways, PTL

\* Whatever connects and disconnects, the loop watches exactly the listening
\* socket and the open connections, and nfds covers them.
THEOREM WatchedAlways == Spec => []Watched
<1>1. Inv => Watched
  BY DEF Inv
<1> QED BY <1>1, InvAlways, PTL

\* assert(client) in go_server() never fails.
THEOREM NoAbortAlways == Spec => []NoAbort
<1>1. Inv => NoAbort
  BY DEF Inv
<1> QED BY <1>1, InvAlways, PTL

\* close_range() at the end leaves no connection open.
THEOREM ExitClosesAllAlways == Spec => []ExitClosesAll
<1>1. Inv => ExitClosesAll
  BY DEF Inv
<1> QED BY <1>1, InvAlways, PTL

\* The server closes a connection only after its peer did, or sent garbage.
THEOREM OnlyDeadClosedAlways == Spec => OnlyDeadClosed
<1>1. ASSUME Inv, Next, NEW f \in clients, f \notin clients', pc' = "pass"
      PROVE  input[f] = "malformed" \/ (input[f] = "empty" /\ f \in eof)
  <2>1. clients' # clients
    BY <1>1
  <2>2. pass
    BY <1>1, <2>1
       DEF Next, Environment, go_server, Stopped, top, select, shutdown, vars
  <2> DEFINE rest == {g \in _readfds : fd <= g /\ g <= nfds}
  <2>3. CASE accept_connection
    BY <1>1, <2>1, <2>3 DEF accept_connection
  <2>4. CASE rest # {} /\ Min(rest) \in clients /\ serve(Min(rest))
    <3>1. Min(rest) = f
      BY <1>1, <2>1, <2>4 DEF serve, close_client, kernel
    <3>2. f # sfd
      BY <1>1, Descriptors DEF Inv, TypeOK
    <3>3. input[f] # "empty" \/ f \in eof
      BY <1>1, <2>2, <2>4, <3>1, <3>2, RestType DEF pass
    <3> QED BY <1>1, <2>1, <2>4, <3>1, <3>3 DEF serve, kernel
  <2> QED BY <2>1, <2>2, <2>3, <2>4 DEF pass
<1>2. Inv /\ [Next]_vars =>
        [\A f \in clients : (f \notin clients' /\ pc' = "pass") =>
           input[f] = "malformed" \/ (input[f] = "empty" /\ f \in eof)]_vars
  BY <1>1
<1> QED BY <1>2, InvAlways, PTL DEF Spec, OnlyDeadClosed
=============================================================================
