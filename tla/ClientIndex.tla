---------------------------- MODULE ClientIndex ----------------------------
(***************************************************************************)
(* client_list.c down to its data structures: the list of logged-in clients *)
(* ordered by username, and the hash table of all clients by socket, whose  *)
(* buckets are lists too (list.c, hashtable.c).  Each list carries one      *)
(* cursor for list_first() and list_next(), and the hash table one current  *)
(* bucket, so the loops of the server are steps here, one per turn.         *)
(*                                                                          *)
(* A client is its socket; a username is its rank under strcasecmp().  A    *)
(* node is the client it holds, since no list holds a client twice.         *)
(***************************************************************************)
EXTENDS Integers, Sequences, SequencesExt

CONSTANTS
  Fd,              \* sockets of clients
  Name,            \* usernames, by rank
  HASHTABLE_SIZE,  \* number of buckets
  Null             \* NULL, and the empty username

ASSUME FdAssumption == Fd \subseteq Nat /\ Name \subseteq Nat

ASSUME SizeAssumption == HASHTABLE_SIZE \in Nat \ {0}

ASSUME NullAssumption == Null \notin Nat

VARIABLES
  client_list,       \* the ordered list
  logged_count,      \* the counter beside it
  client_hashtable,  \* the buckets
  cur_index,         \* the bucket of the last hashtable_first/next
  username,          \* game_client.username
  walk,              \* the loop under way: "none", "logged", "max_fd",
                     \* "destroy", "destroy_next"; "destroyed" at its end
  p,                 \* its loop variable
  maxfd,             \* the local of get_max_fd()
  visited            \* history: what the loop over the list has passed

vars == <<client_list, logged_count, client_hashtable, cur_index, username,
          walk, p, maxfd, visited>>

---------------------------------------------------------------------------
(* list.c: a list is its nodes and its cursor; keys are compared through a  *)
(* function from nodes to numbers.                                          *)

Bucket == 0 .. HASHTABLE_SIZE - 1

LIST_INIT == [nodes |-> <<>>, cur |-> Null]

\* How many nodes the loops of list_insert_node(), list_remove() and
\* list_search() pass before they stop: those with a smaller key.
passed(nodes, key, k) ==
  CHOOSE i \in 0 .. Len(nodes) :
    /\ \A j \in 1 .. i : key[nodes[j]] < k
    /\ i < Len(nodes) => key[nodes[i + 1]] >= k

\* Mutation: new nodes go to the head.
list_insert_Head(l, key, node) == [l EXCEPT !.nodes = <<node>> \o @]

list_insert(l, key, node) ==
  [l EXCEPT !.nodes = InsertAt(@, passed(@, key, key[node]) + 1, node)]

\* Mutation: the early exit has the wrong sign, so that in an ascending list
\* only the head is ever found.
list_search_WrongSign(l, key, k) ==
  IF l.nodes # <<>> /\ key[Head(l.nodes)] = k THEN Head(l.nodes) ELSE Null

list_search(l, key, k) ==
  LET i == passed(l.nodes, key, k) + 1 IN
  IF i \in DOMAIN l.nodes /\ key[l.nodes[i]] = k THEN l.nodes[i] ELSE Null

node_after(nodes, node) ==
  LET i == CHOOSE i \in DOMAIN nodes : nodes[i] = node IN
  IF i = Len(nodes) THEN Null ELSE nodes[i + 1]

\* Mutation: the cursor stays on the freed node.
list_remove_KeepsCursor(l, key, k) ==
  IF list_search(l, key, k) = Null THEN l
  ELSE [l EXCEPT !.nodes = RemoveAt(@, passed(@, key, k) + 1)]

list_remove(l, key, k) ==
  LET node == list_search(l, key, k) IN
  IF node = Null THEN l
  ELSE [nodes |-> RemoveAt(l.nodes, passed(l.nodes, key, k) + 1),
        cur   |-> IF l.cur = node THEN node_after(l.nodes, node) ELSE l.cur]

\* Mutation: the head is taken for a sentinel.
list_first_Sentinel(l) ==
  [l EXCEPT !.cur = IF Len(l.nodes) < 2 THEN Null ELSE l.nodes[2]]

\* These two return the object they move the cursor to.
list_first(l) == [l EXCEPT !.cur = IF l.nodes = <<>> THEN Null ELSE Head(l.nodes)]

list_next(l) == [l EXCEPT !.cur = IF @ = Null THEN Null ELSE node_after(l.nodes, @)]

---------------------------------------------------------------------------
(* hashtable.c                                                              *)

compute_hash(f) == f % HASHTABLE_SIZE

sock == [f \in Fd |-> f]

hashtable_insert(ht, f) == [ht EXCEPT ![compute_hash(f)] = list_insert(@, sock, f)]

hashtable_remove(ht, f) == [ht EXCEPT ![compute_hash(f)] = list_remove(@, sock, f)]

hashtable_search(ht, f) == list_search(ht[compute_hash(f)], sock, f)

\* Mutation: the search for a bucket stops at the first one, empty or not.
get_next_NoLoop(ht, i) ==
  [index |-> i + 1,
   ht    |-> [b \in Bucket |-> IF b = i + 1 THEN list_first(ht[b]) ELSE ht[b]]]

\* From bucket i, at its end, to the head of the next one that is not empty:
\* the new cur_index and the table with the cursors moved on the way.
get_next(ht, i) ==
  LET index == CHOOSE b \in i + 1 .. HASHTABLE_SIZE :
                 /\ \A c \in i + 1 .. b - 1 : ht[c].nodes = <<>>
                 /\ b < HASHTABLE_SIZE => ht[b].nodes # <<>> IN
  [index |-> index,
   ht    |-> [b \in Bucket |-> IF b \in i + 1 .. index THEN list_first(ht[b]) ELSE ht[b]]]

hashtable_first(ht) == get_next(ht, -1)

hashtable_next(ht, i) ==
  LET moved == [ht EXCEPT ![i] = list_next(@)] IN
  IF moved[i].cur # Null THEN [index |-> i, ht |-> moved] ELSE get_next(moved, i)

\* Moves the cursor of the hash table and the loop variable with it.
moveTo(r) ==
  /\ client_hashtable' = r.ht
  /\ cur_index' = r.index
  /\ p' = IF r.index = HASHTABLE_SIZE THEN Null ELSE r.ht[r.index].cur

---------------------------------------------------------------------------
(* client_list.c                                                            *)

Stored == UNION {ToSet(client_hashtable[b].nodes) : b \in Bucket}

logged_in(f) == username[f] # Null

get_client_by_username(u) == list_search(client_list, username, u)

get_client_by_socket(f) == hashtable_search(client_hashtable, f)

\* accept() gives the new client a descriptor that no open connection has.
add_client(f) ==
  /\ walk = "none"
  /\ f \notin Stored
  /\ username' = [username EXCEPT ![f] = Null]
  /\ client_hashtable' = hashtable_insert(client_hashtable, f)
  /\ UNCHANGED <<client_list, logged_count, cur_index, walk, p, maxfd, visited>>

\* Called by do_login() once unique_username() has agreed.
login_client(f, u) ==
  /\ walk = "none"
  /\ get_client_by_socket(f) = f
  /\ ~logged_in(f)
  /\ get_client_by_username(u) = Null
  /\ username' = [username EXCEPT ![f] = u]
  /\ client_list' = list_insert(client_list, username', f)
  /\ logged_count' = logged_count + 1
  /\ UNCHANGED <<client_hashtable, cur_index, walk, p, maxfd, visited>>

\* Mutation: every removal is counted.
unlist_AlwaysCounts(f) ==
  /\ username' = [username EXCEPT ![f] = Null]
  /\ logged_count' = logged_count - 1
  /\ IF logged_in(f)
     THEN client_list' = list_remove(client_list, username, username[f])
     ELSE UNCHANGED client_list

unlist(f) ==
  /\ username' = [username EXCEPT ![f] = Null]
  /\ IF logged_in(f)
     THEN /\ client_list' = list_remove(client_list, username, username[f])
          /\ logged_count' = logged_count - 1
     ELSE UNCHANGED <<client_list, logged_count>>

remove_client(f) ==
  /\ walk = "none"
  /\ get_client_by_socket(f) = f
  /\ unlist(f)
  /\ client_hashtable' = hashtable_remove(client_hashtable, f)
  /\ UNCHANGED <<cur_index, walk, p, maxfd, visited>>

---------------------------------------------------------------------------
(* The loops.                                                               *)

\* remove_elapsed_matches() and send_client_list(): whatever their bodies do,
\* they leave the list alone.
first_logged_client ==
  /\ walk = "none"
  /\ walk' = "logged"
  /\ client_list' = list_first(client_list)
  /\ p' = client_list'.cur
  /\ UNCHANGED <<logged_count, client_hashtable, cur_index, username, maxfd,
                 visited>>

next_logged_client ==
  /\ walk = "logged"
  /\ p # Null
  /\ visited' = Append(visited, p)
  /\ client_list' = list_next(client_list)
  /\ p' = client_list'.cur
  /\ UNCHANGED <<logged_count, client_hashtable, cur_index, username, walk, maxfd>>

get_max_fd ==
  /\ walk = "none"
  /\ walk' = "max_fd"
  /\ moveTo(hashtable_first(client_hashtable))
  /\ UNCHANGED <<client_list, logged_count, username, maxfd, visited>>

get_max_fd_turn ==
  /\ walk = "max_fd"
  /\ p # Null
  /\ maxfd' = IF p > maxfd THEN p ELSE maxfd
  /\ moveTo(hashtable_next(client_hashtable, cur_index))
  /\ UNCHANGED <<client_list, logged_count, username, walk, visited>>

\* The loop variable is NULL: the loop ends, and with it its locals.
loop_end ==
  /\ walk \in {"logged", "max_fd"}
  /\ p = Null
  /\ walk' = "none"
  /\ maxfd' = 0
  /\ visited' = <<>>
  /\ UNCHANGED <<client_list, logged_count, client_hashtable, cur_index,
                 username, p>>

client_list_destroy ==
  /\ walk = "none"
  /\ walk' = "destroy"
  /\ moveTo(hashtable_first(client_hashtable))
  /\ UNCHANGED <<client_list, logged_count, username, maxfd, visited>>

\* The body of its loop frees the client, and the cursor moves on after that.
client_list_destroy_turn ==
  /\ walk = "destroy"
  /\ p # Null
  /\ walk' = "destroy_next"
  /\ unlist(p)
  /\ client_hashtable' = hashtable_remove(client_hashtable, p)
  /\ UNCHANGED <<cur_index, p, maxfd, visited>>

client_list_destroy_next ==
  /\ walk = "destroy_next"
  /\ walk' = "destroy"
  /\ moveTo(hashtable_next(client_hashtable, cur_index))
  /\ UNCHANGED <<client_list, logged_count, username, maxfd, visited>>

client_list_destroy_end ==
  /\ walk = "destroy"
  /\ p = Null
  /\ walk' = "destroyed"
  /\ client_list' = LIST_INIT
  /\ logged_count' = 0
  /\ UNCHANGED <<client_hashtable, cur_index, username, p, maxfd, visited>>

Stopped == walk = "destroyed" /\ UNCHANGED vars

Init ==
  /\ client_list = LIST_INIT
  /\ logged_count = 0
  /\ client_hashtable = [b \in Bucket |-> LIST_INIT]
  /\ cur_index = 0
  /\ username = [f \in Fd |-> Null]
  /\ walk = "none"
  /\ p = Null
  /\ maxfd = 0
  /\ visited = <<>>

Next ==
  \/ \E f \in Fd :
       \/ add_client(f)
       \/ \E u \in Name : login_client(f, u)
       \/ remove_client(f)
  \/ first_logged_client
  \/ next_logged_client
  \/ get_max_fd
  \/ get_max_fd_turn
  \/ loop_end
  \/ client_list_destroy
  \/ client_list_destroy_turn
  \/ client_list_destroy_next
  \/ client_list_destroy_end
  \/ Stopped

Spec == Init /\ [][Next]_vars

---------------------------------------------------------------------------
(* Properties.                                                              *)

ListHead == [nodes : Seq(Fd), cur : Fd \cup {Null}]

\* Types of the variables.
TypeOK ==
  /\ client_list \in ListHead
  /\ logged_count \in Nat
  /\ client_hashtable \in [Bucket -> ListHead]
  /\ cur_index \in 0 .. HASHTABLE_SIZE
  /\ username \in [Fd -> Name \cup {Null}]
  /\ walk \in {"none", "logged", "max_fd", "destroy", "destroy_next", "destroyed"}
  /\ p \in Fd \cup {Null}
  /\ maxfd \in Nat
  /\ visited \in Seq(Fd)

\* The lists are strictly ordered, which the early exits of list_search() and
\* list_remove() rely on, and each client is in the bucket of its socket.
Ordered ==
  /\ \A i, j \in DOMAIN client_list.nodes :
       i < j => username[client_list.nodes[i]] < username[client_list.nodes[j]]
  /\ \A b \in Bucket :
       LET nodes == client_hashtable[b].nodes IN
       /\ \A i, j \in DOMAIN nodes : i < j => nodes[i] < nodes[j]
       /\ \A i \in DOMAIN nodes : compute_hash(nodes[i]) = b

\* The lists, the counter and the usernames agree: a stored client is in the
\* list, in its place, exactly if it has a name, also in the middle of the loops.
ListMatchesNames ==
  /\ Ordered
  /\ walk # "destroyed" =>
       /\ ToSet(client_list.nodes) = {f \in Stored : logged_in(f)}
       /\ logged_count = Len(client_list.nodes)

\* No cursor is left on a node that list_remove() has freed, and a loop over
\* the hash table goes on from the bucket its client came from.
CursorsLive ==
  /\ client_list.cur \in ToSet(client_list.nodes) \cup {Null}
  /\ \A b \in Bucket :
       client_hashtable[b].cur \in ToSet(client_hashtable[b].nodes) \cup {Null}
  /\ (walk \in {"max_fd", "destroy"} /\ p # Null) =>
       cur_index = compute_hash(p) /\ client_hashtable[cur_index].cur = p

\* The loops of remove_elapsed_matches() and send_client_list() pass every
\* logged-in client exactly once, in the order of the names.
LoggedLoopComplete ==
  walk = "logged" =>
    /\ IsPrefix(visited, client_list.nodes)
    /\ p = IF visited = client_list.nodes THEN Null
           ELSE client_list.nodes[Len(visited) + 1]

\* get_max_fd() returns the largest socket in the table, and zero for an empty
\* one: go_server() lowers nfds to it.
MaxFdExact ==
  (walk = "max_fd" /\ p = Null) =>
    /\ maxfd \in Stored \cup {0}
    /\ \A f \in Stored : f <= maxfd

\* The data structures implement the table the server's handlers rely on.
Table == INSTANCE ClientTable WITH
  connected <- Stored,
  username  <- [f \in Fd |-> IF f \in Stored THEN username[f] ELSE Null]

TableSpec == Table!Spec
=============================================================================
