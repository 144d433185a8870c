---------------------------- MODULE ClientTable ----------------------------
(***************************************************************************)
(* What client_list.h promises to the server: a set of connected clients,   *)
(* known by their sockets, some of which have a username of their own.      *)
(***************************************************************************)
CONSTANTS Fd, Name, Null

VARIABLES connected, username

vars == <<connected, username>>

Init ==
  /\ connected = {}
  /\ username = [f \in Fd |-> Null]

add_client(f) ==
  /\ f \notin connected
  /\ connected' = connected \cup {f}
  /\ UNCHANGED username

login_client(f, u) ==
  /\ f \in connected
  /\ username[f] = Null
  /\ \A g \in connected : username[g] # u
  /\ username' = [username EXCEPT ![f] = u]
  /\ UNCHANGED connected

remove_client(f) ==
  /\ f \in connected
  /\ connected' = connected \ {f}
  /\ username' = [username EXCEPT ![f] = Null]

Next ==
  \E f \in Fd :
    \/ add_client(f)
    \/ \E u \in Name : login_client(f, u)
    \/ remove_client(f)

Spec == Init /\ [][Next]_vars
=============================================================================
