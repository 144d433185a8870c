------------------------------ MODULE MatchBook ------------------------------
(***************************************************************************)
(* What battle_server promises its players, whatever it keeps: a book of    *)
(* the matches between those present.  A match has an asker and an invited  *)
(* player, nobody is in two, and it is a request until the invited player   *)
(* accepts.  Who leaves takes the match along.                              *)
(***************************************************************************)

CONSTANT Player

VARIABLES
  present,  \* players logged in
  book      \* the matches

vars == <<present, book>>

Entry == [asker : Player, invited : Player, awaiting : BOOLEAN]

PlayersOf(e) == {e.asker, e.invited}

booked(p) == \E e \in book : p \in PlayersOf(e)

Init == present = {} /\ book = {}

Join(p) ==
  /\ p \notin present
  /\ present' = present \cup {p}
  /\ UNCHANGED book

Leave(p) ==
  /\ p \in present
  /\ present' = present \ {p}
  /\ book' = {e \in book : p \notin PlayersOf(e)}

Invite(a, b) ==
  /\ {a, b} \subseteq present
  /\ a # b /\ ~booked(a) /\ ~booked(b)
  /\ book' = book \cup {[asker |-> a, invited |-> b, awaiting |-> TRUE]}
  /\ UNCHANGED present

Accept(e) ==
  /\ e.awaiting
  /\ book' = (book \ {e})
               \cup {[asker |-> e.asker, invited |-> e.invited, awaiting |-> FALSE]}
  /\ UNCHANGED present

End(e) ==
  /\ book' = book \ {e}
  /\ UNCHANGED present

\* The server ends.
Close == present' = {} /\ book' = {}

Next ==
  \/ \E p \in Player : Join(p) \/ Leave(p) \/ \E q \in Player : Invite(p, q)
  \/ \E e \in book : Accept(e) \/ End(e)
  \/ Close

Spec == Init /\ [][Next]_vars

\* Nobody is in two matches, and nobody who is absent in one.
Sound ==
  /\ \A e \in book : PlayersOf(e) \subseteq present /\ e.asker # e.invited
  /\ \A e, f \in book : PlayersOf(e) \cap PlayersOf(f) # {} => e = f
=============================================================================
