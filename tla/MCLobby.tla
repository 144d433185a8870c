------------------------------ MODULE MCLobby ------------------------------
(* Small instances of Lobby. *)
EXTENDS Lobby, TLC

Symmetry == Permutations(Client) \cup Permutations(Name) \cup Permutations(Match)

\* Once messages have crossed, only the exits that come of it are followed.
CalmUntilExit == calm \/ \E c \in Client : unexpected(c) /\ at'[c] = "off"
=============================================================================
