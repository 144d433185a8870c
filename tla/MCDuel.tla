------------------------------- MODULE MCDuel -------------------------------
(* Small instances of Duel. *)
EXTENDS Duel, TLC

\* Squares are told apart only by equality, and so are the two players.
Symmetry == Permutations(Cell) \cup Permutations(Peer)
=============================================================================
