--------------------------- MODULE MCBattleServer ---------------------------
(* Small instances of BattleServer. *)
EXTENDS BattleServer, TLC

\* Clients, names and match objects are told apart only by equality.
Symmetry == Permutations(Client) \cup Permutations(Name) \cup Permutations(Match)

\* What battle_client never does: it blocks on ANS_PLAY after sending a request
\* or its answer to one, so a request that replaces a match of its sender comes
\* from a player who has been invited meanwhile.
ClientWaits ==
  \A c \in Client : (match[c] # Null /\ match'[c] \notin {Null, match[c]}) =>
    Awaiting(c) /\ c = heap[match[c]].player2

WaitingSpec == Init /\ [][Next /\ ClientWaits]_vars
=============================================================================
