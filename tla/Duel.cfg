\* A game with hits and misses that do not end it.
CONSTANTS
  alice = alice
  bob = bob
  Cell = {a, b, c}
  SHIP_COUNT = 2
  MaxGames = 2
  Duplicates = FALSE
SPECIFICATION Spec
SYMMETRY Symmetry
INVARIANTS
  TypeOK
  BoardsAgree
  ShipsConserved
  TurnsAlternate
PROPERTIES
  VerdictEarned
  
