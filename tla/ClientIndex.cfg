\* Two buckets, one of which can hold three clients.
CONSTANTS
  Fd = {4, 5, 6, 7, 8}
  Name = {1, 2, 3}
  HASHTABLE_SIZE = 2
  Null = Null
SPECIFICATION Spec
INVARIANTS
  TypeOK
  ListMatchesNames
  CursorsLive
  LoggedLoopComplete
  MaxFdExact
PROPERTY TableSpec
