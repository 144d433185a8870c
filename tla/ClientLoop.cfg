\* Another client that does anything, two lines typed ahead, and room for one
\* message behind the one that is read.
CONSTANTS
  Client = {me, you}
  me = me
  Name = {n1, n2}
  Match = {m1}
  Null = Null
  MaxRequests = 1
  MaxQueue = 2
  MaxTyped = 2
SPECIFICATION FairSpec
INVARIANTS
  TypeOK
  EndsWithCause
PROPERTIES
  ServerHeard
  IdleLeaves
  SignalEnds
