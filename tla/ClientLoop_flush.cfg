CONSTANTS
  Client = {me, you}
  me = me
  Name = {n1, n2}
  Match = {m1}
  Null = Null
  MaxRequests = 1
  MaxQueue = 2
  MaxTyped = 1
SPECIFICATION Spec
INVARIANT FlushHasInput
