\* Three descriptors: closing one leaves others above and below it.
CONSTANTS
  FD_SETSIZE = 7
  sfd = 3
  Fd = {4, 5, 6}
  MaxBacklog = 2
SPECIFICATION Spec
INVARIANTS
  Watched
  NoAbort
  ExitClosesAll
PROPERTIES
  OnlyDeadClosed
  Served
