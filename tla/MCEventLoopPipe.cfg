\* Slow clients that give up.
SPECIFICATION FairSpec
CONSTANTS
  t1 = t1  t2 = t2  a1 = a1  a2 = a2
  Clients = {t1, a1}
  PlaneOf <- MCPlaneOf
  None = None
  Backlog = 2
  ClientsLeave = TRUE
  Faults = FALSE
  MaxStarts = 1
PROPERTY WaitingIsServed
CHECK_DEADLOCK FALSE
