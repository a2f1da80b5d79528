\* Two tool clients and an admin, all of whom may leave, and two starts.
SPECIFICATION FairSpec
CONSTANTS
  t1 = t1  t2 = t2  a1 = a1  a2 = a2
  Clients = {t1, t2, a1}
  PlaneOf <- MCPlaneOf
  None = None
  Backlog = 2
  ClientsLeave = TRUE
  Faults = TRUE
  MaxStarts = 2
INVARIANTS TypeOK AcceptNeverBlocks NoPlaneStarves StopIsPrompt StartFailsOnlyByFault PathsLeadHere
PROPERTIES NobodyHangs StopCompletes
CHECK_DEADLOCK FALSE
