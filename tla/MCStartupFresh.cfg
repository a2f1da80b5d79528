\* The first start of a daemon.
SPECIFICATION BootSpec
CONSTANTS
  MaxEvents = 2
  WithApprover <- MCWithApprover
  LogPaths <- MCLogPaths
  RootPaths <- MCLinkedRoots
  DefaultLog <- MCDefaultLog
  Ids = {1}
  MaxRules = 1
INVARIANT LogIsOutside
