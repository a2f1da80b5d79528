\* Files of any length, and two events with restarts in between.
SPECIFICATION BootSpec
CONSTANTS
  MaxEvents = 2
  WithApprover <- MCWithApprover
  LogPaths <- MCLogPaths
  RootPaths <- MCRootPaths
  DefaultLog <- MCDefaultLog
  Ids = {1}
  MaxRules = 2
INVARIANTS BootTypeOK AdminsAreListed ExistingLogIsOutside LogIsThere AcknowledgedIsWritten DamageIsBounded
