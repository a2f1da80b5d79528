\* Two requests in one store, whatever is asked for, one run of the daemon.
SPECIFICATION Spec
CONSTANTS
  agent = agent  alice = alice  bob = bob
  info = info  other = other  control = control
  Identities = {agent, alice}
  Users = {agent, alice, bob}
  None = None
  UserOf <- MCUserOf
  Calls = {info, other, control}
  MethodOf <- MCMethodOf
  HashOf <- MCHashOf
  Configs <- MCRequestConfigs
  MaxPending = 2
  ListCapacity = 1
  MaxBoots = 1
  MaxTime = 1
INVARIANTS TypeOK IdsAreUnique AnswersAreTrue SeparationOfDuties ResultsAreOnRecord
           ToolRefusalsAreAudited
PROPERTIES EntriesAreStable
