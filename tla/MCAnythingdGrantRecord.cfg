\* A grant whose event could not be written.
SPECIFICATION Spec
CONSTANTS
  agent = agent  alice = alice  bob = bob
  info = info  other = other  control = control
  Identities = {agent, alice}
  Users = {agent, alice, bob}
  None = None
  UserOf <- MCUserOf
  Calls = {info}
  MethodOf <- MCMethodOf
  HashOf <- MCHashOf
  Configs <- MCOneConfig
  MaxPending = 1
  ListCapacity = 0
  MaxBoots = 1
  MaxTime = 1
INVARIANT GrantsAreOnRecord
