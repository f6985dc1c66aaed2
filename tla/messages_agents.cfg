SPECIFICATION FairSpec
CONSTANTS
  a1 = a1
  a2 = a2
  q = q
  bound = bound
  unbound = unbound
  undeclared = undeclared
  Agents = {a1, a2}
  Queues = {q}
  NoQueue = NoQueue
  Dests <- MCDests
  Routes <- MCRoutes
  Undeclared = {undeclared}
  Requests <- TwoAgents
  Unreliable = TRUE
  MaxMsgs = 2
  MaxFetch = 2
  Nobody = Nobody
INVARIANTS
  TypeOK
  ConfirmedIsRouted
  Conservation
  ConsumeReportsAll
  NothingHeldBetweenCalls
PROPERTIES
  CallsReturn
  AutoAckOnlyRemoves
  UnackedComesBack
  ImplementsMailbox
