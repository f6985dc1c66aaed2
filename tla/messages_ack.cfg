SPECIFICATION Spec
CONSTANTS
  a1 = a1
  a2 = a2
  q = q
  bound = bound
  unbound = unbound
  undeclared = undeclared
  Agents = {a1}
  Queues = {q}
  NoQueue = NoQueue
  Dests <- MCDests
  Routes <- MCRoutes
  Undeclared = {undeclared}
  Requests <- OneAgent
  Unreliable = FALSE
  MaxMsgs = 2
  MaxFetch = 2
  Nobody = Nobody
INVARIANT AckedIsSettled
