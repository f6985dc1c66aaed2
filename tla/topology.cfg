SPECIFICATION FairSpec
CONSTANTS
  a1 = a1
  a2 = a2
  q1 = q1
  q2 = q2
  x1 = x1
  x2 = x2
  Agents = {a1, a2}
  Queues = {q1, q2}
  Exchanges = {x1, x2}
  Default = Default
  Nobody = Nobody
  Ghost = Ghost
  Requests <- TwoAgents
  MaxMsgs = 1
INVARIANTS
  TypeOK
  PromisesKept
  AsAsked
  CountsAreReal
PROPERTIES
  MessagesStay
  RetrySettles
