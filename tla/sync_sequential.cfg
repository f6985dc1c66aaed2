SPECIFICATION FairSpec
CONSTANTS
  Threads = {t1}
  Conns = {c1, c2}
  None = None
  Faults <- SequentialFaults
INVARIANTS
  TypeOK
  HandsOutOpen
  NoChannelLeak
PROPERTIES
  CallsReturn
