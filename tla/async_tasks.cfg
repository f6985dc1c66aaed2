SPECIFICATION FairSpec
CONSTANTS
  Tasks = {t1, t2}
  Conns = {c1, c2}
  None = None
  Messages <- RoutableMessage
  Faults <- FaultKinds
INVARIANTS
  TypeOK
  SharedConnection
  NoChannelLeak
PROPERTIES
  ImplementsLifecycle
  NeverHandsOutClosing
  ReturnsWhenStable
