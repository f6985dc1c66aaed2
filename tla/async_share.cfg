SPECIFICATION Spec
CONSTANTS
  Tasks = {t1, t2}
  Conns = {c1, c2}
  None = None
  Messages <- RoutableMessage
  Faults = {}
INVARIANT SingleConnection
