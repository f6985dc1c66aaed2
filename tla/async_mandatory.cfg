SPECIFICATION Spec
CONSTANTS
  Tasks = {t1}
  Conns = {c1, c2}
  None = None
  Messages <- AllMessages
  Faults = {}
INVARIANT MandatoryIsRouted
