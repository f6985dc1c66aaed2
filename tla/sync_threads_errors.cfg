SPECIFICATION Spec
CONSTANTS
  Threads = {t1, t2}
  Conns = {c1, c2}
  None = None
  Faults = {}
INVARIANT OnlyLibraryErrors
