SPECIFICATION Spec
CONSTANTS
  Tasks = {t1, t2}
  Closers = {c1, c2}
  b1 = b1
  b2 = b2
  Links = {b1, b2}
  Closings <- MCClosings
  None = None
  MaxLoops = 2
  MaxClients = 4
INVARIANTS OwnLoop ClosingNotCached NoneForgotten AcloseReturnsDone
