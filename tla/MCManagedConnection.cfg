\* Two threads, two places for connections, one context manager.
SPECIFICATION Spec
CONSTANTS
  t1 = t1
  t2 = t2
  o1 = o1
  o2 = o2
  m1 = m1
  Thread = {t1, t2}
  Object = {o1, o2}
  Manager = {m1}
  ServerSize <- MCServerSize
  Attempts = 2
  MaxRequests = 2
  OutOfOrder = OutOfOrder
  Nothing = Nothing
SYMMETRY Symmetry
INVARIANT TypeOK
INVARIANT InOrderOnce
INVARIANT OneOwner
INVARIANT NumbersReachServer
PROPERTY TimeIsKept
CHECK_DEADLOCK FALSE
