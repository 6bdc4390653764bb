SPECIFICATION Spec
CONSTANTS
  Entry = {e1, e2}
  Submitter = {s1, s2}
  Nothing = Nothing
  MaxSets = 2
  MaxStack = 2
SYMMETRY Symmetric
PROPERTY
  PendingIsExecuted
