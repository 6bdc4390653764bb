SPECIFICATION Spec
CONSTANT
  Thread = {t1, t2}
INVARIANT
  SignalsEndTheWait
