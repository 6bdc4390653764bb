SPECIFICATION MCSpec
CONSTANTS
  t1 = t1
  t2 = t2
  Thread = {t1, t2}
  Size = 2
  Program <- MCProgram
  MayFail = TRUE
  Register <- MCRegister
  MaxCalls = 2
  Payloads <- MCPayloads
  MaxMessages = 3
  Parameter <- MCParameter
  PayloadsOf <- MCPayloadsOf
  MaxUnderway = 3
SYMMETRY Symmetric
INVARIANTS
  TypeOK
  DecodedInOrder
  FlushCompletes
  CallsGetTheirAnswers
  EchoedInOrder
CHECK_DEADLOCK FALSE
