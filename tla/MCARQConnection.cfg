SPECIFICATION Spec
CONSTANTS
  Thread = {t1, t2}
  a = a
  b = b
  Instruction = {a, b}
  Program <- MCProgram
  Halt = halt
  NoProgram = NoProgram
  NoThread = NoThread
  Receiver = Receiver
  MAX_PDUWORDS = 2
INVARIANTS
  TypeOK
  NothingLeftOver
  HaltMeansDone
PROPERTIES
  EachCallGetsItsAnswers
  CallsReturn
  ImplementsExecution
