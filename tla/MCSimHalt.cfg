SPECIFICATION Spec
CONSTANTS
  Thread = {t1, t2}
  a = a
  b = b
  Instruction = {a, b}
  Program <- MCProgram
  Halt = halt
  Undefined = Undefined
  NoProgram = NoProgram
  NoThread = NoThread
PROPERTY
  OneHaltIsOneAnswer
