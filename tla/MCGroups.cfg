SPECIFICATION Spec
CONSTANTS
  MaxSignals = 1
  MaxFPGAs = 3
INVARIANT GroupsRoundedOff
CHECK_DEADLOCK FALSE
