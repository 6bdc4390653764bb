SPECIFICATION Spec
CONSTANTS
  MaxSignals = 1
  MaxFPGAs = 3
INVARIANT TypeOK
INVARIANT CrashesOnlyOnSignal
INVARIANT NothingLeftRunning
INVARIANT CommandGetsConnections
PROPERTY EverythingEnds
CHECK_DEADLOCK FALSE
