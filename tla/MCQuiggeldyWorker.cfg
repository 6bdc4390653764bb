SPECIFICATION Spec
CONSTANTS
  Session = {s1, s2}
  NoSession = NoSession
  Snapshotting = {s1}
  m_max_num_connection_attempts = 1
  SlurmInstalled = TRUE
  MaxVersion = 2
INVARIANTS
  TypeOK
  ConnectionIsLicensed
  NoNullConnection
  FailureIsOneAnswer
PROPERTIES
  WorksOnOwnState
  RequestsAreAnswered
