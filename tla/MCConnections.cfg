SPECIFICATION Spec
CONSTANTS
  Thread = {t1, t2}
  Object = {o1, o2, o3, o4}
  NoObject = NoObject
  Endpoint = {e1, e2}
  NoEndpoint = NoEndpoint
INVARIANTS
  TypeOK
  OnlyReplacedStreamsOverlap
  ReceiverHasStream
  AllOrNothing
  NothingLeaks
PROPERTIES
  OperationsEnd
