SPECIFICATION Spec
CONSTANTS
  SupportedMediaTypes <- MCSupportedMediaTypes
  InMediaType = "application/vnd.kubernetes.protobuf"
  OutMediaType = "application/json"
  Revisions = {r1, r2}
  MaxWrites = 3
\* main ends, by a return or a panic.
CHECK_DEADLOCK FALSE
INVARIANT
  ClientClosedAtEnd
