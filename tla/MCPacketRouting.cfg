SPECIFICATION RoutingSpec
CONSTANTS
  ConnectionIds = {a, b, c}
  None = none
  v1 = v1
  v2 = v2
  supported_versions_ <- MCVersions
  OtherVersion = other
SYMMETRY Symmetry
INVARIANT ParsedAsInTimeWait
