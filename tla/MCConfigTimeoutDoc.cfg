\* A timeout that is too large for a duration.
SPECIFICATION Spec
CONSTANTS
  Inputs <- MCSources
  Protocols <- MCProtocols
  Hosts <- MCHosts
  Paths <- MCPaths
  HeaderNames <- MCHeaderNames
  Milli <- MCMilli
  Half <- MCHalf
INVARIANTS
  TimeoutNonNegative
