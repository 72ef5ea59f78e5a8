\* An https URL without a port.
SPECIFICATION Spec
CONSTANTS
  Inputs <- MCEndpoints
  Protocols <- MCProtocols
  Hosts <- MCHosts
  Paths <- MCPaths
  HeaderNames <- MCHeaderNames
  Milli <- MCMilli
  Half <- MCHalf
INVARIANTS
  NoopOnlyWhenRefused
