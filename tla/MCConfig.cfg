\* Both families of inputs.
SPECIFICATION Spec
CONSTANTS
  Inputs <- MCInputs
  Protocols <- MCProtocols
  Hosts <- MCHosts
  Paths <- MCPaths
  HeaderNames <- MCHeaderNames
  Milli <- MCMilli
  Half <- MCHalf
INVARIANTS
  TypeOK
  ExportersGetUsable
  PrecedenceFollowed
  SignalsKeptApart
