\* Concurrent calls that commit the same violation.
SPECIFICATION Spec
CONSTANTS
  c1 = c1
  c2 = c2
  Calls <- MCCalls
  Requests <- FilterRequests
  Modes <- MCLogging
SYMMETRY MCSymmetry
INVARIANTS
  LoggedOncePerProcess
