\* Two concurrent calls, all recorders and modes.
SPECIFICATION Spec
CONSTANTS
  c1 = c1
  c2 = c2
  Calls <- MCCalls
  Requests <- MCRequests
  Modes <- MCModes
SYMMETRY MCSymmetry
INVARIANTS
  TypeOK
  RecordsWhatLintAccepts
  ViolationsLogged
