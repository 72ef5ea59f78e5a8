\* Two concurrent calls of Init, whatever fails.
SPECIFICATION MCSpec
CONSTANTS
  i1 = i1
  i2 = i2
  NoInit = NoInit
  Inits <- MCInits
INVARIANTS
  TypeOK
  NoOrphan
  OutageIsNoError
  DevSinkNeverDecides
  TracesStopLast
  GlobalsAgree
PROPERTIES
  InitReturns
