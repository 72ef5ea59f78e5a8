\* Every interleaving of the workers, the handle's calls and a waiting test.
SPECIFICATION Spec
CONSTANTS
  logs = logs
  traces = traces
  Signals <- MCSignals
  Records <- MCRecords
  Compositions <- MCCompositions
  Flushable <- MCFlushable
  MaxRecords <- MCMaxRecords
  QueueSize = 1
  BatchSize = 1
  MaxFlushes = 1
PROPERTIES
  CallsReturn
  PrimaryIsAsked
INVARIANTS
  TypeOK
  PairStaysTogether
  OnlyPrimaryFails
  CallsVouch
  WaitTellsTruth
CHECK_DEADLOCK FALSE
