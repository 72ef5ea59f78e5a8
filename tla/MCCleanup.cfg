\* Every interleaving of three calls on two providers, one call with a deadline.
SPECIFICATION Spec
CONSTANTS
  p1 = p1
  p2 = p2
  p3 = p3
  logs = logs
  traces = traces
  NoCall = NoCall
  NilHook = NilHook
  Calls <- MCCalls
  Bounded <- MCBounded
  Components <- MCComponents
  FlushHooks <- MCFlushHooks
  ShutdownHooks <- MCShutdownHooks
INVARIANTS
  TypeOK
  ShutdownHooksRunOnce
  HooksInOrder
  NothingSkipped
PROPERTIES
  ImplementsOneShutdown
  LateShutdownNeverBlocks
  BoundedCallReturns
