\* What the documentation says of repeated calls.
SPECIFICATION Spec
CONSTANTS
  p1 = p1
  p2 = p2
  p3 = p3
  logs = logs
  traces = traces
  NoCall = NoCall
  NilHook = NilHook
  Calls <- MCCalls
  Bounded <- MCBounded
  Components <- MCComponents
  FlushHooks <- MCFlushHooks
  ShutdownHooks <- MCShutdownHooks
INVARIANTS
  RepeatedCallsSameError
