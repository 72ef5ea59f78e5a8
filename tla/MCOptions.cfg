\* Two calls of ApplyOptions by two goroutines, and one Init.
SPECIFICATION Spec
CONSTANTS
  p1 = p1
  p2 = p2
  Nil = Nil
  Absent = Absent
  dropAll = dropAll
  redact = redact
  Procs <- MCProcs
  Keys <- MCKeys
  Values <- MCValues
  ApiKey = "key"
  Secret = 9
  Texts <- MCTexts
  Redactors <- MCRedactors
  CallerHeap <- MCCallerHeap
  CallerOptions <- MCCallerOptions
  OptionLists <- MCOptionLists
  MaxCalls = 2
  MaxInits = 1
INVARIANTS
  NobodyElseReaches
  MeansWhatWasAsked
  OthersKeepTheirs
CHECK_DEADLOCK FALSE
