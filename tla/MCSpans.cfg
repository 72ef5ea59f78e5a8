\* Every operation, capture setting and answer of the redactor.
SPECIFICATION Spec
CONSTANTS
  CallerKeys <- MCCallerKeys
  Calls <- MCCalls
  MaxAfter <- MCMaxAfter
INVARIANTS
  TypeOK
  OnlyWhatTheRedactorReturned
  FailClosed
  NativeKept
