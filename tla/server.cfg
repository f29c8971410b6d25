SPECIFICATION Spec
CONSTANTS
  Setups <- MCSetups
  Eos = "eos"
  MaxRequests = 4
INVARIANTS
  CacheHeld
  SampledFromOwnContext
  AnsweredOnce
  ExceededOnlyWhenFull
PROPERTIES
  RequestsEnd
