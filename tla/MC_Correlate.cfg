CONSTANTS
  Digits = {"0", "1", "2"}
  Inputs <- MCInputs
  Calls <- MCCalls
  DupClones = FALSE
  SharedStem = FALSE
  GainRela = FALSE
INIT FrontInit
NEXT FrontNext
INVARIANT TypeOK
INVARIANT ParsedArgsComplete
INVARIANT CorrelationExact
INVARIANT NoNullDeref
INVARIANT RelaCompareSound
INVARIANT RelaCompareComplete
