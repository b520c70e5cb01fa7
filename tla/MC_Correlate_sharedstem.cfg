CONSTANTS
  Digits = {"0", "1", "2"}
  Inputs <- MCInputs
  Calls <- MCCalls
  DupClones = FALSE
  SharedStem = TRUE
  GainRela = FALSE
INIT FrontInit
NEXT FrontNext
INVARIANT CorrelationExact
