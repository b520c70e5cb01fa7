CONSTANTS
  Digits = {"0", "1", "2"}
  Inputs <- MCInputs
  Calls <- MCCalls
  DupClones = FALSE
  SharedStem = FALSE
  GainRela = TRUE
INIT FrontInit
NEXT FrontNext
INVARIANT NoNullDeref
