CONSTANTS
  Digits = {"0", "1", "2"}
  Inputs <- MCInputs
  Calls <- MCCalls
  DupClones = TRUE
  SharedStem = FALSE
  GainRela = FALSE
INIT FrontInit
NEXT FrontNext
INVARIANT PatchedFunctionNamesUnique
