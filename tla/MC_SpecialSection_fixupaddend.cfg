CONSTANTS
  FixupSym = ".fixup"
  Fns <- MCFns
  Inputs <- MCInputs
  Unsorted = FALSE
  ExSize = 24
  FixAlign = 1

SPECIFICATION Spec
INVARIANT ExTableFixupTargets
