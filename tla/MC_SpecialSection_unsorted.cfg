CONSTANTS
  FixupSym = ".fixup"
  Fns <- MCFns
  Inputs <- MCInputs
  Unsorted = TRUE
  ExSize = 24
  FixAlign = 1

SPECIFICATION Spec
PROPERTY ImplementsSpecialSectionSpec
