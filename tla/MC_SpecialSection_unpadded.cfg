CONSTANTS
  FixupSym = ".fixup"
  Fns <- MCFns
  Inputs <- MCInputs
  Unsorted = FALSE
  ExSize = 24
  FixAlign = 4

SPECIFICATION Spec
PROPERTY ImplementsSpecialSectionSpec
