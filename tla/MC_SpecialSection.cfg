CONSTANTS
  FixupSym = ".fixup"
  Fns <- MCFns
  Inputs <- MCInputs
  Unsorted = FALSE
  ExSize = 24
  FixAlign = 1

SPECIFICATION Spec
INVARIANT TypeOK
INVARIANT NoBufferOverrun
PROPERTY ImplementsSpecialSectionSpec
PROPERTY WalkTerminates
