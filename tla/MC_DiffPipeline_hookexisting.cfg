CONSTANTS
  NoSec = NoSec
  NoSym = NoSym
  Secs <- MCSecs
  Syms <- MCSyms
  SecOrder <- MCSecOrder
  SecKind <- MCSecKind
  RelaBase <- MCRelaBase
  SymType <- MCSymType
  SymBind <- MCSymBind
  SymSec0 <- MCSymSec0
  Bundled0 <- MCBundled0
  Secsym0 <- MCSecsym0
  NullSym = ""
  ConstLabels = {".LC0"}
  HookData = {"xsplice_load_data"}
  GroupData <- MCGroupData
  SecSize <- MCSecSize
  SecAlign <- MCSecAlign
  GroupSize <- MCGroupSize
  SpecialTable <- MCSpecialTable
  Inputs <- MCInputs
  IgnoreSections <- MCIgnoreSections
  IgnoreFunctions <- MCIgnoreFunctions
  Fates = {"same", "text", "rela", "new"}
  WithHook = TRUE
  HookOnExisting = TRUE
  WithIgnores = FALSE
  GroupF = FALSE

SPECIFICATION Spec
INVARIANT OutputSelfContained
