CONSTANTS
  NoSec = NoSec
  NoSym = NoSym
  Secs <- MCSecs
  Syms <- MCSyms
  SecOrder <- MCSecOrder
  SecKind <- MCSecKind
  RelaBase <- MCRelaBase
  SymType <- MCSymType
  SymBind <- MCSymBind
  SymSec0 <- MCSymSec0
  Bundled0 <- MCBundled0
  Secsym0 <- MCSecsym0
  NullSym = ""
  ConstLabels = {".LC0"}
  HookData = {"xsplice_load_data"}
  GroupData <- MCGroupData
  SecSize <- MCSecSize
  SecAlign <- MCSecAlign
  GroupSize <- MCGroupSize
  SpecialTable <- MCSpecialTable
  Inputs <- MCInputs
  IgnoreSections <- MCIgnoreSections
  IgnoreFunctions <- MCIgnoreFunctions
  Fates = {"same", "text", "rela", "new"}
  WithHook = TRUE
  HookOnExisting = FALSE
  WithIgnores = FALSE
  GroupF = TRUE

  SymOrder <- MCSymOrder
  SymtabSec = "symtab"
  StringsSec = "xsplice.strings"
  StringsSym = "S.xsplice.strings"
  FuncsSec = "xsplice.funcs"
  FuncsRelaSec = "rela.xsplice.funcs"
  Running <- MCRunning
  Resolve = TRUE
  SmallH = FALSE
  PatchInsnSize = 5
  EntrySize = 40
  NameOff = 24

SPECIFICATION MainSpec
INVARIANT TypeOK
INVARIANT OutputSelfContained
INVARIANT InclusionIsClosure
INVARIANT NoChangeLost
PROPERTY ImplementsPatchOutputSpec
INVARIANT SymtabLinkCompliant
