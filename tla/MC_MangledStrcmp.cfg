CONSTANTS
  Digits = {"0", "1"}
  Letters = {"a"}
  MaxLen = 5
INIT Init
NEXT Next
INVARIANT MangledStrcmpIsMangledEquality
