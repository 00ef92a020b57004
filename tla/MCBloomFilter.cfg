SPECIFICATION Spec
CONSTANTS
  Key <- MCKey
  HashMod = 32
  Hash <- MCWideHash
  DefaultSeed = 9
  SizeMod = 32
  One = 4
  Bpe <- MCBpe
  Obj = {o1, o2}
  Block = {p1, p2, p3}
  NULL = NULL
  Entries = {0, 6}
  Error = {1, 2}
  Seed = {0}
  RawLen = {0}
  WordBytes = 2
INVARIANTS TypeOK SoleOwner MemorySafe NoFalseNegative PopcountIsExact
PROPERTIES LeakOnlyByFailedAssign ImplementsFilterValues
SYMMETRY Symmetry
