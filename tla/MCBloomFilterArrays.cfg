SPECIFICATION Spec
CONSTANTS
  Key <- MCKey
  HashMod = 16
  Hash <- MCHash
  DefaultSeed = 9
  SizeMod = 16
  One = 4
  Bpe <- MCBpe
  Obj = {o1, o2}
  Block = {p1, p2}
  NULL = NULL
  Entries = {1}
  Error = {1, 2}
  Seed = {0, 5}
  RawLen = {1}
  WordBytes = 2
PROPERTY ArraysAreFound
