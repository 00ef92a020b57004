SPECIFICATION Spec
CONSTANTS
  Key <- MCKey
  HashMod = 16
  Hash <- MCHash
  DefaultSeed = 9
  SizeMod = 16
  One = 4
  Bpe <- MCBpe
  Block = {p1, p2}
  NULL = NULL
  Garbage = Garbage
  Entries = {0, 3, 6}
  Error = {0, 1, 2, 4}
INVARIANTS TypeOK MemorySafe NoFalseNegative OnlyInsertedBits
PROPERTIES LeakOnlyByReinit ImplementsApproxSet
