SPECIFICATION Spec
CONSTANTS
  Key <- MCKey
  HashMod = 16
  Hash <- MCHash
  DefaultSeed = 9
  SizeMod = 16
  One = 4
  Bpe <- MCBpe
  PyKey <- MCPyKey
  Encoded <- MCEncoded
  Unparsed <- MCUnparsed
  Block = {p1}
  NULL = NULL
  Entries = {0, 1, 3}
  Error = {0, 1, 2, 4}
  Seed = {0, 5}
  NoSeed = NoSeed
  IntMod = 16
  None = None
  NotImplementedError = NotImplementedError
  SystemError = SystemError
INVARIANTS TypeOK BlocksAreOwned
PROPERTIES KeepsPromiseUntilReseeded InNeedsAFilter
