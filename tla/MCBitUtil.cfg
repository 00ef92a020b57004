SPECIFICATION Spec
CONSTANTS
  ByteBits = 3
  CharSigned = TRUE
  BufferBytes = 1
  MaxBits = 6
  MaxOffset = 4
  Words <- MCWords
INVARIANTS
  TypeOK
  CopyExact
  OneByteToSpare
  AbortsOnShortStream
  PopcountIsCardinality
PROPERTY CopyReturns
