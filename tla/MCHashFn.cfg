SPECIFICATION Spec
CONSTANTS
  ByteBits = 1
  Mul = 5
  R = 3
  S1 = 2
  S2 = 2
  Seeds = {0, 9}
  MaxMurmurLen = 8
  MaxWyLen = 200
INVARIANTS
  TypeOK
  WholeKeyHashed
  NearKeysDiffer
PROPERTY HashReturns
