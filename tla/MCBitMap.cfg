SPECIFICATION Spec
CONSTANTS
  Obj = {a, b}
  Width = 3
INVARIANT TypeOK
PROPERTIES ImplementsBitset EachCallIsItsBitsetCall
