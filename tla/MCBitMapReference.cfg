SPECIFICATION Spec
CONSTANTS
  Obj = {a, b}
  Width = 3
PROPERTY ReferenceAssignsBit
