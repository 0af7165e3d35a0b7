CONSTANTS
  Bytes = {b1, b2, b3}
  MaxSize = 4
SYMMETRY MCSymmetry
SPECIFICATION Spec
INVARIANTS
  TypeOK
  FieldsAgree
PROPERTIES
  ImplementsFifo
