SPECIFICATION Spec
CONSTANTS
  NIL = NIL
  Str = {s1, s2}
  Block = {b1, b2, b3, b4}
  Char = {"a", "b"}
  Texts <- MCTexts
  FirstBufferSize = 2
  MaxLength = 4
INVARIANTS
  BufferInv
PROPERTIES
  AppendsEnd
  ImplementsStringValue
CHECK_DEADLOCK FALSE
