\* A code of 3 message and 4 parity symbols over the field of 8 elements.
SPECIFICATION Spec
CONSTANTS
  FieldMax = 7
  PrimitivePoly = 11
  MinDistance = 4
  Scripts <- MCScripts
  Junk = {0, 5}
INVARIANTS TypeOK InsideBuffers LengthExact LocatorFollows LocatorShortest PowersSuffice DecodeRestores OnlyCodewords
CHECK_DEADLOCK FALSE
