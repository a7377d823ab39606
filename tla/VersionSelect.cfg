CONSTANTS
  Wire <- MCWire
  MaxCount = 4
SPECIFICATION Spec
INVARIANT TypeOK
INVARIANT SelectMatchesReference
