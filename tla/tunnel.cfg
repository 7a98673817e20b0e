SPECIFICATION Spec
CONSTANTS
  Data = {1, 2}
  BufLen = 2
  SndBuf = 1
  MaxOut = 2
INVARIANTS
  TypeOK
  Conservation
  OkMeansComplete
PROPERTIES
  ImplementsPipe
  Delivered
  Released
