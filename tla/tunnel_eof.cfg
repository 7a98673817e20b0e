SPECIFICATION Spec
CONSTANTS
  Data = {1}
  BufLen = 1
  SndBuf = 1
  MaxOut = 1
PROPERTY EofReaches
