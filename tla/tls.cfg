SPECIFICATION Spec
CONSTANTS
  MaxIn = 2
  Chunks = 3
  SndBuf = 1
  MaxRefused = 3
INVARIANTS
  ReadComplete
  WrittenInOrder
  OkMeansHandedOver
PROPERTY HandshakeCompletes
