SPECIFICATION Spec
CONSTANT Streams <- MCStreams
INVARIANTS
  LinesMatch
  PanicNeedsBareLF
  HeldIsReturn
  HeaderIntact
