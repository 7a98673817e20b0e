SPECIFICATION Spec
CONSTANTS
  Clients = {c1}
  Scripts <- MCScripts
  Configs <- MCConfigs
  ChunkSizes = {1, 300}
INVARIANTS
  TypeOK
  HandshakeConsumedExactly
  SuccessIsTrue
  RepliesInOrder
  UpstreamOnlyForValidConnect
  NoLeakedUpstream
  AnsweredUnlessPanic
PROPERTIES
  FailureReported
  HandshakeSettles
