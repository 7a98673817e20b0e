SPECIFICATION Spec
CONSTANTS
  Clients = {c1}
  Scripts <- BaseScripts
  Configs <- QuietConfigs
  ChunkSizes = {300}
INVARIANT FailureCodeHonest
