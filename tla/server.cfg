SPECIFICATION ServerSpec
CONSTANTS
  Clients = {c1, c2}
  Scripts <- MCScripts
  Configs <- MCConfigs
  ChunkSizes = {300}
  ListenConfigs <- MCListen
  FdLimits = {3, 5}
  Workers = 1
PROPERTIES
  FullOnlyWithLive
  NobodyStarves
  ServerExits
