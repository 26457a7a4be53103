SPECIFICATION Spec
CONSTANTS
  main = main
  worker = worker
  c1 = c1
  c2 = c2
  a1 = a1
  a2 = a2
  f1 = f1
  f2 = f2
  Threads <- MCThreads
  Comms <- MCComms
  Addresses <- MCAddresses
  Paths <- MCPaths
  Main = main
  NoPath = NoPath
  NoAddress = NoAddress
  Nobody = Nobody
  Configs <- MCConfigs
  LineLevels = {1, 3}
PROPERTY FilePathTakesEffect
