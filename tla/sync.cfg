SPECIFICATION MCSpec
CONSTANTS
  Networks = {"given", "ring"}
  Node = {"n1", "n2"}
  Link <- Pair
  Block <- MCBlock
  Genesis = "g"
  parent <- MCParent
  Mined <- NoMining
  Submitted <- SecondSubmits
  start <- Apart
  network_magic <- OneNetwork
  FINALITY_DEPTH = 2
  MAX_HEADERS = 3
  MAX_GETDATA_INFLIGHT = 2
  LOCATOR_DENSE = 0
  MAX_LOCATOR_HASHES = 4
  RELAY_CAPACITY = 1
  BLOCKS_PER_MINUTE = 2
  MAX_DROPS = 2
CHECK_DEADLOCK FALSE
PROPERTIES
  PairCatchesUp
  TrafficEnds
