SPECIFICATION MCSpec
CONSTANTS
  Networks = {"connected"}
  Node = {"n1", "n2", "n3"}
  Link <- Line
  Block <- MCBlock
  Genesis = "g"
  parent <- MCParent
  Mined <- BothMine
  Submitted <- NoMining
  start <- AtGenesis
  network_magic <- OneNetwork
  FINALITY_DEPTH = 1
  MAX_HEADERS = 3
  MAX_GETDATA_INFLIGHT = 2
  LOCATOR_DENSE = 0
  MAX_LOCATOR_HASHES = 4
  RELAY_CAPACITY = 3
  BLOCKS_PER_MINUTE = 4
  MAX_DROPS = 0
CHECK_DEADLOCK FALSE
INVARIANTS
  RequestsAnswerable
PROPERTIES
  AcceptedSpreads
