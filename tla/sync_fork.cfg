SPECIFICATION MCSpec
CONSTANTS
  Networks = {"given"}
  Node = {"n1", "n2"}
  Link <- Pair
  Block <- MCBlock
  Genesis = "g"
  parent <- MCParent
  Mined <- FirstMinesOn
  Submitted <- NoMining
  start <- Forked
  network_magic <- OneNetwork
  FINALITY_DEPTH = 3
  MAX_HEADERS = 3
  MAX_GETDATA_INFLIGHT = 2
  LOCATOR_DENSE = 0
  MAX_LOCATOR_HASHES = 4
  RELAY_CAPACITY = 2
  BLOCKS_PER_MINUTE = 4
  MAX_DROPS = 0
CHECK_DEADLOCK FALSE
PROPERTY
  AnnouncedIsFetched
