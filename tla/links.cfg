SPECIFICATION MCSpec
CONSTANTS
  Listen = {"a", "b", "c"}
  Ephemeral = {"e"}
  Subnet <- MCSubnet
  cli_peers <- MCPeers
  bootstrap_peers <- MCNoPeers
  BUCKET_LIMIT = 2
  MIN_OUTBOUND = 2
  ANCHOR_COUNT = 2
  MAX_KNOWN_PEERS = 4
  MAX_ADDR_PER_MESSAGE = 2
  None = None
  MAX_DISCONNECTS = 2
  MAX_RESTARTS = 1
  MAX_OUTAGES = 1
  Loads <- MCLoads
  CHUNK = 2
  MAX_MSG_SIZE = 8
  Miner = {"m1", "m2", "soak"}
  Poller = {"p"}
  ip <- MCIp
  bearer <- MCBearer
  custom <- MCCustom
  fields <- MCFields
  auth_token = "secret"
  NoToken = "none"
  LIMIT = 2
  Choice = {1, 2}
  MAX_HEIGHT = 2
  MAX_BRANCHES = 1
  MaxNonce = 7
  ChunkSize = 5
  CHECK_INTERVAL = 2
  First = {0, 1, 2}
  MaxStops = 2
CHECK_DEADLOCK FALSE
INVARIANTS
  PeersExact
  SidesAgree
  OneWinner
  NothingSkipped
  StopsSoon
PROPERTIES
  OutboundRestored
  MessagesArrive
  FindsOne
