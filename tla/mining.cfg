SPECIFICATION MiningSpec
CONSTANTS
  Pay = {"p1", "p2", "p3"}
  MAX_BLOCK_BYTES = 8
  hash_of <- MCHashOf
  coinbase_txid <- MCCoinbase
  txid_rank <- MCRank
  TAKE_LIMIT = 2
  LocalMiner = "local"
  RpcMiner = "rpc"
  PeerBlock <- MCPeerBlock
  MAX_HEIGHT = 4
  None = None
  Hash <- MCHash
  block <- MCBlock
  Genesis <- MCGenesis
  Bits = {"lo"}
  work <- MCWork
  next_bits <- MCNextBits
  WORK_MAX = 100
  FINALITY_DEPTH = 10
  MEDIAN_SPAN = 3
  MAX_FUTURE = 5
  Clock = {9}
  NETWORK_MAGIC = "net"
  MIN_FEE_ARKES = 1
  MAX_MEMPOOL_BYTES = 8
  Txid <- MCTxid
  tx <- MCTx
  COINBASE_MATURITY = 1
  DUST_LIMIT_ARKES = 1
  MAX_SUPPLY_ARKES = 22
  BLOCK_REWARD_INITIAL = 8
  HALVING_INTERVAL = 2
  MAX_COINBASE_OUTPUTS = 2
  SECONDS_PER_HEIGHT = 1
CHECK_DEADLOCK FALSE
INVARIANTS
  BuiltIsAdded
PROPERTIES
  AcceptedIsTip
