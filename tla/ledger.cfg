SPECIFICATION Spec
CONSTANTS
  Hash <- MCHash
  block <- MCBlock
  Genesis = "G"
  Bits = {"lo"}
  work <- MCWork
  next_bits <- MCNextBits
  WORK_MAX = 100
  FINALITY_DEPTH = 10
  MEDIAN_SPAN = 3
  MAX_FUTURE = 5
  Clock = {9}
  NETWORK_MAGIC = "net"
  MIN_FEE_ARKES = 1
  MAX_MEMPOOL_BYTES = 4
  Txid <- MCTxid
  tx <- MCTx
  COINBASE_MATURITY = 2
  DUST_LIMIT_ARKES = 1
  MAX_SUPPLY_ARKES = 22
  BLOCK_REWARD_INITIAL = 8
  HALVING_INTERVAL = 2
  MAX_COINBASE_OUTPUTS = 1
  SECONDS_PER_HEIGHT = 1
CHECK_DEADLOCK FALSE
INVARIANTS
  TypeOK
  SpentOnce
  CoinbaseMatures
  ConfirmedNotPending
  MempoolAccounting
PROPERTIES
  ImplementsSupply
