SPECIFICATION FairSpec
CONSTANTS
  Hash <- MCHash
  block <- MCBlock
  Genesis = "G"
  Bits = {"lo", "hi"}
  work <- MCWork
  next_bits <- MCNextBits
  WORK_MAX = 8
  FINALITY_DEPTH = 3
  MEDIAN_SPAN = 3
  MAX_FUTURE = 5
  Clock = {0, 9}
  NETWORK_MAGIC = "net"
  MIN_FEE_ARKES = 1
  MAX_MEMPOOL_BYTES = 1
  Txid = {"cb", "null"}
  tx <- MCTx
  COINBASE_MATURITY = 1
  DUST_LIMIT_ARKES = 1
  MAX_SUPPLY_ARKES = 1
  BLOCK_REWARD_INITIAL = 1
  HALVING_INTERVAL = 1
  MAX_COINBASE_OUTPUTS = 1
  SECONDS_PER_HEIGHT = 1
CHECK_DEADLOCK FALSE
INVARIANTS
  ForkInv
  ActivationNeverFails
PROPERTIES
  Finality
  Converges
