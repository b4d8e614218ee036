SPECIFICATION MCSpec
CONSTANTS
  Hash <- ForkHash
  block <- MCBlock
  Genesis = "G"
  NoBlock = "none"
  Bits = {"lo"}
  work <- MCWork
  next_bits <- MCNextBits
  WORK_MAX = 100
  FINALITY_DEPTH = 2
  MEDIAN_SPAN = 3
  MAX_FUTURE = 5
  Clock = {9}
  NETWORK_MAGIC = "net"
  REGTEST_MAGIC = "net"
  PUT_ERRORS = {"creating", "opening", "up"}
  CRASHES = {"creating", "opening", "up"}
  MIN_FEE_ARKES = 1
  MAX_MEMPOOL_BYTES = 4
  Txid <- MCTxid
  tx <- MCTx
  COINBASE_MATURITY = 1
  DUST_LIMIT_ARKES = 1
  MAX_SUPPLY_ARKES = 100
  BLOCK_REWARD_INITIAL = 4
  HALVING_INTERVAL = 100
  MAX_COINBASE_OUTPUTS = 1
  SECONDS_PER_HEIGHT = 1
INVARIANTS
  NoDanglingKeys
  KnownIsStored
  RestartKeepsChain
