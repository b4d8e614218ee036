SPECIFICATION MCSpec
CHECK_DEADLOCK FALSE
CONSTANTS
  p1 = p1
  p2 = p2
  r1 = r1
  r2 = r2
  n1 = n1
  n2 = n2
  n3 = n3
  Procs = {p1, p2}
  Labels = {"a"}
  MaxKeys = 6
  MaxCrashes = 1
  Revokers = {r1, r2}
  Names = {"owner"}
  Days = {0, 1}
  MaxTokens = 3
  MaxDay = 3
  MaxRevokeCrashes = 1
  Peer = {n1, n2, n3}
  Banned = {n3}
  MAX_TRACKED_PEERS = 2
  max_per_window = 2
  window_duration = 2
  MAX_TIME = 3
  MAX_EVENTS = 3
  Wallets = {"alice", "bob"}
  Amounts = {0, 1, 3, 30, 31}
  WORD = 32
  FEE = 2
  MIN_FEE_ARKES = 2
  DUST_LIMIT_ARKES = 2
  COINBASE_MATURITY = 2
  REWARD = 5
  MaxHeight = 5
SYMMETRY Symmetric
INVARIANTS
  LimitExact
  EvictionExact
  VaultKeepsKeys
  FirstKeysSurvive
  NoneComesBack
  FundedSendSucceeds
PROPERTIES
  SendMovesAmount
