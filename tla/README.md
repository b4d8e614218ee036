# Arkos in TLA+

This directory holds a formal model of the Arkos node (Rust sources under
`src/src/`, the repository root being `src/`): TLA+ modules, the TLC
configurations that check them on small instances, and theorems checked by
TLAPS. `PROJECT.json` lists the components, the runs, the source lines each
definition models, the hazards of the code and the theorems.

## 1. The system

Arkos is a proof-of-work cryptocurrency. One process is one node; its tasks share
one `Blockchain` behind an async mutex.

| Component | State | Operations | Interacts with |
|---|---|---|---|
| Blockchain (`blockchain/chain.rs`) | `all_blocks`, `chain_work`, `blocks`, `utxo_set`, `total_minted`, `network_magic` | `add_block`, `activate_chain`, `prune_stale_orphans`, `submit_transaction`, `mine_block` | called by peers, miner, RPC, command line, under the lock |
| Ledger rules (`chain.rs`, `transaction/utxo.rs`, `tx.rs`) | none / the UTXO set | `validate_tx_with_utxo`, `evaluate_script`, `apply_transaction`, subsidy | used by the blockchain |
| Mempool (`transaction/mempool.rs`) | `txs`, `fees`, `total_bytes` | `add_with_fee`, `remove`, `take` | owned by the blockchain |
| Block store (`storage/db.rs`) | keys `block:<hash>`, `height:<h>`, `tip` | `save_block`, `save_tip`, loads | written inside `add_block`, read by `open_for_network` |
| Difficulty (`blockchain/consensus.rs`) | none | `adjust_difficulty`, `validate_timestamp` | used by the blockchain |
| P2P node (`network/node.rs`, `peer.rs`, `protocol.rs`) | peer tasks, relay channel | `handle_peer`, synchronisation, relay | blockchain, peer store, limiters |
| Peer store, discovery (`network/peers.rs`, `discovery.rs`) | buckets, inbound, outbound, anchors | add, mark, candidates, anchors | node tasks |
| Noise transport (`network/noise.rs`) | cipher state, counters | handshake, `send_raw`, `recv_raw` | peer connections |
| Rate limiting (`security/rate_limit.rs`) | windows, insertion order | `check`, `ban` | peer tasks |
| Access tokens, vault (`security/`) | revocation list, files | issue, verify, revoke | command line |
| RPC (`rpc/`, `bin/soak_miner.rs` as its client) | limiter per address | template, submit, reads | blockchain, shared with the node |
| Wallet (`wallet/wallet.rs`) | keys | `send` | UTXO set |
| Command line (`main.rs`) | none | one process per command | vault, tokens, chain, node |
| Mobile library (`mobile/native`) | one search | `arkos_mine` | stop flag of another thread |

Hard behaviours, each with what makes the component correct (the complete list,
at source lines, is `hazards` in `PROJECT.json`):

* *Fork choice under any order of arrival*: the tip has the most work among the
  known blocks, and eventually among all valid ones.
* *Pruning against reorganisation*: no step reorganises out a block that is final
  under the tip it replaces, and no stored block has lost an ancestor it needs.
* *Money*: no two transactions spend one output, a coinbase is not spent before it
  matures, and less circulates than the cap although `total_minted` counts recycled
  fees twice, as long as no transaction lists an input twice (section 4).
* *Caches*: UTXO set, minted total, work table, mempool byte count equal what
  they cache, after every reorganisation.
* *Crashes*: every put of `add_block` may be the last one; the store must open
  again and contain what the node had accepted.
* *Network*: lost announcements, unknown parents, limits and broken connections
  during synchronisation: connected nodes agree in the end, traffic ends, and
  what a node accepts spreads.
* *Connections*: tasks that share the peer store between lock sections keep
  count of the connections there are and restore the ones that were lost; frames
  and counters of a transport stay in step however reads and writes interleave.
* *Files*: vault and revocation list are read, changed and written back by
  processes that nothing keeps apart, with a write that empties the file first.
* *Numbers*: compact targets, clamps and medians at their edges; sums that wrap.

## 2. Modules

| Module | What it is |
|---|---|
| `Ledger` | constant-level operators: UTXO set, validity of a transaction, of a coinbase, of a block body |
| `Chain` | state machine of a `Blockchain` in memory: `AddBlock`, `SubmitTransaction`; extends `Ledger` |
| `ChainProofs` | theorems about fork choice, pruning and finality in `Chain`, and what they mean for the templates of `Mining` |
| `SumLemmas` | lemmas: induction over numbers and finite sets, sums of functions, lists |
| `LedgerProofs` | theorems about the ledger and the mempool of `Chain`, and that `Chain` implements `Supply` |
| `Supply` | abstract specification: what the ledger promises about money |
| `SupplyProofs` | theorem about `Supply` |
| `ChainStore` | `Chain` with its RocksDB store: one put per step, put errors, crashes, restart; extends `Chain` |
| `StoreProofs` | theorems about `ChainStore` |
| `Mining` | the local miner, RPC templates and submissions beside peers; extends `Chain` |
| `Difficulty` | compact bits, target, work and retarget of one growing chain |
| `Merkle`, `Scripts` | `merkle_root` over symbolic hashes; `evaluate_script` against the meaning of a script |
| `NodeSync` | several nodes: greeting, headers-first synchronisation, announcement, relay, limits, broken connections, blocks from the RPC |
| `NetworkProofs` | theorems about `NodeSync`, `PeerManager` and `NoiseTransport` |
| `PeerManager` | `PeerStore` and the tasks of `Node::run` that share it, with restarts |
| `NoiseTransport` | one connection: handshake, key exchange, frames, counters |
| `RateLimiter` | one sliding-window limiter with eviction and bans |
| `RpcServer` | the RPC handler and the rounds of miners that use it |
| `Lists` | `Vec::retain` and `Iterator::filter`, for `NodeSync`, `PeerManager` and `RateLimiter` |
| `Vault`, `AccessTokens` | the files of `security/` and the commands that rewrite them, concurrently and with crashes |
| `WalletSend` | coin selection, change and the commands that mine and pay |
| `SecurityProofs` | theorems about `AccessTokens`, `Vault`, `RateLimiter` and `WalletSend` |
| `NonceSearch` | the mobile nonce search and its stop flag |
| `MinerProofs` | theorems about `RpcServer` and `NonceSearch` |
| `MCFork`, `MCLedger`, `MCStore`, `MCMining`, `MCSync` | instances of `Chain`, `ChainStore`, `Mining`, `NodeSync` |
| `MCRules` | instances of `Supply`, `Difficulty`, `Merkle`, `Scripts` |
| `MCSecurity` | instances of `RateLimiter`, `Vault`, `AccessTokens`, `WalletSend` |
| `MCLinks` | instances of `PeerManager`, `NoiseTransport`, `RpcServer`, `NonceSearch` |

The last three put several components into one model. Those components share no
variable, so a behaviour chooses in its first state (`part`) the one that runs, and
the others rest where they start; each property says of which part it speaks.
`MCSync` chooses in the same way between the network of its configuration, with no
connection or with all of them, and a ring.

`Chain` is the centre: `ChainStore` and `Mining` extend it, and it is shown to
implement `Supply`. `NodeSync` takes from it that a node holds a tree of valid
blocks and follows the most work; `Difficulty` justifies its constants `next_bits`
and `work`, `Merkle` that a block commits to its transactions, `Scripts` what
`Ledger` takes a script to mean. `NodeSync` and `RpcServer` use the limiter as a
count per minute; `RateLimiter` has its windows.

**How hashes are treated.** A block hash commits to the header, the header to
the transactions and the parent; a transaction id commits to the transaction.
The content of a block or transaction is therefore a constant function (`block`,
`tx`) of its identifier, and so are its ancestors (`ancestry`), the work of its
branch (`branch_work`) and the UTXO set its branch leaves (`replay`). What a node
*knows* is state. Any block a peer or miner may offer is an element of `Hash`, the
invalid ones included.

**Chain and the code.** `AddBlock` is the whole of `add_block`: `Accepts` collects
its early returns (known block, unknown parent, `Block::validate`,
`validate_block_against_parent`, work overflow), then fork choice,
`activate_chain` with `rebuild_active_state` (state replayed, confirmed
transactions leave the mempool) and `prune_stale_orphans`. A rejected block
changes nothing and has no action. `ParentUtxo` and `ParentMinted` keep the
code's distinction between the cached state (parent is the tip) and a replay.
`blocks` is the set of active blocks; the code's vector is that set in order of
height. `Block::validate` is split: the coinbase rule is modelled, while proof
of work, merkle root and size limits are one Boolean field of a block.
`next_bits` is a constant function of the parent, as in the code, where it is
computed from the parent's chain alone. Clock values are chosen freely from
`Clock`.

**Ledger and the code.** An output has a value, an owner and a lock time; a
transaction has the set of keys that signed it and the network they signed
for. `evaluate_script` keeps what the three script forms decide. Sums are
unbounded integers: the code's checked additions reject what overflows, and the
values of the instances are far below 2^64.

**ChainStore and the code.** `BeginAdd`, `StoreBlock`, `FinishAdd` are the three
parts of `add_block` between its puts; `Put` is one `db.put`; `PutFails` is its
error path. `OpenFresh`/`Created` and `OpenStored`/`ReloadBlock`/`ReloadFails`/
`Opened` are the two paths of `open_for_network`. A put that returned survives
the death of the process (RocksDB's write-ahead log); a power failure of the
machine is not modelled. `settled` is a history variable: the tip when
`add_block` last returned `Ok` to a running node.

**Mining and the code.** `MineBlock` is `mine_block_and_relay`: building and adding
under one hold of the lock. `get_block_template` and `submit_block` are two calls
between which anything may happen. `take` sorts by fee rate with the code's cross
products. Finding a nonce is external; a solved template is the block
`hash_of` gives. In the instance a block is named by its path from the genesis,
so every block the miners can build exists.

**Difficulty and the code.** All bytes, widths and intervals are constants, so that
every branch of `bits_to_target`, `block_work`, the clamp, the renormalisation and
the cap on the exponent occurs with small numbers. A behaviour is a chain that
grows by timestamps the consensus accepts; both medians are taken as in
`next_bits_for_blocks`. The genesis exponents lie below the cap, at it (mainnet)
and above it (testnet, regtest).

**NodeSync and the code.** For a link `<<n, m>>`, `task` is n's `handle_peer` task for
m, `chan` what n has sent to m in order, `relay` its broadcast receiver (the
oldest announcement is lost when it lags), `batch` the headers it works through,
one hold of the chain lock each. Every `Recv...` action is one arm of the match in
`handle_peer` with its bail-outs. `Greet` and `Subscribe` are separate since
`Version` is sent before `handle_peer` subscribes to the relay. `SubmitBlock` is
`submit_block` of the RPC, which shares the chain and not the relay. `AddBlock` walks
the branch of the parent and prunes in the same step (`Retained`), so `add_block` may answer
`Ok` for a side block that is gone when the handler announces it. Peers here
have the version and user agent of this program; a message past the messages limiter ends
the connection, which `Break` may do at any moment. Transactions
travel by the same messages and are left out.

**PeerManager and the code.** An action is what one task does between two
acquisitions of the lock on the store: start-up dials, anchors, the feeler, the
maintenance task (which decides how many connections are missing, drops the lock
and dials), the accept loop, the end of a connection. The network may fail and
the process restart. `tasks` and `redialled` are history: the live connections of each
address, and the addresses start-up dialled while connected to them. Dials end: the code sets no timeout on a handshake, so the
model assumes the other side does not hold one open for ever.

**NoiseTransport and the code.** A frame is two writes and two reads. Each cipher
keeps its own counter, and a body opens only with the key and the counter it was
sealed with; after the handshake reader and writer of a side are separate tasks. The
messages a side is given are one of `Loads`, chosen at the start, and the connection may
close at any moment.

**RateLimiter and the code.** `Check` and `Ban` are the methods, one step each (they
hold `&mut self`); `allowed`, `refused`, `banned_at`, `evicted` and `ban_entries` are
history: what `check` answered, who was banned when, who lost a window to another peer,
and how often `ban` entered a peer without evicting one.

**RpcServer and the code.** `Handled` is `rpc_handler` in the order of its returns: the
limiter counts first, then the token, then the parameters by their field names,
then the method. A miner repeats the round of `soak_miner`, writing names as it does
(camel case) or as the server does. The chain is its height and a count of the
reorganisations (`branch`), which may raise or lower the height. `submit_block` compares the
height and the rebuilt template; `add_block` may refuse the block after that
(`SubmitRefused`). The contents of templates are in `Mining`. Nothing is assumed to happen: the
module has no fairness.

**Vault, AccessTokens and the code.** A command is a process; reading a file,
emptying it (`fs::write` truncates) and filling it are separate steps, and a process
may die between them. Ciphers and signatures are external: a whole file opens with
the passphrase, a token names its signer. `made` is history: the pairs of master key and
default wallet that Init commands generated.

**WalletSend and the code.** `send` selects coins in any order, as the hash map of the
UTXO set lists them; sums wrap at `WORD` where the code adds unchecked, and the
checks of `submit_transaction` decide. Send mines a block at once.

**Merkle and Scripts.** Algorithms: `merkle_root` for all pairs of lists, and
`evaluate_script` for all small scripts and inputs. A hash is the value hashed;
a signature is a key and whether it verifies.

**NonceSearch and the code.** `Hash` and `NotFound` are the iterations of the loop
of `arkos_mine`; `Call` and `NewTemplate` are the caller as the library documents it;
`SetFlag` is the other thread. A look at the flag and the hash after it are one
step, which is why `StopsSoon` allows one hash more than the model needs.

## 3. Runs

| Run | Checks | Instance |
|---|---|---|
| `fork` | `ForkInv` (with `MostWork`), `ActivationNeverFails`, `Finality`, `Converges` | 23 blocks: four branches from three fork points, one with a difficulty rise so that fewer blocks win; one block per broken header rule; finality depth 3, longest branch 6, work limit reached |
| `ledger` | `TypeOK`, `SpentOnce`, `CoinbaseMatures`, `ConfirmedNotPending`, `MempoolAccounting`, `ImplementsSupply` | 22 blocks, 7 payments that compete for outputs, one of which lists an input twice, mempool of 4 bytes, cap two units above the trunk's minting |
| `store` | `NoDanglingKeys`, `KnownIsStored`, `RestartKeepsChain` | trunk of 4 and a side branch of 2, crash and put error at every write, also while loading; the last one for behaviours on the trunk alone whose loads are not interrupted |
| `mining` | `BuiltIsAdded`, `AcceptedIsTip` | three payments, one of which spends the output of another, two peer blocks, height up to 4, subsidy cut by the cap |
| `rules` | `SupplyCapped` | 3 blocks, cap 4, minted up to 6 |
| | `IntervalSound`, `BitsSound`, `RetargetBounded` | radix 16, 6 bytes, retarget every 4 blocks, chains of 10 (two retargets), genesis targets below, at and above the cap on the exponent, timestamps near, behind and far ahead of the median; the bound on hardening for retargets that do not pass the cap |
| | `RootIsUnique` | all pairs of lists of up to 6 transactions, with repeats |
| | `MeansWhatItSays` | 3 keys, up to 2 nested locks, repeated keys |
| `security` | `LimitExact`, `EvictionExact` | 3 peers of which one may be banned, 2 places, limit 2 in a window of 2, time to 3, 3 events for each peer; the bound on events for peers that were never evicted |
| | `VaultKeepsKeys` | 2 commands, one may die, 6 secrets, loss and backup; as long as none overlapped or died |
| | `FirstKeysSurvive` | the same, whatever overlapped or died |
| | `NoneComesBack` | 2 Revokes, one may die, 3 tokens, 3 days; as long as none overlapped or died |
| | `FundedSendSucceeds`, `SendMovesAmount` | 2 wallets, height to 5, amounts 0, dust, usual, and two whose sum with the fee wraps, one of them to 0 |
| `links` | `PeersExact`, `OutboundRestored` | 3 listening addresses in 2 buckets of 2, an ephemeral one, 2 disconnects, an outage, a restart |
| | `SidesAgree`, `MessagesArrive` | a connection that may break, messages that fit a frame both ways, or some of several frames and one too large (then `SidesAgree` alone) |
| | `OneWinner` | 2 miners that use the server's names, with the token in different headers, one that uses the names of `soak_miner`, a client without the token, limit 2, height to 2, a reorganisation |
| | `NothingSkipped`, `StopsSoon`, `FindsOne` | every set of winning nonces up to 7, chunks of 5 against an interval of 2, 2 interruptions |
| `sync` | `PairCatchesUp` | 2 nodes on forks of heights 3 and 1, 2 broken connections, limit of 2 blocks a minute, a block from the RPC, finality depth 2, so that a side branch is pruned |
| | `TrafficEnds` | the same, and a ring of 3 connected nodes of which one mines |
| `sync_spread` | `RequestsAnswerable`, `AcceptedSpreads` | line of 3 connected nodes, two blocks mined at one end and one at the other, finality depth 1, so that a side block is pruned before or after it is announced |
| `restart_sidechain` | `OpenNeverFails` is violated | the store with the side branch, crash while up |
| `sync_fork` | `AnnouncedIsFetched` is violated | 2 nodes on forks of equal height, shorter than the finality depth 3 |
| `hard_cap` | `HardCap` is violated | the blocks of `ledger` |

*Bounds.* The finality depth (200 in the code), the maturity (100), the span of
the median (11) and the halving interval are small so that a branch can pass
them; the branches are longer than each of them by at least two blocks, so both
sides of every boundary occur. `WORK_MAX` stands for `u128::MAX` and is reached.
The block universe is the bound on everything else: each chain run exhausts all orders
of arrival of its blocks. In the other modules limits are set so that they are
reached (a bucket, a limiter, a relay queue, a locator, a frame), and each kind of
failure happens at least once and, where two can interact (two broken connections,
two writers), twice. Clocks and counters of events are bounded by constants named
`MAX_...` or `Max...`.

*Deadlock* is checked for the store, which can always crash and open again. The
other runs switch it off: a node may have seen every block there is, a network may
come to rest, a user may give no further command, and a bound may be reached.

*Fairness.* Five modules state it, always weak except where said.

* `Converges`: every block is offered again and again while it can be accepted. The
  code gives no guarantee by itself, since a node drops a block whose parent it
  lacks; it is the assumption that peers announce and serve their blocks
  repeatedly. The property shows that fork choice and pruning do nothing to
  prevent convergence then.
* `NodeSync`: tasks are scheduled and handle what arrives (`select!` polls both of its
  branches), broken connections are dialled again (the maintenance task), time
  passes. Nothing makes a node mine or a connection break.
* `PeerManager`: start-up, the maintenance loop and the feeler timer go on. Strong
  fairness says that the maintenance task, which picks candidates at random, picks
  each address sooner or later.
* `NoiseTransport`: both sides go on reading and writing while the connection lasts.
* `NonceSearch`: the loop goes on; nobody has to interrupt it.

Every property of a passing run has a mutant: a definition `Name_Change` beside
the one it replaces, with a plausible bug, under which TLC finds the property
violated.

## 4. Where the code and its documents disagree

The violation runs keep the disagreements that concern the chain itself
(`findings` in `PROJECT.json` quotes both sides):

1. `restart_sidechain`. `save_block` writes `height:<h>` for side-chain blocks too, and
   the chain is loaded through that index. After a side-chain block below the tip
   the load meets a block whose parent it has not loaded and fails
   (`GO-LIVE-CHECKLIST.md:170`, "node restart preserves chain state").
2. `sync_fork`. A block with an unknown parent is dropped and only a greeting asks for
   headers, so forks of equal height never join through announcements
   (`README.md:307`, "Request and receive missing blocks from connected peers").
3. `hard_cap`. `validate_tx_with_utxo` adds the value of an input as often as the
   transaction lists it, `apply_transaction` spends it once. A block with such a transaction
   leaves more unspent than there was, whatever was minted: `total_minted` does not move
   (`README.md:428`, "Consensus-enforced hard cap at 31,415,926 ARKOS").

Others were found with the same modules. Each is a property that is defined
in its module and fails with the constants named here; none has a run of
its own.

| Property | Fails with | What happens, and what is said |
|---|---|---|
| `ChainStore!NoWorkLost` | `CRASHES` containing `"opening"` | loading is done with `add_block`, which saves the tip after every block; a process that dies meanwhile restarts on a shorter chain (`chain.rs:434`, same line of the checklist) |
| `ChainStore!OpenNeverFails` | `REGTEST_MAGIC` other than `NETWORK_MAGIC` | loading validates signatures for regtest; the network's magic is set afterwards (`chain.rs:72`; `tx.rs:185`) |
| `Mining!MinedIsAdded` | payments `p1` and `rival` | the mempool admits two spends of one output and keeps the loser; `add_block` refuses the block mined (`mempool.rs:96`; `node.rs:251`) |
| `Mining!MinedIsAdded` | `MAX_BLOCK_BYTES` 3 | 500 transactions are taken whatever their size (`chain.rs:250`; `node.rs:251`) |
| `Mining!FeesCredited` | any payment | templates claim the subsidy without the fees (`rpc/methods.rs:141`; `README.md:417`, "Block fees credited to miner coinbase") |
| `Difficulty!FourTimesAtMost` | the chains of `rules` | `exp.min(0x1d)` lowers the exponent and keeps the mantissa that was divided for the greater one. On mainnet, which starts at the cap, a slow interval can make the target many times harder; testnet and regtest start above the cap, and their first retarget does so in any case (`consensus.rs:70`; `consensus.rs:44`, "Clamp to 4× increase / 4× decrease") |
| `Scripts!DistinctKeys` | any scripts | two signatures of one key count as two (`chain.rs:552`; `tx.rs:16`) |
| `RateLimiter!MostPerWindow(Peer)` | 3 peers, 2 places | an evicted peer starts a fresh window (`rate_limit.rs:40`; `rate_limit.rs:23`) |
| `PeerManager!DialledOnce` | a `--peer` that discovery also returns, another address between | `dedup` removes neighbours only (`main.rs:508`; `main.rs:507`, "Deduplicate preserving order") |
| `PeerManager!ForgottenOnDisconnect` | a disconnect | the address stays known (`node.rs:319`; `README.md:412`) |
| `PeerManager!KnownBounded` | an inbound peer beyond the cap | only the Addr handler looks at the cap (`node.rs:219`; `README.md:401`) |
| `PeerManager!AnchorsKept` | an outage | each end of a connection rewrites the anchors file, the last one empties it (`node.rs:320`; `peers.rs:11`) |
| `NodeSync!CatchesUp` | mining while nodes connect | a block accepted between greeting and subscription is neither in the height nor announced (`node.rs:369`; `README.md:158`) |
| `NodeSync!CatchesUp` | `MAX_HEADERS` below the gap | one Headers message is asked for (`node.rs:511`; `protocol.rs:36`) |
| `NodeSync!AcceptedSpreads` | a block in `Submitted` | `submitBlock` announces to nobody (`rpc/methods.rs:222`; `README.md:447`) |
| `NoiseTransport!LargeArrive` | a message of two frames | the reader parses each frame as a message (`noise.rs:287`; `noise.rs:28`, "Larger payloads are automatically split") |
| `RpcServer!WalletAddressAccepted` | a miner with `fields` in camel case, as in `links` | the mining methods read their parameters under the Rust names (`wallet_address`) and refuse those that the documented requests, `soak_miner` and the mobile client send (`rpc/methods.rs:38`; `GO-LIVE-CHECKLIST.md:151`, "Authenticated `getBlockTemplate` accepts `walletAddress`") |
| `Vault!SavedIsKept` | 2 processes, or a crash | updates without a lock are lost; `fs::write` empties the file first (`main.rs:372`, `vault.rs:117`; `README.md:106`) |
| `Vault!InitMakesOne` | 2 processes | two Inits that both found no vault each write one, the second over the first, whose address was shown to the user (`main.rs:195`, `main.rs:222`; `main.rs:196`, "Vault already exists") |
| `Vault!PhraseRestores` | the default wallet | its ML-DSA seed does not follow from its phrase (`main.rs:217`; `README.md:444`) |
| `Vault!LabelFindsWallet` | two wallets of one label | ShowPhrase takes the first (`main.rs:376`; `main.rs:476`) |
| `Vault!PublicKeySaved` | a crash during Init | `master.pub` is written after the vault and never again (`main.rs:231`; `README.md:74`) |
| `AccessTokens!RevokedIsInvalid` | 2 processes, or a crash | one of two revocations is lost; a list that does not parse revokes nothing (`main.rs:299`, `main.rs:354`; `README.md:269`) |
| `AccessTokens!NoWindow` | one Revoke | the list is empty while it is rewritten (`main.rs:354`; `main.rs:350`) |
| `AccessTokens!ValidIsListed` | two grants to one name | the earlier token stays valid and is no longer listed (`main.rs:281`; `README.md:652`) |
| `WalletSend!DemoSucceeds` | `COINBASE_MATURITY` 2 or more | the demo spends coinbases that are not mature (`main.rs:634`; `README.md:27`) |
| `WalletSend!ExampleAmountsSend` | an amount below the dust limit | the example of 100 arkes is dust (`chain.rs:622`; `README.md:208`) |
| `WalletSend!BuiltIsTaken` | change below the dust limit | the wallet builds it and validation refuses it (`wallet.rs:144`; `wallet.rs:111`) |

## 5. Proofs

TLAPS proves the following for every value of the constants, that is for every tree of
blocks, set of transactions, network, limit and interval that satisfies the named
assumptions of the modules.

| Theorem | States |
|---|---|
| `ChainProofs!ForkInvariant`, `ForkTypeCorrect`, `HeaviestTip` | `Spec => []ForkInv` and its parts |
| `ChainProofs!ActivationSucceeds` | `Spec => []ActivationNeverFails` |
| `ChainProofs!FinalityHolds` | `Spec => Finality`, a property of steps |
| `ChainProofs!AcceptedBlocksAreTips` | under `SameDifficulty` and `BuiltOnParent`: `MiningSpec => AcceptedIsTip` |
| `LedgerProofs!TypeCorrect`, `MempoolIsAccounted` | `Spec => []TypeOK`, `Spec => []MempoolAccounting` |
| `LedgerProofs!NoDoubleSpend`, `CoinbasesMature`, `ReplaysAreExact`, `NoConfirmedPending` | under `CoinbasesDistinct`: `SpentOnce`, `CoinbaseMatures`, `ReplayExact`, `ConfirmedNotPending` are invariants |
| `LedgerProofs!ChainImplementsSupply`, `ChainIsCapped` | under `CoinbasesDistinct`: `Spec => ImplementsSupply`, and no branch in `Unrepeated` circulates more than the cap |
| `SupplyProofs!SupplyIsCapped` | `Supply!Spec => []SupplyCapped` |
| `StoreProofs!DiskIsReadable`, `MemoryIsStored` | `StoreSpec => []NoDanglingKeys`, `StoreSpec => []KnownIsStored` |
| `NetworkProofs!RequestsAreAnswerable` | `NodeSync!Spec => []RequestsAnswerable` |
| `NetworkProofs!PeersAreExact` | `PeerSpec => []PeersExact` |
| `NetworkProofs!SidesStayInStep` | `ConnectionSpec => []SidesAgree` |
| `MinerProofs!OneWinnerHolds` | `RpcServer!Spec => []OneWinner` |
| `MinerProofs!NothingSkippedHolds`, `StopsSoonHolds` | `SearchSpec => []NothingSkipped`, `SearchSpec => []StopsSoon` |
| `SecurityProofs!NoTokenComesBack` | `TokenSpec => []NoneComesBack` |
| `SecurityProofs!VaultStartsWithItsKeys` | `Vault!Spec => []FirstKeysSurvive` |
| `SecurityProofs!VaultIsKept` | if no wallet is labelled "master-key": `Vault!Spec => []VaultKeepsKeys` |
| `SecurityProofs!OrderIsExact` | `LimiterSpec => []OrderListsTracked` |
| `SecurityProofs!EvictionHolds` | `LimiterSpec => []EvictionExact` |
| `SecurityProofs!LimitIsExact` | `LimiterSpec => []LimitExact` |
| `SecurityProofs!FundedSends`, `SendsMoveAmounts` | `WalletSpec => []FundedSendSucceeds`, `WalletSpec => SendMovesAmount` |

### The arguments

*Fork choice.* `MostWork` alone is not inductive: `chain_work` must be exact
(`WorkExact`), which needs the ancestors of a known block to stay as they were
(`BranchShape`, about constant branches, so it survives pruning).
`ActivationNeverFails` needs no known block to be accepted on a parent whose
chain is broken; `add_block` walks the parent's chain first, except when the parent
is the tip, whose chain is the active one and never pruned.
For `Finality`, suppose a new block takes over and leaves out a final block. Its
parent's chain is completely known, and `SideBranchesPruned` says that what is
known at or below the cutoff is active. So the new block itself lies at or
below the cutoff, its parent is active, and it is a sibling of an active block.
Siblings have the same difficulty because the difficulty is a function of the
parent (`BranchShape`), so it has the work of its sibling and no more than the tip
(`NoTakeoverBelow`): it cannot have won.

*Templates.* `submit_block` compares heights, not parents, so `AcceptedIsTip` needs that no
other block became the tip at the height of a template. `MiningInv` adds two parts to
`ForkInv`. `WorkByHeight`: along the known branches, down to their pruned ancestors, blocks of
one height have the same work and higher ones more. It is inductive under
`SameDifficulty`, since a new block stands on a parent with the work of every other block at
that height (`WorkOfNewBlock`). Hence the tip is only replaced by a
higher block, and `TemplateInv` follows: while the height of the chain is that of
the template, the tip is its parent. A block on the tip outweighs every known block
(`MostWork`), so it was not known before and becomes the tip (`AcceptedOnTip`).

*The caches and the mempool.* `PoolInv` is `ForkInv`, `TypeOK` (the cached UTXO set and the
minted total equal the replay of the tip), the finiteness of the pool and
`MempoolAccounting`. `activate_chain` replays the branch, so the caches are exact after a
reorganisation; the byte count is a sum over the pool, which adding or removing changes
by the size of a transaction (`SumAdds`, `SumRemoves`). `RemovePool` shows that the
saturating subtraction of `Mempool::remove` never saturates. A fee is a natural number
because the outputs were checked against the inputs, hence `mempool[t] \in Nat`.

*Spending.* `SpentOnce` speaks of the active chain, and a reorganisation makes another branch
active. The inductive form is `ReplayExact`: `SoundBranch(x)` for every known `x`, where
a sound branch spends every output once and after it was created, keeps the maturity
rule, and has a replay that holds exactly the outputs created and not spent, as they were
created, and the height of every coinbase. `SoundBranch` is about constants,
so the proof is one lemma, `SoundExtends`: a block that `ValidAgainstParent` admits on a
sound parent makes a sound branch. `add_block` validates every transaction against the
parent's state and once more in the order of the block. The first check keeps a
transaction from spending an output of its own block, the second from spending what
an earlier one spent (`BodySpendsOnce`). That no transaction of the body was on the branch
before (`BodyIsFresh`) follows since it would spend the same outputs again; a coinbase
spends nothing, and for it this is the hypothesis `CoinbasesDistinct`. `LedgerInv` adds
`ConfirmedNotPending`: a transaction that is valid on the active chain is not on
it (`ValidIsNew`).

*Money.* `ChainImplementsSupply` maps a known block to the pair of what is minted and what
circulates on its branch (`Balances`), for blocks in `Unrepeated`: the branches no transaction
of which lists an input twice. A branch leaves that set with its first such block and no
extension of it comes back (`UnrepeatedBelow`), so what the others hold is not affected. `BlockCirculates` adds up a body: every transaction
lowers what circulates by its fee, the coinbase raises it by its value. The
fees are those `ValidSubsidy` counted against the parent's state, which equal the ones in
order since no transaction spends an output of its block. That inputs are distinct is used
where their values are summed by position and removed from a set.
`SupplyIsCapped` is by induction on: circulating is at most minted and at most the cap, on
every known branch. A block that claims fees puts back what its transactions
burned; the rest of its claim is at most cap minus minted, hence at most cap minus
circulating. `ChainIsCapped` carries that over by the refinement.

*The store.* `NoDanglingKeys` is about the disk after any prefix of the puts that are still
to come, since a crash or an error may follow each of them. `StoreInv` therefore says of
every outstanding put that what it refers to is on disk, or is put before it
(`PutsSound`): a height entry follows its block, the tip follows the whole height index up to
its height. `SaveChainSound` shows this of the puts of `activate_chain`, for which
`BranchInOrder` enumerates a branch by height. `MemorySound` and `CallSound` say that blocks get into
memory only after their puts. The theorems hold for every choice of the phases in which
puts may fail and the process may die, loading included.

*Synchronisation.* `SyncInv` types each channel by what its ends know: a node announces, lists and
sends only blocks it knows, and a node asks a peer only for blocks the peer announced
or listed; announcements that wait in a relay queue and the headers of a batch under way
are covered as well. A node does forget blocks, so "knows" is `Had`: known, or a side block
at the finality depth or deeper. `Had` only grows (`Grows`): pruning removes only such blocks
(`RetainedIs`), a tip is only replaced by a higher one (work is equal here), so a deep block
stays deep, and on the path of a new tip it is known. So what was sound stays sound (`StillSound`). That every header of an
answer is known rests on `ChainsKnown`: the path of the tip is known.

*Peers.* For the buckets: every way in is `add_known`, which adds only below the limit, and
an Addr message is a sequence of them (a table of the recursive function, as for folds).
For the count: a dial by the maintenance task must not meet a connection that is already
there. The candidates it holds were not outbound when it read them, and nothing
else dials once start-up is over, so the invariant (`OneDialler`) says that what it holds is not
outbound, and that it holds nothing during start-up. During start-up an address may be dialled
twice; then it is in `redialled`. Only a live task ends, so the count falls with its task.

*Transport.* `InStep` says that a side never meets a frame it cannot open, so `TransportInv` counts. `Stream`:
the halves of frames that a side began to write are those the other has read, those on the
wire and those still to go out, in order, and each is what it was when it was sealed. `Placed`: the
counters of both layers are what the place in the script and the number of frames say. So the
next half to arrive has the counter its reader expects. `Left` says of the messages still to send
that they are the rest, as long as each message so far took one frame; `Parsed`, that what
was read is a prefix of what was to be sent, also when the next message does not fit, since a
side that reads a part of a message closes at once.

*RPC.* `OneWinner` needs one strengthening: every block reported as accepted that was built and
answered on the present branch is at or below the tip (`WinsBelowTip`). A submission is taken
only when the height of its template is the height of the tip, so it wins the height above,
which nobody has won on this branch. After a reorganisation the claim starts anew.

*Nonces.* `NothingSkipped` needs `ChunksMeet`: between calls an uninterrupted search stands
exactly at the end of its last chunk, and in a call it never passes the end. `StopsSoon`
needs `StopInv`: in a call, the hashes since the flag was set are at most the remainder of
the last nonce by the check interval, so the flag is seen before they exceed it
(`RemainderCounts`).

*Tokens.* `Revoke` reads the list, empties the file and writes the list back, so the file alone
says little while it runs. `AccessInv` adds what the command holds: the list it has
loaded includes all that is in the file and all that was reported (`ListKept`). A rejected
token is `Dead`: signed by another key, expired, or on the list as it will be
when the write under way is done; none of the three is undone. All this is claimed as long
as no two commands have overlapped (the history variable `revokes_raced`) and none has
died, which leaves at most one that is not idle (`OneRevoke`).

*Vault.* `FirstInv` says of the file, of the backup and of the entries in the memory of every
command that what is whole begins with a pair in `made`. Every whole vault is written from such
memory and no command changes the first two entries, so neither the order of the commands nor a
death between two steps matters.
`KeptInv` adds, as long as no two commands have overlapped (`raced`) and none has died, that
the file has every wallet reported (`KeysKept`), that what a command is about to write has all
the file had (`CommandKept`), and that the file is torn only while one writes.

*Limiter.* The order is a list without repetitions of exactly the peers that have a
window (`OrderInv`). Hence `retain` without the first peer is the rest of the list
(`KeptWithoutFirst`), a full table has a first peer to evict, and the length of the order is the
number of windows (`DistinctLength`): one less, then one more. `ban` enters a peer and evicts
nobody, which `EvictionExact` allows for (no code calls `ban`).
The limit is about events long ago, the window about what is left of them. `LimitInv` keeps an
account for each peer (`Book`): its window is a number of entries of the last ban and then the
latest of its allowed events, one for one (`Backed`), and any allowed event that is
missing is out of the window or older than a ban that still fills it (`Complete`, unless the
peer was evicted). Times rise, so `retain` drops a first part of the entries (`RetainRest`). A
window with room therefore shows that the event `max_per_window` before the new one is
`window_duration` old: allowed events stay `Spaced`, and spaced events never
number more than the limit in any window (`SpacedCounts`). A full window has `max_per_window` entries within
it, of allowed events or of a ban (`FullWindow`), which is what a refusal claims.

*Sends.* `WalletInv` says that the coins are worth what was mined (`REWARD` for each block): a
confirmed Send spends coins and creates the amount, the change and a coinbase with the
fee. So no balance exceeds a word, and for an amount that a wallet can pay the sum with the
fee does not wrap. Then some selection exists (`EnoughCoins`, by induction over the subsets of the
wallet's coins), and every selection passes the checks of `submit_transaction` one by one
(`FundedIsTaken`). For an amount whose sum does wrap, `SendMovesAmount` rests on the node's own
check that outputs do not exceed inputs (`TakenPays`). Balances are followed coin by coin: new coins
have new ids (`CoinEnters`), spent ones belong to the sender (`OwnedLess`).

### Assumptions

The constants have their types; the genesis has height 0, one coinbase, and mints no more
than the cap (`PremineAssumption`); work, dust limit, minimal fee and halving interval are
positive, as the constants of the code are; the fee of Send is at least the minimal one and all
the money there can be fits a word (`WalletAssumption`; `MAX_SUPPLY_ARKES` fits a `u64`); a coinbase has one input, which names no
transaction of a block (`NullAssumption`, from `is_coinbase`). `AcyclicAssumption` and
`TreeAssumption` say that the recursive functions along parents satisfy their defining
equations. That holds because no block is its own ancestor (its hash is computed from its
parent's). TLC evaluates all of them on the instances. No assumption is made about arrival
order, timestamps or validity. `CoinbasesDistinct` and `SameDifficulty` are not
assumptions of the modules but hypotheses of the theorems that need them: the code does
not enforce them (section 6). `BuiltOnParent` says of `hash_of`, which is external, that the block built
from a template has the parent and the height of the template.

### How the proofs work around the provers

The induction theorems of the library take a predicate as a parameter, which the installed
provers cannot instantiate. `SumLemmas` states induction over sets instead (a property is the set
of the numbers, or finite sets, that have it) and derives it from the well-foundedness
of `<`. Folds and recursive functions are unfolded by showing first that a table of
their values exists (`SumsExist`, `FoldsExist`). `tlapm` has no definition of `SelectSeq`, so `Lists`
defines `Kept` as a recursive function.

### Only model-checked

* Liveness: `Converges`, `PairCatchesUp`, `TrafficEnds`, `AcceptedSpreads`, `OutboundRestored`, `MessagesArrive`,
  `FindsOne`. Fairness and ENABLED are out of reach.
* `RestartKeepsChain`, which compares the whole load of a store with the chain before.
* `BuiltIsAdded`: its instance has no rivals, and it fails for others (section 4).
* `IntervalSound`, `BitsSound`, `RetargetBounded`: powers and division of symbolic bytes.
  `RootIsUnique` rests on a `RECURSIVE` operator, `MeansWhatItSays` on nested scripts: induction over data.

## 6. What the properties rest on

* `ImplementsSupply` and `ChainIsCapped` are about the branches on which no transaction lists an
  input twice. The code does not compare the inputs of a transaction with each other, and
  on the other branches the supply is not bounded (`hard_cap`). `SpentOnce` is about two
  transactions and does not see an output listed twice by one.
* `CoinbasesDistinct`: no two coinbases of a branch have the same id.
  `Transaction::coinbase` puts the height of the block into it, but `add_block` does not
  check that; a coinbase repeated in a later block would bring spent outputs back. It is a
  hypothesis of the theorems about spending and an ASSUME of `MCLedger`.
* `CoinbaseMatures` speaks of coinbases that claim the height of their block, for the
  same reason.
* `Finality` is a property of steps. A heavier but shorter branch may lower the tip, and
  a block that was final under the old tip may not be so under the new one.
* `RetargetBounded` bounds a hardening only where the exponent does not pass its cap
  (section 4 for the rest).
* `BuiltIsAdded` holds while no pending payment is spent by a rival or loses its
  inputs to a reorganisation; the instance of `mining` has neither.
* `SameDifficulty`: blocks of one height have one difficulty, as on branches that part
  after the last retarget. Otherwise a branch of equal height and more work can take over
  between template and submission, and the block is then accepted beside the tip. It is a
  hypothesis of `AcceptedBlocksAreTips` and an ASSUME of `MCMining`.
* `Finality` and `MostWork` are proved for a node without put errors: an error
  after activation skips that call's pruning, which the next call does.
* `PairCatchesUp` holds when nobody mines while nodes connect, they start at different
  heights, one Headers message reaches the tip, and no branch is so long that the lower node
  has pruned where they part: a fork of the finality depth or deeper is not joined, as
  intended. `AcceptedSpreads` holds from when all are connected and agree, for blocks that are mined or
  received, with a relay channel that holds all blocks mined, so that no receiver lags. The
  disagreements of section 4 drop one of these conditions each.
* `RequestsAnswerable` and `AcceptedSpreads` leave out side blocks at the finality depth or
  deeper: `add_block` answers `Ok`, prunes the block in the same call, and the handler
  announces it all the same (`node.rs:593-603`). Peers that lack it ask in vain.
* `OneWinner` is about submissions built and answered on one branch. When another branch takes
  over, a height may be won again, and a template of the old branch that still has the right
  height and transactions is taken beside the new tip.
* No liveness of the RPC is claimed. Whether a miner ever succeeds depends on its field names, on
  the mempool (two spends of one output in a template are refused each time) and on
  peers that must leave it time; the code assures none of these.
* `FirstKeysSurvive` says that the first two keys of a vault were made together, not that they
  are the first ever made: of two racing Inits the later one replaces both (section 4).
* `VaultKeepsKeys` and `NoneComesBack` speak of behaviours in which so far no two
  commands have overlapped and none has died: the code has neither a lock nor an atomic rename. `VaultKeepsKeys` is
  proved for labels other than "master-key", which the code does not reserve.
* `RestartKeepsChain` holds on one branch, for loads that are not
  interrupted, on the network whose magic loading assumes.
* `OutboundExact` leaves out the addresses that start-up dialled while connected to them
  (`redialled`): a `--peer` that is also an anchor is dialled twice and counted once.
* `LimitExact` bounds the events of peers that were never evicted; an evicted one starts a
  fresh window (section 4).
* `InStep` lets a side close over a message that is too large or takes several frames
  (section 4), and over nothing else but the end of the connection.

## 7. Not modelled, and the plan

* *Cryptography* (hashes, signatures, ciphers, key derivation, the HD derivation of
  `HdWallet`, which no command uses): pure computation on bytes; its results are
  symbols here.
* *Device registry*: `mining/device.rs` is not part of the build.
* *The Dart application*: its mining service does not compile against its own RPC
  client (required arguments of `submitBlock` are missing); the rest is user interface.
* *HTTP, CORS, argument parsing, log output, soak and release scripts*: no state of
  the system.
* *Transactions between nodes*, `Ping`, `GetBlocks` (`NodeSync`) and the submission of one
  block to several nodes (`soak_miner`).

To come, in this order: a proof of `RestartKeepsChain` on a trunk; transactions in `NodeSync`, with the mempool of `Chain`.
