------------------------------- MODULE Chain --------------------------------
(***************************************************************************)
(* The Blockchain object of blockchain/chain.rs, held in memory (store =   *)
(* None): the tree of known blocks, the active chain and its UTXO set, the *)
(* mempool; add_block with fork choice, reorganisation and pruning, and    *)
(* submit_transaction.  Every operation runs under the node's chain lock,  *)
(* so one call is one step.                                                *)
(*                                                                         *)
(* A block hash commits to the header, the header to the transactions and  *)
(* to the parent.  The fields of a block, its ancestors, the UTXO set its  *)
(* branch produces and the difficulty its children must have are therefore *)
(* constant functions of the hash.  The height is a field outside the      *)
(* header: a block that lies about it is one more element of Hash.         *)
(***************************************************************************)
EXTENDS Ledger, FiniteSets

CONSTANTS
  Hash,                \* blocks a peer or miner may offer, and the genesis
  Genesis,             \* the genesis block
  block,               \* Hash -> block
  Bits,                \* compact difficulty values
  work,                \* Bits -> work one block of that difficulty stands for
  next_bits,           \* Hash -> difficulty required of a child of that block
  WORK_MAX,            \* largest accumulated work (u128::MAX)
  FINALITY_DEPTH,      \* depth at which side branches are pruned
  MEDIAN_SPAN,         \* blocks whose median time bounds the next timestamp
  MAX_FUTURE,          \* seconds a timestamp may be ahead of the clock
  Clock,               \* values the wall clock may show
  NETWORK_MAGIC,       \* the network the node serves
  MIN_FEE_ARKES,       \* fee a transaction needs to enter the mempool
  MAX_MEMPOOL_BYTES    \* capacity of the mempool

VARIABLES
  network_magic,   \* magic signatures must commit to
  all_blocks,      \* known blocks, on the active chain or beside it
  chain_work,      \* accumulated work of every known block
  tip,             \* the last block of the active chain
  blocks,          \* the active chain, as the set of its blocks
  utxo_set,        \* UTXO set of the active chain
  total_minted,    \* sum of the coinbase values of the active chain
  mempool,         \* pending transactions, each with the fee it was admitted for
  mempool_bytes    \* the mempool's own count of its size

active == <<tip, blocks, utxo_set, total_minted>>
pool == <<mempool, mempool_bytes>>
vars == <<network_magic, all_blocks, chain_work, active, pool>>

height(b) == block[b].height
prev(b) == block[b].prev_hash

IsBlock(b) ==
  /\ prev(b) \in Hash
  /\ height(b) \in Nat
  /\ block[b].bits \in Bits
  /\ block[b].timestamp \in Nat
  /\ block[b].transactions \in Seq(Txid)
  /\ block[b].well_formed \in BOOLEAN    \* proof of work, merkle root, size limits

ASSUME BlockAssumption == \A b \in Hash : IsBlock(b)

(* genesis_block_with_bits: one transaction, a coinbase. *)
ASSUME GenesisAssumption ==
  /\ Genesis \in Hash /\ height(Genesis) = 0
  /\ \E t \in Txid : block[Genesis].transactions = <<t>> /\ tx[t].is_coinbase

(* is_coinbase: the one input is the null outpoint, which no block creates. *)
ASSUME NullAssumption ==
  \A t \in Txid : tx[t].is_coinbase =>
    /\ Len(tx[t].inputs) = 1
    /\ \A b \in Hash : tx[t].inputs[1][1] \notin ToSet(block[b].transactions)

(* The fee limit is 1000 in the code: no transaction is admitted for nothing. *)
ASSUME MempoolAssumption == MIN_FEE_ARKES \in Nat \ {0} /\ MAX_MEMPOOL_BYTES \in Nat

ASSUME WorkAssumption ==
  /\ work \in [Bits -> Nat \ {0}]
  /\ \A b \in Hash : next_bits[b] \in Bits
  /\ WORK_MAX \in Nat

ASSUME DepthAssumption == FINALITY_DEPTH \in Nat

ASSUME ClockAssumption == Clock \subseteq Nat /\ MEDIAN_SPAN \in Nat \ {0} /\ MAX_FUTURE \in Nat

-----------------------------------------------------------------------------
(* chain_to_hash walks the parents down to height 0 and fails on a block that
   is not in all_blocks: the blocks it visits, and whether they are known.   *)
ancestry[b \in Hash] ==
  IF height(b) = 0 THEN {b} ELSE ancestry[prev(b)] \cup {b}

(* The work of a branch: what chain_work is meant to hold. *)
branch_work[b \in Hash] ==
  work[block[b].bits] + (IF height(b) = 0 THEN 0 ELSE branch_work[prev(b)])

ChainKnown(b, known) == ancestry[b] \subseteq known

(* What replaying a branch from the genesis leaves: the loops of
   parent_context and rebuild_active_state.                                *)
coinbase_value(b) ==
  IF block[b].transactions = <<>> THEN 0 ELSE OutputSum(tx[Head(block[b].transactions)].outputs)

(* The genesis coinbase claims block_reward(0), a fraction of the cap. *)
ASSUME PremineAssumption == coinbase_value(Genesis) <= MAX_SUPPLY_ARKES

replay[b \in Hash] ==
  ApplyAll(IF height(b) = 0 THEN EmptyUtxoSet ELSE replay[prev(b)], block[b].transactions)

minted_upto[b \in Hash] ==
  (IF height(b) = 0 THEN 0 ELSE minted_upto[prev(b)]) + coinbase_value(b)

(* No block is its own ancestor, since its hash is computed from its parent's:
   the four recursions above are well founded.                             *)
ASSUME AcyclicAssumption ==
  /\ ancestry = [b \in Hash |-> IF height(b) = 0 THEN {b} ELSE ancestry[prev(b)] \cup {b}]
  /\ branch_work = [b \in Hash |->
       work[block[b].bits] + (IF height(b) = 0 THEN 0 ELSE branch_work[prev(b)])]
  /\ replay = [b \in Hash |->
       ApplyAll(IF height(b) = 0 THEN EmptyUtxoSet ELSE replay[prev(b)], block[b].transactions)]
  /\ minted_upto = [b \in Hash |->
       (IF height(b) = 0 THEN 0 ELSE minted_upto[prev(b)]) + coinbase_value(b)]

(* parent_context: the cached state when the parent is the tip, a replay of
   the parent's branch otherwise.                                          *)
ParentUtxo(p) == IF p = tip THEN utxo_set ELSE replay[p]
ParentMinted(p) == IF p = tip THEN total_minted ELSE minted_upto[p]

(* Mutant: the parent itself is enough. *)
ParentKnown_NoWalk(p) == p \in all_blocks

ParentKnown(p) == p = tip \/ ChainKnown(p, all_blocks)

(* median_past_time_for_blocks: the middle of the sorted timestamps of the
   last MEDIAN_SPAN blocks, the upper one of two.                          *)
median_past_time(p) ==
  LET window == {a \in ancestry[p] : height(a) + MEDIAN_SPAN > height(p)}
      below(v) == Cardinality({a \in window : block[a].timestamp < v})
      upto(v)  == Cardinality({a \in window : block[a].timestamp <= v})
      middle   == Cardinality(window) \div 2
  IN CHOOSE v \in {block[a].timestamp : a \in window} : below(v) <= middle /\ middle < upto(v)

validate_timestamp(ts, median, now) == ts > median /\ ts <= now + MAX_FUTURE

(* Block::validate, the part that needs no chain state. *)
ValidBlock(b) ==
  /\ block[b].well_formed
  /\ block[b].transactions # <<>>
  /\ tx[Head(block[b].transactions)].is_coinbase

(* validate_block_against_parent. *)
ValidAgainstParent(b, now) ==
  LET p == prev(b)
      coinbase == Head(block[b].transactions)
      txs == Tail(block[b].transactions)
  IN /\ height(b) = height(p) + 1
     /\ ParentKnown(p)
     /\ block[b].bits = next_bits[p]
     /\ validate_timestamp(block[b].timestamp, median_past_time(p), now)
     /\ ValidSubsidy(ParentUtxo(p), ParentMinted(p), coinbase, txs, network_magic, height(b))
     /\ ValidInOrder(ParentUtxo(p), txs, network_magic, height(b))

candidate_work(b) == chain_work[prev(b)] + work[block[b].bits]

(* add_block gets as far as storing the block.  A known block, an unknown
   parent, an invalid block and an overflow of the work leave no trace.     *)
Accepts(b, now) ==
  /\ b \notin all_blocks
  /\ prev(b) \in all_blocks
  /\ ValidBlock(b)
  /\ ValidAgainstParent(b, now)
  /\ candidate_work(b) <= WORK_MAX

-----------------------------------------------------------------------------
TxsOf(chain) == UNION {ToSet(block[b].transactions) : b \in chain}

BytesOf(S) == SumFunction([t \in S |-> tx[t].size])

(* Mempool::remove of every transaction in S; the count saturates at zero. *)
RemoveFromMempool(S) ==
  LET gone == DOMAIN mempool \cap S
  IN /\ mempool' = Restrict(mempool, DOMAIN mempool \ gone)
     /\ mempool_bytes' = IF mempool_bytes >= BytesOf(gone)
                         THEN mempool_bytes - BytesOf(gone) ELSE 0

(* Mutants: the new block is applied to the UTXO set of the old tip; only its
   own transactions leave the mempool.                                     *)
activate_chain_Incremental(b) ==
  /\ tip' = b
  /\ blocks' = ancestry[b]
  /\ utxo_set' = ApplyAll(utxo_set, block[b].transactions)
  /\ total_minted' = minted_upto[b]
  /\ RemoveFromMempool(TxsOf(ancestry[b]))

activate_chain_PurgesTip(b) ==
  /\ tip' = b
  /\ blocks' = ancestry[b]
  /\ utxo_set' = replay[b]
  /\ total_minted' = minted_upto[b]
  /\ RemoveFromMempool(TxsOf({b}))

(* activate_chain and rebuild_active_state: the state of the new branch is
   recomputed from the genesis, its transactions leave the mempool.  Those
   of the branch given up do not return to it.                             *)
activate_chain(b) ==
  /\ tip' = b
  /\ blocks' = ancestry[b]
  /\ utxo_set' = replay[b]
  /\ total_minted' = minted_upto[b]
  /\ RemoveFromMempool(TxsOf(ancestry[b]))

(* Mutant: the cutoff is one block lower. *)
Retained_OneMore(known, t, chain) ==
  IF height(t) < FINALITY_DEPTH THEN known
  ELSE {x \in known : height(x) >= height(t) - FINALITY_DEPTH \/ x \in chain}

(* prune_stale_orphans: what it retains of the known blocks. *)
Retained(known, t, chain) ==
  IF height(t) < FINALITY_DEPTH THEN known
  ELSE {x \in known : height(x) > height(t) - FINALITY_DEPTH \/ x \in chain}

(* Mutants: the longest chain wins; a block off the tip never wins. *)
AddBlock_Choosing(b, now, wins) ==
  /\ Accepts(b, now)
  /\ IF wins THEN activate_chain(b) ELSE UNCHANGED <<active, pool>>
  /\ all_blocks' = Retained(all_blocks \cup {b}, tip', blocks')
  /\ chain_work' = [x \in all_blocks' |-> IF x = b THEN candidate_work(b) ELSE chain_work[x]]
  /\ UNCHANGED network_magic

AddBlock_Longest(b, now) == AddBlock_Choosing(b, now, height(b) > height(tip))

AddBlock_NoReorg(b, now) == AddBlock_Choosing(b, now, prev(b) = tip)

(* add_block: store the block, switch to it when it has strictly more work
   than the tip, prune.                                                    *)
AddBlock(b, now) ==
  /\ Accepts(b, now)
  /\ IF candidate_work(b) > chain_work[tip]
     THEN activate_chain(b)
     ELSE UNCHANGED <<active, pool>>
  /\ all_blocks' = Retained(all_blocks \cup {b}, tip', blocks')
  /\ chain_work' = [x \in all_blocks' |-> IF x = b THEN candidate_work(b) ELSE chain_work[x]]
  /\ UNCHANGED network_magic

(* Mutant: a transaction already in the mempool is counted again. *)
add_with_fee_Again(t, fee) ==
  /\ fee >= MIN_FEE_ARKES
  /\ mempool_bytes + tx[t].size <= MAX_MEMPOOL_BYTES
  /\ mempool' = Insert(mempool, t, fee)
  /\ mempool_bytes' = mempool_bytes + tx[t].size

(* Mempool::add_with_fee; adding a transaction twice changes nothing. *)
add_with_fee(t, fee) ==
  /\ fee >= MIN_FEE_ARKES
  /\ mempool_bytes + tx[t].size <= MAX_MEMPOOL_BYTES
  /\ t \notin DOMAIN mempool
  /\ mempool' = Insert(mempool, t, fee)
  /\ mempool_bytes' = mempool_bytes + tx[t].size

SubmitTransaction(t) ==
  /\ ValidTx(utxo_set, t, network_magic, height(tip))
  /\ add_with_fee(t, Fee(utxo_set, t))
  /\ UNCHANGED <<network_magic, all_blocks, chain_work, active>>

(* from_genesis_with_magic. *)
Init ==
  /\ network_magic = NETWORK_MAGIC
  /\ all_blocks = {Genesis}
  /\ chain_work = [b \in {Genesis} |-> work[block[Genesis].bits]]
  /\ tip = Genesis
  /\ blocks = {Genesis}
  /\ utxo_set = ApplyAll(EmptyUtxoSet, block[Genesis].transactions)
  /\ total_minted = coinbase_value(Genesis)
  /\ mempool = <<>>
  /\ mempool_bytes = 0

Next ==
  \/ \E b \in Hash, now \in Clock : AddBlock(b, now)
  \/ \E t \in Txid : SubmitTransaction(t)

Spec == Init /\ [][Next]_vars

(* Every block is offered again and again, at times its timestamp allows. *)
Fairness == \A b \in Hash : WF_vars(\E now \in Clock : AddBlock(b, now))

FairSpec == Spec /\ Fairness

-----------------------------------------------------------------------------
(* Types.  ForkTypeOK is the part the proofs need. *)

ForkTypeOK ==
  /\ all_blocks \subseteq Hash
  /\ chain_work \in [all_blocks -> Nat]
  /\ tip \in all_blocks
  /\ blocks \subseteq all_blocks

(* The known blocks, the active chain and the work table refer to each other,
   the caches hold what a replay of the active chain holds, and the mempool
   holds transactions with their fees.                                     *)
TypeOK ==
  /\ ForkTypeOK
  /\ network_magic = NETWORK_MAGIC
  /\ utxo_set = replay[tip]
  /\ total_minted = minted_upto[tip]
  /\ DOMAIN mempool \subseteq Txid
  /\ \A t \in DOMAIN mempool : mempool[t] \in Nat
  /\ mempool_bytes \in 0..MAX_MEMPOOL_BYTES

(* The branch of a known block is a chain: one block per height from the
   genesis up, each on the one below, each with the difficulty its parent
   demands.  It survives the pruning of the blocks themselves.             *)
BranchShape(x) ==
  /\ x \in ancestry[x]
  /\ \A h \in 0..height(x) : \E a \in ancestry[x] : height(a) = h
  /\ \A a \in ancestry[x] : a \in Hash /\ height(a) <= height(x)
  /\ \A a, c \in ancestry[x] : height(a) = height(c) => a = c
  /\ \A a \in ancestry[x] : height(a) # 0 =>
       /\ prev(a) \in ancestry[x]
       /\ height(a) = height(prev(a)) + 1
       /\ block[a].bits = next_bits[prev(a)]

(* chain_work stays exact although blocks are pruned and offered again. *)
WorkExact == \A x \in all_blocks : chain_work[x] = branch_work[x]

(* Nothing at or below the finality depth is known but the active chain. *)
SideBranchesPruned ==
  \A x \in all_blocks : height(x) + FINALITY_DEPTH <= height(tip) => x \in blocks

(* No known block has more work than the tip: fork choice never leaves the
   node on a lighter branch, whatever the order in which blocks arrive
   (add_block, "reorganizes to the branch with more accumulated work").    *)
MostWork == \A x \in all_blocks : branch_work[x] <= branch_work[tip]

(* The invariant the proofs are by induction on. *)
ForkInv ==
  /\ ForkTypeOK
  /\ blocks = ancestry[tip]
  /\ \A x \in all_blocks : BranchShape(x)
  /\ WorkExact
  /\ SideBranchesPruned
  /\ MostWork

(* A block that add_block stores can always be activated: chain_to_hash in
   activate_chain, which runs after the block was stored and whose error would
   leave it stored but not considered, never meets a pruned ancestor.       *)
ActivationNeverFails ==
  \A b \in Hash, now \in Clock : Accepts(b, now) => ChainKnown(b, all_blocks \cup {b})

(* No step reorganises out a block that is FINALITY_DEPTH or more below the tip
   at that moment: pruning removed every stored branch that leaves the chain
   below it, and a single new block there has the work of its active sibling.
   A heavier but shorter branch may lower the tip; blocks less deep under the
   new tip than FINALITY_DEPTH are then final no longer.                   *)
Final(b) == height(b) + FINALITY_DEPTH <= height(tip)

Finality == [][\A b \in blocks : Final(b) => b \in blocks']_vars

(* Where transactions sit on a chain: their block and their position in it. *)
PlacedIn(chain) == UNION {{<<b, k>> : k \in DOMAIN block[b].transactions} : b \in chain}
TxidAt(place) == block[place[1]].transactions[place[2]]
TxAt(place) == tx[TxidAt(place)]

(* Every output is spent at most once on a chain, by a transaction of a later
   block than the one that created it.                                     *)
SpentOnceOn(chain) ==
  \A p \in PlacedIn(chain) : \A o \in Spends(TxidAt(p)) :
    /\ \E c \in PlacedIn(chain) : o \in Creates(TxidAt(c)) /\ height(c[1]) < height(p[1])
    /\ \A q \in PlacedIn(chain) \ {p} : o \notin Spends(TxidAt(q))

(* A coinbase is spent no earlier than COINBASE_MATURITY blocks above the block
   that holds it, if it claims its real height.                            *)
MaturesOn(chain) ==
  \A p, c \in PlacedIn(chain) :
    /\ TxAt(c).is_coinbase
    /\ TxAt(c).coinbase_extra = height(c[1])
    /\ Spends(TxidAt(p)) \cap Creates(TxidAt(c)) # {}
    => height(p[1]) - height(c[1]) >= COINBASE_MATURITY

(* "UTXO model -- each output can only be spent once": on the active chain,
   across every reorganisation and for transactions that reached the chain
   through a block, not the mempool.  It is about two transactions: that one
   transaction lists an output twice is what HardCap is about.             *)
SpentOnce == SpentOnceOn(blocks)

(* The maturity rule on the active chain, for coinbases that claim their real
   height, as Transaction::coinbase builds them (is_immature_coinbase).     *)
CoinbaseMatures == MaturesOn(blocks)

CreatedOn(chain) == UNION {Creates(TxidAt(p)) : p \in PlacedIn(chain)}
SpentOn(chain) == UNION {Spends(TxidAt(p)) : p \in PlacedIn(chain)}

(* A UTXO set that holds outputs as they were created and heights as claimed. *)
Genuine(us) ==
  /\ \A o \in DOMAIN us.utxos : us.utxos[o] = tx[o[1]].outputs[o[2]]
  /\ \A t \in DOMAIN us.coinbase_heights : us.coinbase_heights[t] = tx[t].coinbase_extra

(* The coinbases come first in their blocks, and their heights are kept. *)
CoinbasesRecorded(chain, us) ==
  \A p \in PlacedIn(chain) : TxAt(p).is_coinbase =>
    p[2] = 1 /\ TxidAt(p) \in DOMAIN us.coinbase_heights

(* The rules hold on the branch of a block, and its replay leaves exactly the
   outputs that the branch creates and does not spend.                     *)
SoundBranch(x) ==
  /\ SpentOnceOn(ancestry[x])
  /\ MaturesOn(ancestry[x])
  /\ DOMAIN replay[x].utxos = CreatedOn(ancestry[x]) \ SpentOn(ancestry[x])
  /\ Genuine(replay[x])
  /\ CoinbasesRecorded(ancestry[x], replay[x])

(* The replay that parent_context and rebuild_active_state do is exact on every
   known branch, active or not.                                            *)
ReplayExact == \A x \in all_blocks : SoundBranch(x)

(* No two blocks of a branch carry the same coinbase.  Transaction::coinbase
   sees to it by the height it puts into coinbase_extra; add_block does not
   compare the two, so this is a hypothesis on the blocks offered.          *)
CoinbasesDistinct ==
  \A x \in Hash : \A a, c \in ancestry[x] :
    /\ height(a) # height(c)
    /\ block[a].transactions # <<>> /\ block[c].transactions # <<>>
    => Head(block[a].transactions) # Head(block[c].transactions)

(* No transaction is pending and confirmed at once: blocks that arrive, and
   reorganisations, take theirs out of the mempool, and none comes back in. *)
ConfirmedNotPending == DOMAIN mempool \cap TxsOf(blocks) = {}

(* The mempool's byte count is the size of what it holds, so the capacity
   check of add_with_fee neither drifts nor leaks.                          *)
MempoolAccounting == mempool_bytes = BytesOf(DOMAIN mempool)

(* README.md, "Consensus-enforced hard cap": no more than MAX_SUPPLY_ARKES is
   unspent on the active chain.  It fails: validate_tx_with_utxo adds the value
   of an input once for every time it is listed, apply_transaction spends it
   once, and the difference is new money.                                  *)
HardCap == Circulating(utxo_set) <= MAX_SUPPLY_ARKES

(* A transaction that lists an input twice, and the blocks whose branch confirms
   none such.                                                              *)
Repeats(t) == \E i, j \in DOMAIN tx[t].inputs : i # j /\ tx[t].inputs[i] = tx[t].inputs[j]

Unrepeated == {b \in Hash : \A t \in TxsOf(ancestry[b]) : ~ Repeats(t)}

(* What Supply calls the ledger: circulating and minted value per known block,
   up to the first block with a transaction that lists an input twice.     *)
Balances ==
  [b \in all_blocks \cap Unrepeated |->
    [circulating |-> Circulating(replay[b]), minted |-> minted_upto[b]]]

Money == INSTANCE Supply WITH
  Id <- Hash, Start <- Genesis, Cap <- MAX_SUPPLY_ARKES, Premine <- coinbase_value(Genesis),
  ledger <- Balances

(* Every step of the chain is a step of Supply: as long as no transaction of a
   branch lists an input twice, no block on it puts more value into circulation
   than the capped subsidy, so that the supply stays under the cap, whatever
   the other branches hold (validate_coinbase_subsidy_with_state).          *)
ImplementsSupply == Money!Spec

(* The branches that are valid on their own, computed without a node. *)
valid_branch[b \in Hash] ==
  \/ b = Genesis
  \/ LET p == prev(b)
         txs == Tail(block[b].transactions)
     IN /\ height(b) > 0
        /\ valid_branch[p]
        /\ ValidBlock(b)
        /\ height(b) = height(p) + 1
        /\ block[b].bits = next_bits[p]
        /\ \E now \in Clock : validate_timestamp(block[b].timestamp, median_past_time(p), now)
        /\ ValidSubsidy(replay[p], minted_upto[p], Head(block[b].transactions), txs,
                        NETWORK_MAGIC, height(b))
        /\ ValidInOrder(replay[p], txs, NETWORK_MAGIC, height(b))
        /\ branch_work[b] <= WORK_MAX

BestWork == Max({branch_work[b] : b \in {x \in Hash : valid_branch[x]}})

(* Whether a block is the end of a best branch; "@@" makes TLC tabulate it once. *)
best_tip == [b \in Hash |-> valid_branch[b] /\ branch_work[b] = BestWork] @@ <<>>

TooDeep(b) == \E x \in blocks : Final(x) /\ x \notin ancestry[b]

(* When blocks keep being offered, in whatever order, the node ends up on a
   branch of the most work among all valid ones and stays there, unless a
   final block of its chain is on none of them (the fork is too deep).      *)
Converges ==
  <>[](best_tip[tip] \/ \A b \in Hash : best_tip[b] => TooDeep(b))
=============================================================================
