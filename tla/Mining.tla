------------------------------- MODULE Mining -------------------------------
(***************************************************************************)
(* The two ways a node makes blocks from its mempool: the local miner      *)
(* (mine_block_and_relay in network/node.rs), which builds and adds under  *)
(* one hold of the chain lock, and the RPC (get_block_template and         *)
(* submit_block in rpc/methods.rs), between whose two calls blocks from    *)
(* peers, transactions and other miners come in.                           *)
(*                                                                         *)
(* Finding a nonce is external: a template that is solved is the block     *)
(* hash_of gives for its parent, transactions and timestamp.               *)
(***************************************************************************)
EXTENDS Chain

CONSTANTS
  hash_of(_, _, _),      \* the block with that parent, transactions and timestamp
  coinbase_txid(_, _, _),\* the coinbase that pays a miner a value at a height
  txid_rank,             \* Txid -> Nat, the order of transaction ids as strings
  TAKE_LIMIT,            \* transactions mine_block and templates take
  LocalMiner, RpcMiner,  \* the addresses they pay
  PeerBlock,             \* blocks peers may offer
  MAX_HEIGHT,            \* bound: nothing is mined above it
  None                   \* no template, no answer

ASSUME MiningAssumption ==
  /\ \A s, t \in Txid : txid_rank[s] = txid_rank[t] => s = t
  /\ TAKE_LIMIT \in Nat
  /\ PeerBlock \subseteq Hash

VARIABLES
  mined,      \* whether the last block of mine_block was added
  template,   \* the template the RPC client works on
  answer      \* what submit_block last answered

miningVars == <<vars, mined, template, answer>>

-----------------------------------------------------------------------------
(* Mempool::take: by fee rate, highest first, compared by cross products;
   equal rates by transaction id.                                          *)
HigherRate(s, t) ==
  LET lhs == mempool[s] * tx[t].size
      rhs == mempool[t] * tx[s].size
  IN lhs > rhs \/ (lhs = rhs /\ txid_rank[s] < txid_rank[t])

take(limit) ==
  LET entries == SetToSortSeq(DOMAIN mempool, HigherRate)
  IN SubSeq(entries, 1, Min({limit, Len(entries)}))

selected == take(TAKE_LIMIT)

selected_fees == FoldLeft(LAMBDA sum, t : sum + mempool[t], 0, selected)

next_block_timestamp(now) == Max({now, median_past_time(tip) + 1})

next_reward == capped_block_reward(height(tip) + 1, total_minted)

(* The local miner's block: the coinbase claims the subsidy given and the fees
   the mempool recorded when it admitted the transactions.                  *)
BuildBlock(reward, now) ==
  hash_of(tip, <<coinbase_txid(LocalMiner, reward + selected_fees, height(tip) + 1)>> \o selected,
          next_block_timestamp(now))

(* Mutant: the scheduled subsidy, whatever is left of the supply. *)
mine_block_Uncapped(now) == BuildBlock(block_reward(height(tip) + 1), now)

mine_block(now) == BuildBlock(next_reward, now)

(* What a template and its submission are built from: the coinbase claims the
   subsidy alone.                                                          *)
template_transactions ==
  <<coinbase_txid(RpcMiner, next_reward, height(tip) + 1)>> \o selected

-----------------------------------------------------------------------------
(* mine_block_and_relay: the block is built and added at once; an error of
   add_block is the caller's to log.                                       *)
MineBlock(now) ==
  /\ height(tip) < MAX_HEIGHT
  /\ IF Accepts(mine_block(now), now)
     THEN AddBlock(mine_block(now), now) /\ mined' = "added"
     ELSE UNCHANGED vars /\ mined' = "refused"
  /\ UNCHANGED <<template, answer>>

get_block_template(now) ==
  /\ height(tip) < MAX_HEIGHT
  /\ template' = [prev_hash |-> tip, height |-> height(tip),
                  transactions |-> template_transactions,
                  timestamp |-> next_block_timestamp(now)]
  /\ UNCHANGED <<vars, mined, answer>>

(* Mutant: the height of the template is not looked at. *)
submit_block_AnyHeight(now) ==
  /\ template # None
  /\ LET b == hash_of(template.prev_hash, template.transactions, template.timestamp)
     IN \/ /\ Tail(template.transactions) = selected /\ Accepts(b, now)
           /\ AddBlock(b, now)
           /\ answer' = [result |-> "accepted", block |-> b]
        \/ /\ ~ (Tail(template.transactions) = selected /\ Accepts(b, now))
           /\ UNCHANGED vars
           /\ answer' = [result |-> "refused", block |-> b]
  /\ UNCHANGED <<mined, template>>

(* submit_block of the solved template: refused when the height has changed
   or the transactions would be other ones now; otherwise what add_block says,
   which is Ok for a block it knows already.                               *)
submit_block(now) ==
  /\ template # None
  /\ LET b == hash_of(template.prev_hash, template.transactions, template.timestamp)
         current == /\ template.height = height(tip)
                    /\ template.transactions = template_transactions
     IN \/ /\ template.height # height(tip)
           /\ UNCHANGED vars
           /\ answer' = [result |-> "stale", block |-> b]
        \/ /\ template.height = height(tip) /\ ~ current
           /\ UNCHANGED vars
           /\ answer' = [result |-> "mismatch", block |-> b]
        \/ /\ current
           /\ IF Accepts(b, now) THEN AddBlock(b, now) ELSE UNCHANGED vars
           /\ answer' = [result |-> IF Accepts(b, now) \/ b \in all_blocks
                                   THEN "accepted" ELSE "refused", block |-> b]
  /\ UNCHANGED <<mined, template>>

PeerAddsBlock(b, now) == AddBlock(b, now) /\ UNCHANGED <<mined, template, answer>>

PeerSubmits(t) == SubmitTransaction(t) /\ UNCHANGED <<mined, template, answer>>

MiningInit == Init /\ mined = None /\ template = None /\ answer = None

MiningNext ==
  \/ \E now \in Clock : MineBlock(now) \/ get_block_template(now) \/ submit_block(now)
  \/ \E b \in PeerBlock, now \in Clock : PeerAddsBlock(b, now)
  \/ \E t \in Txid : PeerSubmits(t)

MiningSpec == MiningInit /\ [][MiningNext]_miningVars

-----------------------------------------------------------------------------
(* The local miner's block is always added: its coinbase claims exactly what
   validation grants, from the fees the mempool remembers, its transactions
   are valid one after the other and its timestamp is in range ("Mine one
   block locally and relay the inventory announcement to all peers").       *)
MinedIsAdded == mined # "refused"

(* A template is as good: when neither the height nor the mempool's choice has
   changed, add_block takes the solved template.                            *)
CurrentTemplateIsAdded == answer # None => answer.result # "refused"

(* What submit_block reports as accepted becomes the tip: a template that
   blocks from elsewhere have overtaken is refused, not added as a side block. *)
AcceptedIsTip ==
  [][answer' # answer /\ answer'.result = "accepted" => tip' = answer'.block]_miningVars

(* What AcceptedIsTip needs of the rivals of a template: blocks of one
   height have one difficulty, as they have on branches that part after the last
   retarget.                                                                *)
SameDifficulty ==
  \A a, c \in Hash : height(a) = height(c) => block[a].bits = block[c].bits

(* Block::new: the block built from a template names the parent and the height
   it was given.                                                            *)
BuiltOnParent ==
  \A p \in Hash : \A txs, ts :
    /\ hash_of(p, txs, ts) \in Hash
    /\ prev(hash_of(p, txs, ts)) = p
    /\ height(hash_of(p, txs, ts)) = height(p) + 1

(* What a miner builds from the chain and the mempool as they are is added: the
   coinbase claims what validation grants, from the fees the mempool remembers,
   for the local miner and for the solution of a template that is still
   current (mine_block, get_block_template, submit_block).                  *)
BuiltIsAdded == MinedIsAdded /\ CurrentTemplateIsAdded

(* A document says so and the code does not keep it: README.md, section 4. *)

(* Every block of the active chain credits its miner with the fees of its
   transactions ("fees credited to miner coinbase").                        *)
FeesCredited ==
  \A b \in blocks \ {Genesis} :
    LET p == prev(b)
    IN coinbase_value(b) = capped_block_reward(height(b), minted_upto[p])
                           + TotalFees(replay[p], Tail(block[b].transactions))
=============================================================================
