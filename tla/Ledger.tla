------------------------------- MODULE Ledger -------------------------------
(***************************************************************************)
(* The transaction rules of the node as pure operators: the UTXO set and   *)
(* how a transaction changes it (transaction/utxo.rs), what makes a        *)
(* transaction and the body of a block valid against a UTXO set            *)
(* (validate_tx_with_utxo, validate_coinbase_subsidy_with_state and the    *)
(* transaction loop of validate_block_against_parent in chain.rs).         *)
(*                                                                         *)
(* A transaction id is a hash of the whole transaction, so the fields of a *)
(* transaction are a constant function of its id.  Scripts and signatures  *)
(* are abstracted to who must sign and from which time on: an output has   *)
(* an owner and a lock time, a transaction a set of signers and the        *)
(* network magic its signatures commit to.                                 *)
(***************************************************************************)
EXTENDS Integers, Sequences, SequencesExt

CONSTANTS
  Txid,                   \* transaction ids
  tx,                     \* Txid -> transaction
  COINBASE_MATURITY,      \* confirmations before a coinbase can be spent
  DUST_LIMIT_ARKES,       \* smallest output a transaction may create
  MAX_SUPPLY_ARKES,       \* hard cap on the supply
  BLOCK_REWARD_INITIAL,   \* subsidy of the first era
  HALVING_INTERVAL,       \* blocks per era
  MAX_COINBASE_OUTPUTS,   \* outputs a coinbase may have
  SECONDS_PER_HEIGHT      \* the factor by which a height approximates a time

(* An outpoint is the transaction that created an output and the output's
   position in it (counted from 1, the code counts from 0).               *)
Outpoint == Txid \X (Nat \ {0})

(* An output has a value, the key hash its script pays to, and the time below
   which a TimeLocked script refuses it (0 for the other scripts).         *)
Output == [value : Nat, owner : STRING, lock_until : Nat]

IsTransaction(t) ==
  /\ t.inputs \in Seq(Outpoint)
  /\ t.outputs \in Seq(Output)
  /\ t.is_coinbase \in BOOLEAN
  /\ t.coinbase_extra \in Nat     \* the height a coinbase claims
  /\ t.signers \subseteq STRING   \* the keys whose signatures it carries
  /\ t.magic \in STRING           \* the network they were made for
  /\ t.size \in Nat \ {0}         \* serialized size

ASSUME TxAssumption == \A t \in Txid : IsTransaction(tx[t])

(* Dust is 546 in the code: no output of a transaction is worth nothing. *)
ASSUME LedgerConstants ==
  /\ {COINBASE_MATURITY, MAX_SUPPLY_ARKES, BLOCK_REWARD_INITIAL,
      MAX_COINBASE_OUTPUTS, SECONDS_PER_HEIGHT} \subseteq Nat
  /\ {DUST_LIMIT_ARKES, HALVING_INTERVAL} \subseteq Nat \ {0}

(* The sum of the values of a sequence of outputs. *)
OutputSum(outputs) == SumFunction([i \in DOMAIN outputs |-> outputs[i].value])

-----------------------------------------------------------------------------
(* The UTXO set: the unspent outputs and, for every coinbase applied, the
   height it claims.                                                       *)

(* HashMap::insert. *)
Insert(map, key, value) ==
  [k \in DOMAIN map \cup {key} |-> IF k = key THEN value ELSE map[k]]

EmptyUtxoSet == [utxos |-> <<>>, coinbase_heights |-> <<>>]

(* The outputs a transaction spends (a coinbase none) and creates. *)
Spends(t) == IF tx[t].is_coinbase THEN {} ELSE ToSet(tx[t].inputs)
Creates(t) == {t} \X DOMAIN tx[t].outputs

(* apply_transaction: drop the outputs spent, then add the outputs created; a
   coinbase also records the height it claims.                             *)
apply_transaction(us, t) ==
  [utxos |-> [o \in (DOMAIN us.utxos \ Spends(t)) \cup Creates(t) |->
                IF o \in Creates(t) THEN tx[t].outputs[o[2]] ELSE us.utxos[o]],
   coinbase_heights |-> IF tx[t].is_coinbase
                        THEN Insert(us.coinbase_heights, t, tx[t].coinbase_extra)
                        ELSE us.coinbase_heights]

ApplyAll(us, txs) == FoldLeft(apply_transaction, us, txs)

(* Mutant: one confirmation too few is enough. *)
is_immature_coinbase_OffByOne(us, t, current_height) ==
  /\ t \in DOMAIN us.coinbase_heights
  /\ current_height - us.coinbase_heights[t] < COINBASE_MATURITY - 1

(* is_immature_coinbase; confirmations are a saturating subtraction. *)
is_immature_coinbase(us, t, current_height) ==
  /\ t \in DOMAIN us.coinbase_heights
  /\ IF current_height >= us.coinbase_heights[t]
     THEN current_height - us.coinbase_heights[t] < COINBASE_MATURITY
     ELSE 0 < COINBASE_MATURITY

(* balance of everybody: what the UTXO set holds. *)
Circulating(us) == SumFunction([o \in DOMAIN us.utxos |-> us.utxos[o].value])

-----------------------------------------------------------------------------
(* evaluate_script: the owner's key signed for this network, and a time lock
   has expired at the time the height stands for.                          *)
evaluate_script(output, t, magic, block_time) ==
  /\ block_time >= output.lock_until
  /\ output.owner \in tx[t].signers
  /\ tx[t].magic = magic

SpendsUnspent(us, t) == \A i \in DOMAIN tx[t].inputs : tx[t].inputs[i] \in DOMAIN us.utxos

InputSum(us, t) == OutputSum([i \in DOMAIN tx[t].inputs |-> us.utxos[tx[t].inputs[i]]])

(* validate_tx_with_utxo as a predicate; the fee it returns is Fee.  The
   inputs are not compared with each other.                                *)
ValidTx(us, t, magic, current_height) ==
  /\ \A i \in DOMAIN tx[t].inputs :
       ~ is_immature_coinbase(us, tx[t].inputs[i][1], current_height)
  /\ SpendsUnspent(us, t)
  /\ \A i \in DOMAIN tx[t].inputs :
       evaluate_script(us.utxos[tx[t].inputs[i]], t, magic,
                       current_height * SECONDS_PER_HEIGHT)
  /\ \A i \in DOMAIN tx[t].outputs : tx[t].outputs[i].value >= DUST_LIMIT_ARKES
  /\ InputSum(us, t) >= OutputSum(tx[t].outputs)

Fee(us, t) == InputSum(us, t) - OutputSum(tx[t].outputs)

-----------------------------------------------------------------------------
(* BLOCK_REWARD_INITIAL shifted right. *)
subsidy[halvings \in 0..63] ==
  IF halvings = 0 THEN BLOCK_REWARD_INITIAL ELSE subsidy[halvings - 1] \div 2

(* block_reward: halved every HALVING_INTERVAL blocks, zero after 64. *)
block_reward(h) ==
  LET halvings == h \div HALVING_INTERVAL
  IN IF halvings >= 64 THEN 0 ELSE subsidy[halvings]

(* remaining_supply: a saturating subtraction. *)
remaining_supply(minted) ==
  IF minted >= MAX_SUPPLY_ARKES THEN 0 ELSE MAX_SUPPLY_ARKES - minted

(* Mutant: the schedule alone, without the cap. *)
capped_block_reward_Uncapped(h, minted) == block_reward(h)

capped_block_reward(h, minted) ==
  IF block_reward(h) < remaining_supply(minted) THEN block_reward(h)
  ELSE remaining_supply(minted)

TotalFees(us, txs) == SumFunction([k \in DOMAIN txs |-> Fee(us, txs[k])])

(* validate_coinbase_subsidy_with_state: every transaction is valid against
   the UTXO set of the parent, and the coinbase claims at most the capped
   subsidy and those fees.                                                 *)
ValidSubsidy(us, minted, coinbase, txs, magic, h) ==
  /\ Len(tx[coinbase].outputs) <= MAX_COINBASE_OUTPUTS
  /\ \A k \in DOMAIN txs : ValidTx(us, txs[k], magic, h)
  /\ OutputSum(tx[coinbase].outputs) <= capped_block_reward(h, minted) + TotalFees(us, txs)

(* Mutant: every transaction is only checked against the parent's state. *)
ValidInOrder_Skipped(us, txs, magic, h) == TRUE

(* The loop at the end of validate_block_against_parent: each transaction is
   valid against the UTXO set the ones before it leave.                    *)
ValidInOrder(us, txs, magic, h) ==
  \A k \in DOMAIN txs : ValidTx(ApplyAll(us, SubSeq(txs, 1, k - 1)), txs[k], magic, h)

=============================================================================
