----------------------------- MODULE WalletSend -----------------------------
(***************************************************************************)
(* Wallet::send (wallet/wallet.rs) and the commands Mine, Balance, Send    *)
(* and Demo of main.rs, on a chain that one process at a time has open:    *)
(* coin selection, change, the checks of submit_transaction, and the block *)
(* that Send mines at once to confirm its transaction.                     *)
(*                                                                         *)
(* The wallet selects from the UTXO set as its hash map lists it, so in    *)
(* any order.                                                              *)
(***************************************************************************)
EXTENDS Integers, FiniteSets, Functions

CONSTANTS
  Wallets,
  Amounts,             \* amounts the user asks to send
  WORD,                \* 2^64: sums in the wallet wrap around
  FEE,                 \* what Send offers
  MIN_FEE_ARKES,
  DUST_LIMIT_ARKES,
  COINBASE_MATURITY,
  REWARD,              \* subsidy; its schedule is in Ledger and Supply
  MaxHeight            \* bound on the chain

(* Send offers the minimal fee, and the money there is fits a word, as
   MAX_SUPPLY_ARKES does.                                                   *)
ASSUME WalletAssumption ==
  /\ Amounts \cup {FEE, MIN_FEE_ARKES, COINBASE_MATURITY, REWARD, MaxHeight} \subseteq Nat
  /\ {WORD, DUST_LIMIT_ARKES} \subseteq Nat \ {0}
  /\ FEE >= MIN_FEE_ARKES
  /\ REWARD * MaxHeight < WORD

VARIABLES
  height,
  coins,     \* unspent outputs: id, value, owner, and the height of a coinbase or 0
  next,      \* id of the next output
  last       \* the last Send: what was asked, the balances before, the answer

walletVars == <<height, coins, next, last>>

Total(S) == SumFunctionOnSet([c \in S |-> c.value], S)

(* utxos_for, balance_of *)
utxos_for(w) == {c \in coins : c.owner = w}
balance_of(w) == Total(utxos_for(w))

Coin(id, value, owner, mined) == [id |-> id, value |-> value, owner |-> owner, mined |-> mined]

WalletInit == height = 0 /\ coins = {} /\ next = 1 /\ last = [result |-> "none"]

-----------------------------------------------------------------------------
needed(amount) == (amount + FEE) % WORD

(* Mutant: exactly enough is not enough. *)
Selections_More(w, amount) ==
  {S \in SUBSET utxos_for(w) :
     /\ Total(S) > needed(amount)
     /\ \/ S = utxos_for(w) /\ S = {}
        \/ \E c \in S : S = {c} \/ Total(S \ {c}) <= needed(amount)}

(* Coins are taken until there is enough, the first one in any case: some coin
   came last and was needed.  A wallet without coins has enough for 0.       *)
Selections(w, amount) ==
  {S \in SUBSET utxos_for(w) :
     /\ Total(S) >= needed(amount)
     /\ \/ S = utxos_for(w) /\ S = {}
        \/ \E c \in S : S = {c} \/ Total(S \ {c}) < needed(amount)}

Change(S, amount) == Total(S) - needed(amount)

(* The values of the outputs; change of 0 makes none. *)
OutputValues(S, amount) == {amount} \cup ({Change(S, amount)} \ {0})

IsImmature(c) == c.mined > 0 /\ height - c.mined < COINBASE_MATURITY

EnoughFee(fee) == fee >= MIN_FEE_ARKES

(* submit_transaction: validate_tx_with_utxo, then the mempool's minimum fee.
   Sums are checked there: one that does not fit is refused.                *)
Verdict(S, amount) ==
  LET paid == amount + Change(S, amount)
  IN CASE \E c \in S : IsImmature(c) -> "immature"
       [] \E v \in OutputValues(S, amount) : v < DUST_LIMIT_ARKES -> "dust"
       [] paid >= WORD \/ Total(S) < paid -> "exceeds inputs"
       [] ~EnoughFee(Total(S) - paid) -> "fee"
       [] OTHER -> "sent"

(* mine_block and add_block with the transaction, if any: fees and subsidy go
   to the miner.                                                            *)
Confirm(miner, spent, created, fees) ==
  /\ height' = height + 1
  /\ coins' = (coins \ spent) \cup created \cup {Coin(next, REWARD + fees, miner, height + 1)}
  /\ next' = next + 3

Mine(w) ==
  /\ height < MaxHeight
  /\ Confirm(w, {}, {}, 0)
  /\ UNCHANGED last

Asked(from, to, amount, result) ==
  [from |-> from, to |-> to, amount |-> amount, result |-> result,
   before |-> [w \in Wallets |-> balance_of(w)],
   mature |-> \A c \in utxos_for(from) : ~IsImmature(c),
   clean |-> \A S \in Selections(from, amount) : Change(S, amount) \notin 1 .. DUST_LIMIT_ARKES - 1]

Refused(from, to, amount, why) ==
  /\ last' = Asked(from, to, amount, why)
  /\ UNCHANGED <<height, coins, next>>

InsufficientFunds(from, to, amount) ==
  /\ Selections(from, amount) = {}
  /\ Refused(from, to, amount, "insufficient funds")

(* Mutant: the change goes to the recipient. *)
Send_ChangeLost(from, to, amount, S) ==
  LET change == Change(S, amount)
      created == {Coin(next + 1, amount, to, 0)} \cup
                 IF change > 0 THEN {Coin(next + 2, change, to, 0)} ELSE {}
  IN IF Verdict(S, amount) = "sent"
     THEN /\ height < MaxHeight
          /\ Confirm(from, S, created, Total(S) - amount - change)
          /\ last' = Asked(from, to, amount, "sent")
     ELSE Refused(from, to, amount, Verdict(S, amount))

(* Send and steps 4 and 5 of Demo: the transaction is built, submitted, and
   confirmed by a block of the sender's.                                    *)
Send(from, to, amount, S) ==
  LET change == Change(S, amount)
      created == {Coin(next + 1, amount, to, 0)} \cup
                 IF change > 0 THEN {Coin(next + 2, change, from, 0)} ELSE {}
  IN IF Verdict(S, amount) = "sent"
     THEN /\ height < MaxHeight
          /\ Confirm(from, S, created, Total(S) - amount - change)
          /\ last' = Asked(from, to, amount, "sent")
     ELSE Refused(from, to, amount, Verdict(S, amount))

WalletNext ==
  \/ \E w \in Wallets : Mine(w)
  \/ \E from, to \in Wallets, amount \in Amounts :
        \/ InsufficientFunds(from, to, amount)
        \/ \E S \in Selections(from, amount) : Send(from, to, amount, S)

WalletSpec == WalletInit /\ [][WalletNext]_walletVars

-----------------------------------------------------------------------------
(* A Send that is reported as confirmed moved the amount, cost the sender
   nothing else (the fee comes back with the block) and touched no other
   wallet, whichever coins were taken.                                      *)
SendMovesAmount ==
  [][ last' # last /\ last'.result = "sent" =>
        \A w \in Wallets :
          balance_of(w)' = last'.before[w] + (IF w = last'.from THEN REWARD - last'.amount ELSE 0)
                                           + (IF w = last'.to THEN last'.amount ELSE 0) ]_walletVars

(* A wallet with mature coins only can send what it has, if neither the amount
   nor any change it may be left with is dust.                              *)
FundedSendSucceeds ==
  last.result # "none" /\ last.result # "sent" =>
    ~( /\ last.mature /\ last.clean /\ last.amount >= DUST_LIMIT_ARKES
       /\ last.before[last.from] >= last.amount + FEE )

(* What documents of the repository say and the code does not keep; README.md,
   section 4, gives the constants with which each property fails.           *)

(* The demo's Send succeeds ("See everything working end-to-end"): after two
   blocks the wallet has the money.                                         *)
DemoSucceeds ==
  last.result # "none" /\ last.before[last.from] >= last.amount + FEE
    /\ last.amount >= DUST_LIMIT_ARKES => last.result # "immature"

(* Every amount of the README's table can be sent from a wallet that has it. *)
ExampleAmountsSend ==
  last.result # "none" /\ last.mature /\ last.clean /\ last.before[last.from] >= last.amount + FEE =>
    last.result = "sent"

(* What the wallet builds from mature coins for an amount that is not dust is a
   transaction the node takes.                                              *)
BuiltIsTaken ==
  last.result # "none" /\ last.mature /\ last.amount >= DUST_LIMIT_ARKES =>
    last.result \in {"sent", "insufficient funds"}
=============================================================================
