------------------------------ MODULE MCLedger ------------------------------
(***************************************************************************)
(* Chain over transactions that compete for the same outputs: the trunk    *)
(* G-M1-M2 mints up to two units short of the cap; branch A confirms Pay   *)
(* and then Chained, which spends its output; branch B confirms Alt, which *)
(* spends the same coinbase as Pay, and later opens its time lock.  The    *)
(* branch R3-R4 confirms Repeat, which lists the coinbase of Alice twice.  *)
(* The other blocks break one rule of the ledger each.                     *)
(***************************************************************************)
EXTENDS Chain

Out(v, who) == [value |-> v, owner |-> who, lock_until |-> 0]

Spend(ins, outs, who, sz) ==
  [inputs |-> ins, outputs |-> outs, is_coinbase |-> FALSE, coinbase_extra |-> 0,
   signers |-> {who}, magic |-> "net", size |-> sz]

Coinbase(h, v, who) ==
  [inputs |-> << <<"null", 1>> >>, outputs |-> <<Out(v, who)>>, is_coinbase |-> TRUE,
   coinbase_extra |-> h, signers |-> {}, magic |-> "net", size |-> 1]

MCTx == [
  null |-> Coinbase(0, 0, "burn"),     \* the null outpoint's transaction; in no block
  cbG  |-> Coinbase(0, 8, "burn"), cb1  |-> Coinbase(1, 8, "alice"), cb2 |-> Coinbase(2, 4, "bob"),
  cb3  |-> Coinbase(3, 2, "bob"),  cb3f |-> Coinbase(3, 3, "bob"),   cb3x |-> Coinbase(3, 4, "bob"),
  cb4  |-> Coinbase(4, 0, "bob"),  cb4f |-> Coinbase(4, 1, "bob"),   cb4a |-> Coinbase(4, 2, "bob"),
  cb3d |-> Coinbase(3, 1, "alice"), cb5  |-> Coinbase(5, 1, "bob"),
  cb5z |-> Coinbase(5, 0, "bob"),
  pay     |-> Spend(<< <<"cb1", 1>> >>, <<Out(5, "alice"), Out(2, "bob")>>, "alice", 2),
  alt     |-> Spend(<< <<"cb1", 1>> >>, <<[Out(6, "alice") EXCEPT !.lock_until = 5]>>, "alice", 1),
  chained |-> Spend(<< <<"pay", 2>> >>, <<Out(1, "alice")>>, "bob", 1),
  repeat  |-> Spend(<< <<"cb1", 1>>, <<"cb1", 1>> >>, <<Out(16, "alice")>>, "alice", 1),
  unlock  |-> Spend(<< <<"alt", 1>> >>, <<Out(5, "bob")>>, "alice", 1),
  forged  |-> Spend(<< <<"cb1", 1>> >>, <<Out(7, "bob")>>, "bob", 1),
  freeTx  |-> Spend(<< <<"cb2", 1>> >>, <<Out(4, "bob")>>, "bob", 1)]

MCTxid == DOMAIN MCTx

Row(p, h, txs) ==
  [prev_hash |-> p, height |-> h, bits |-> "lo", timestamp |-> h + 1, transactions |-> txs,
   well_formed |-> TRUE]

MCBlock == [
  G  |-> Row("G", 0, <<"cbG">>), M1 |-> Row("G", 1, <<"cb1">>), M2 |-> Row("M1", 2, <<"cb2">>),
  A3 |-> Row("M2", 3, <<"cb3f", "pay">>), A4 |-> Row("A3", 4, <<"cb4f", "chained">>),
  A5 |-> Row("A4", 5, <<"cb5z", "freeTx">>),
  B3 |-> Row("M2", 3, <<"cb3">>), B4 |-> Row("B3", 4, <<"cb4a", "alt">>),
  B5 |-> Row("B4", 5, <<"cb5", "unlock">>),
  C4 |-> Row("B3", 4, <<"cb4", "freeTx">>), C5 |-> Row("C4", 5, <<"cb5", "pay">>),
  D3 |-> Row("M2", 3, <<"cb3d">>), D4 |-> Row("D3", 4, <<"cb4f", "pay">>),
  R3 |-> Row("M2", 3, <<"cb3", "repeat">>), R4 |-> Row("R3", 4, <<"cb4">>),
  Early    |-> Row("M1", 2, <<"cb2", "pay">>),           \* coinbase not mature
  Twice    |-> Row("M2", 3, <<"cb3", "pay", "alt">>),    \* one output, two spenders
  InBlock  |-> Row("M2", 3, <<"cb3", "pay", "chained">>),\* spends an output of its own block
  Again    |-> Row("A3", 4, <<"cb4", "alt">>),           \* spent by an ancestor
  Greedy   |-> Row("M2", 3, <<"cb3x", "pay">>),          \* claims one unit too many
  Forged   |-> Row("B3", 4, <<"cb4", "forged">>),        \* not signed by the owner
  Headless |-> Row("M2", 3, <<"pay">>)]

MCHash == DOMAIN MCBlock

MCNextBits == [b \in MCHash |-> "lo"]

MCWork == [lo |-> 1]

(* The hypothesis of the theorems holds of these blocks. *)
ASSUME CoinbasesDistinct
=============================================================================
