------------------------------- MODULE MCFork -------------------------------
(***************************************************************************)
(* Chain over a tree of blocks that carry nothing but a coinbase: four     *)
(* branches, one of which becomes harder than the others and so overtakes  *)
(* them with fewer blocks, and blocks that break one header rule each.     *)
(***************************************************************************)
EXTENDS Chain

Row(p, h, b, ts) ==
  [prev_hash |-> p, height |-> h, bits |-> b, timestamp |-> ts,
   transactions |-> <<"cb">>, well_formed |-> TRUE]

MCBlock == [
  G  |-> Row("G",  0, "lo", 1),
  A1 |-> Row("G",  1, "lo", 2), A2 |-> Row("A1", 2, "lo", 5), A3 |-> Row("A2", 3, "lo", 4),
  A4 |-> Row("A3", 4, "lo", 6), A5 |-> Row("A4", 5, "lo", 7), A6 |-> Row("A5", 6, "lo", 8),
  B1 |-> Row("G",  1, "lo", 3), B2 |-> Row("B1", 2, "lo", 4), B3 |-> Row("B2", 3, "hi", 5),
  B4 |-> Row("B3", 4, "hi", 9),
  C2 |-> Row("A1", 2, "lo", 3), C3 |-> Row("C2", 3, "lo", 5), C4 |-> Row("C3", 4, "lo", 6),
  C5 |-> Row("C4", 5, "lo", 7), C6 |-> Row("C5", 6, "lo", 7),
  D3 |-> Row("A2", 3, "lo", 5), D4 |-> Row("D3", 4, "lo", 6),
  E3 |-> Row("B2", 3, "hi", 6),
  BadBits   |-> Row("A1", 2, "hi", 3),
  BadHeight |-> Row("A1", 4, "lo", 3),
  BadTime   |-> Row("A1", 2, "lo", 1),
  BadSeal   |-> [Row("A2", 3, "lo", 6) EXCEPT !.well_formed = FALSE]]

MCHash == DOMAIN MCBlock

(* Branch B reaches its retarget after B2. *)
MCNextBits == [b \in MCHash |-> IF b \in {"B2", "B3", "B4"} THEN "hi" ELSE "lo"]

MCWork == [lo |-> 1, hi |-> 3]

(* One coinbase that claims nothing, and the transaction of the null outpoint,
   which is in no block.                                                    *)
MCTx == [t \in {"cb", "null"} |->
  [inputs |-> << <<"null", 1>> >>, is_coinbase |-> TRUE, coinbase_extra |-> 0,
   outputs |-> << [value |-> 0, owner |-> "miner", lock_until |-> 0] >>,
   signers |-> {}, magic |-> "net", size |-> 1]]
=============================================================================
