------------------------------- MODULE Merkle -------------------------------
(***************************************************************************)
(* merkle_root of blockchain/block.rs over two lists of transactions that  *)
(* grow one transaction at a time.  hash256 is external and symbolic: a    *)
(* hash is the value that was hashed, tagged with its kind, so that equal  *)
(* hashes are hashes of equal values.                                      *)
(***************************************************************************)
EXTENDS Integers, Sequences

CONSTANTS
  Txid,     \* transaction ids
  MaxTxs    \* bound on the transactions of a list

VARIABLES left, right

vars == <<left, right>>

Leaf(t) == [kind |-> "txid", of |-> <<t>>]
Pair(a, b) == [kind |-> "pair", of |-> <<a, b>>]

(* Mutant: the last hash is repeated. *)
Padded_Repeats(hashes) ==
  IF Len(hashes) % 2 = 0 THEN hashes ELSE Append(hashes, hashes[Len(hashes)])

(* An odd level is filled up with a hash of its length. *)
Padded(hashes) ==
  IF Len(hashes) % 2 = 0 THEN hashes
  ELSE Append(hashes, [kind |-> "length", of |-> <<Len(hashes)>>])

Level(hashes) ==
  [i \in 1 .. Len(Padded(hashes)) \div 2 |-> Pair(Padded(hashes)[2 * i - 1], Padded(hashes)[2 * i])]

RECURSIVE Root(_)
Root(hashes) == IF Len(hashes) = 1 THEN hashes[1] ELSE Root(Level(hashes))

merkle_root(txs) ==
  IF txs = <<>> THEN [kind |-> "zero", of |-> <<>>]
  ELSE Root([i \in DOMAIN txs |-> Leaf(txs[i])])

-----------------------------------------------------------------------------
Init == left = <<>> /\ right = <<>>

Add(t) ==
  \/ Len(left) < MaxTxs /\ left' = Append(left, t) /\ UNCHANGED right
  \/ Len(right) < MaxTxs /\ right' = Append(right, t) /\ UNCHANGED left

Next == \E t \in Txid : Add(t)

Spec == Init /\ [][Next]_vars

-----------------------------------------------------------------------------
(* A root belongs to one list: blocks of different transactions, in another
   order, or of another length, never share a header's merkle root.         *)
RootIsUnique == merkle_root(left) = merkle_root(right) => left = right
=============================================================================
