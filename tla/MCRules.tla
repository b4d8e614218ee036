------------------------------ MODULE MCRules ------------------------------
(***************************************************************************)
(* The rules every node has to agree on: the supply, the difficulty, the   *)
(* merkle root and the locking scripts.  They share no variable, so a      *)
(* behaviour runs one of them and leaves the others where they start.      *)
(*                                                                         *)
(* The next-state relation of Supply is made executable: the new block's   *)
(* balance and the blocks kept are enumerated, Extend then filters them.   *)
(***************************************************************************)
EXTENDS Supply, Functions, TLC

CONSTANT MintedBound   \* largest minted value enumerated, above the cap

MCBalance == [circulating : 0..MintedBound, minted : 0..MintedBound]

SupplyNext ==
  \E p \in DOMAIN ledger, b \in Id \ DOMAIN ledger, balance \in MCBalance,
     kept \in SUBSET DOMAIN ledger :
    /\ ledger' = (b :> balance) @@ Restrict(ledger, kept)
    /\ Extend(p, b)

-----------------------------------------------------------------------------
VARIABLES
  part,                                         \* what this behaviour runs
  blocks,                                       \* of Difficulty
  left, right,                                  \* of Merkle
  script, signature, witnesses, block_time      \* of Scripts

spending == <<script, signature, witnesses, block_time>>

(* Bytes of 16 values.  Below the cap on the exponent one mantissa loses its
   second byte and one overflows its third; at the cap (mainnet) one overflows
   into it and one does not; the last exponent is above it (testnet, regtest). *)
GenesisBits ==
  {[exp |-> 4, mantissa |-> 40], [exp |-> 4, mantissa |-> 1100],
   [exp |-> 5, mantissa |-> 255], [exp |-> 5, mantissa |-> 1100], [exp |-> 6, mantissa |-> 255]}

Retarget == INSTANCE Difficulty WITH
  RADIX <- 16, WIDTH <- 6, MAX_EXP <- 5, INTERVAL <- 4, TARGET_BLOCK_TIME <- 2, HALF_WINDOW <- 1,
  Gap <- {0, 2, 3, 10}, MAX_LENGTH <- 10

Roots == INSTANCE Merkle WITH Txid <- {"a", "b"}, MaxTxs <- 6

Locks == INSTANCE Scripts WITH
  Keys <- {"k1", "k2", "k3"}, Times <- {1, 2, 3}, MaxLocks <- 2, MaxWitnesses <- 1, MaxTime <- 4

MCInit ==
  /\ part \in {"supply", "difficulty", "merkle", "scripts"}
  /\ Init /\ Roots!Init
  /\ IF part = "difficulty" THEN Retarget!Init ELSE blocks = <<Retarget!Genesis([exp |-> 4, mantissa |-> 40])>>
  /\ IF part = "scripts" THEN Locks!Init
     ELSE /\ script = [locks |-> <<>>, inner |-> [kind |-> "P2PKH", keys |-> <<"k1">>, m |-> 1]]
          /\ signature = [key |-> "k1", valid |-> TRUE] /\ witnesses = <<>> /\ block_time = 0

MCNext ==
  /\ UNCHANGED part
  /\ \/ part = "supply" /\ SupplyNext /\ UNCHANGED <<blocks, left, right, spending>>
     \/ part = "difficulty" /\ Retarget!Next /\ UNCHANGED <<ledger, left, right, spending>>
     \/ part = "merkle" /\ Roots!Next /\ UNCHANGED <<ledger, blocks, spending>>
     \/ part = "scripts" /\ Locks!Next /\ UNCHANGED <<ledger, blocks, left, right>>

MCSpec == MCInit /\ [][MCNext]_<<part, ledger, blocks, left, right, spending>>

-----------------------------------------------------------------------------
(* The time a retarget measures can be trusted: it never comes out negative,
   although single timestamps go back and saturating_sub would hide it, and one
   block cannot bend it, whatever its timestamp (adjust_difficulty).        *)
IntervalSound == Retarget!IntervalNonNegative /\ Retarget!MedianResists

(* Compact bits lose nothing that matters: a mantissa keeps at least two of its
   three bytes, so that scaling never rounds it to nothing, and the work of a
   block is not smaller when its target is, although block_work keeps the
   upper half of the target only.                                           *)
BitsSound == Retarget!Normalised /\ Retarget!HarderWeighsMore

(* A retarget never makes the target more than four times easier, nor easier at
   all after a fast interval.  It makes it at most four times harder, and not
   harder after a slow interval, unless the exponent passes its cap; between
   retargets the bits do not move (adjust_difficulty, next_bits_for_blocks). *)
RetargetBounded == Retarget!RetargetBounded

(* A root belongs to one list: blocks of different transactions, in another
   order, or of another length, never share a header's merkle root.         *)
RootIsUnique == Roots!RootIsUnique

(* For an input with as many signatures as the script asks for, each of another
   key, the evaluation says what the script means: enough owners have signed,
   and the last of the nested locks is over (evaluate_script).              *)
MeansWhatItSays == Locks!MeansWhatItSays
=============================================================================
