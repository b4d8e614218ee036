------------------------------ MODULE MCStore -------------------------------
(***************************************************************************)
(* ChainStore over a trunk G-A1-A2-A3-A4 whose block A2 carries a payment  *)
(* signed for the network "net", and over the same trunk with a branch     *)
(* B2-B3 beside it.                                                        *)
(*                                                                         *)
(* Some behaviours are calm: only the trunk is offered, puts fail only     *)
(* while the node is up, and it dies only then or while it creates its     *)
(* store.  What holds without side branches and interrupted loads is       *)
(* stated for those.                                                       *)
(***************************************************************************)
EXTENDS ChainStore

Out(v, who) == [value |-> v, owner |-> who, lock_until |-> 0]

Coinbase(h) ==
  [inputs |-> << <<"null", 1>> >>, outputs |-> <<Out(4, "alice")>>, is_coinbase |-> TRUE,
   coinbase_extra |-> h, signers |-> {}, magic |-> "net", size |-> 1]

MCTx == [
  null |-> Coinbase(0),   \* the null outpoint's transaction; in no block
  cb0 |-> Coinbase(0), cb1 |-> Coinbase(1), cb2 |-> Coinbase(2), cb3 |-> Coinbase(3),
  cb4 |-> Coinbase(4),
  pay |-> [inputs |-> << <<"cb1", 1>> >>, outputs |-> <<Out(3, "bob")>>, is_coinbase |-> FALSE,
           coinbase_extra |-> 0, signers |-> {"alice"}, magic |-> "net", size |-> 1]]

MCTxid == DOMAIN MCTx

Row(p, h, txs) ==
  [prev_hash |-> p, height |-> h, bits |-> "lo", timestamp |-> h + 1, transactions |-> txs,
   well_formed |-> TRUE]

MCBlock == [
  G  |-> Row("G", 0, <<"cb0">>),
  A1 |-> Row("G", 1, <<"cb1">>), A2 |-> Row("A1", 2, <<"cb2", "pay">>),
  A3 |-> Row("A2", 3, <<"cb3">>), A4 |-> Row("A3", 4, <<"cb4">>),
  B2 |-> Row("A1", 2, <<"cb2">>), B3 |-> Row("B2", 3, <<"cb3", "pay">>)]

ForkHash == DOMAIN MCBlock

TrunkHash == {"G", "A1", "A2", "A3", "A4"}

MCNextBits == [b \in ForkHash |-> "lo"]

MCWork == [lo |-> 1]

-----------------------------------------------------------------------------
VARIABLE calm   \* whether this behaviour is one of the calm ones

Calm ==
  /\ adding' \in TrunkHash \cup {NoBlock}
  /\ phase = "opening" => phase' # "down"                                 \* no crash
  /\ phase \in {"creating", "opening"} /\ writes # <<>> => phase' # "failed"  \* no put error

MCInit == StoreInit /\ calm \in BOOLEAN

MCNext == StoreNext /\ UNCHANGED calm /\ (calm => Calm)

MCSpec == MCInit /\ [][MCNext]_<<storeVars, calm>>

(* A restart preserves the chain: the store opens again, and the tip has at least
   the work of the tip when add_block last returned Ok to a running node,
   wherever in a write the node died or a put failed (open_for_network).    *)
RestartKeepsChain == calm => OpenNeverFails /\ NoWorkLost
=============================================================================
