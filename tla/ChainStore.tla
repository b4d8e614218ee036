----------------------------- MODULE ChainStore -----------------------------
(***************************************************************************)
(* A Blockchain with its RocksDB store (storage/db.rs): the order in which *)
(* add_block writes to disk and changes memory, put errors, crashes, and   *)
(* how open_for_network builds the chain again from what the disk holds.   *)
(*                                                                         *)
(* One put is one step, so that a crash can fall between any two; a put    *)
(* that returned survives the death of the process.  Nothing else runs     *)
(* during add_block: the caller holds the chain lock.                      *)
(***************************************************************************)
EXTENDS Chain

CONSTANTS
  REGTEST_MAGIC,   \* magic from_genesis uses, whatever the network
  PUT_ERRORS,      \* phases in which a put may fail
  CRASHES,         \* phases in which the process may die
  NoBlock          \* not a hash

Phase == {"down", "creating", "opening", "up", "failed"}

ASSUME StoreAssumption ==
  /\ PUT_ERRORS \subseteq Phase /\ CRASHES \subseteq Phase
  /\ NoBlock \notin Hash

VARIABLES
  phase,      \* what the process is doing
  db_blocks,  \* the hashes with a key block:<hash>
  db_height,  \* the keys height:<h>, each with the hash it holds
  db_tip,     \* the key tip
  adding,     \* the block add_block is working on
  stage,      \* where add_block is: "idle", "saving", "stored"
  writes,     \* puts still to do before the call goes on
  reload,     \* blocks still to be added by from_blocks
  settled     \* the tip when add_block last returned Ok to a running node

disk == <<db_blocks, db_height, db_tip>>
call == <<adding, stage, writes>>
storeVars == <<vars, phase, disk, call, reload, settled>>

Idle == stage = "idle" /\ writes = <<>>

-----------------------------------------------------------------------------
(* Mutant: the index before the block it points to. *)
save_block_IndexFirst(b) == << <<"height", b>>, <<"block", b>> >>

(* save_block is two puts: the block, then the height index, whose entry is
   overwritten whichever branch the block is on.  save_tip is one.          *)
save_block(b) == << <<"block", b>>, <<"height", b>> >>
save_tip(b) == << <<"tip", b>> >>

(* chain_to_hash: the branch of a block, from height 0 up. *)
chain_to_hash(b) == [i \in 1 .. height(b) + 1 |-> CHOOSE x \in ancestry[b] : height(x) = i - 1]

(* save_block of every block of a branch, in that order. *)
SaveChain(chain) ==
  [k \in 1 .. 2 * Len(chain) |-> save_block(chain[(k + 1) \div 2])[2 - (k % 2)]]

(* The next put reaches the disk. *)
Put ==
  /\ writes # <<>>
  /\ LET kind == Head(writes)[1]
         b == Head(writes)[2]
     IN /\ db_blocks' = IF kind = "block" THEN db_blocks \cup {b} ELSE db_blocks
        /\ db_height' = IF kind = "height" THEN Insert(db_height, height(b), b) ELSE db_height
        /\ db_tip' = IF kind = "tip" THEN b ELSE db_tip
  /\ writes' = Tail(writes)
  /\ UNCHANGED <<vars, phase, adding, stage, reload, settled>>

(* Mutant: the error of a put is dropped and the call goes on. *)
PutFails_Ignored ==
  /\ phase \in PUT_ERRORS
  /\ writes # <<>>
  /\ writes' = Tail(writes)
  /\ UNCHANGED <<vars, phase, disk, adding, stage, reload, settled>>

(* A put fails: the call returns the error and leaves memory as it is then,
   before the block was stored or after it was activated but not pruned.    *)
PutFails ==
  /\ phase \in PUT_ERRORS
  /\ writes # <<>>
  /\ adding' = NoBlock /\ stage' = "idle" /\ writes' = <<>>
  /\ phase' = IF phase = "up" THEN "up" ELSE "failed"
  /\ UNCHANGED <<vars, disk, reload, settled>>

-----------------------------------------------------------------------------
(* add_block up to the store: an accepted block is saved first. *)
BeginAdd(b, now) ==
  /\ Idle
  /\ Accepts(b, now)
  /\ adding' = b /\ stage' = "saving" /\ writes' = save_block(b)
  /\ UNCHANGED <<vars, disk, settled>>

(* Mutant: the tip is not saved with the branch. *)
StoreBlock_NoTip ==
  /\ stage = "saving" /\ writes = <<>>
  /\ IF candidate_work(adding) > chain_work[tip]
     THEN activate_chain(adding) /\ writes' = SaveChain(chain_to_hash(adding))
     ELSE UNCHANGED <<active, pool, writes>>
  /\ all_blocks' = all_blocks \cup {adding}
  /\ chain_work' = Insert(chain_work, adding, candidate_work(adding))
  /\ stage' = "stored"
  /\ UNCHANGED <<network_magic, phase, disk, adding, reload, settled>>

(* Saved: the block enters memory; when it has more work than the tip its
   branch is activated and the whole branch saved again, the tip last.      *)
StoreBlock ==
  /\ stage = "saving" /\ writes = <<>>
  /\ IF candidate_work(adding) > chain_work[tip]
     THEN /\ activate_chain(adding)
          /\ writes' = SaveChain(chain_to_hash(adding)) \o save_tip(adding)
     ELSE UNCHANGED <<active, pool, writes>>
  /\ all_blocks' = all_blocks \cup {adding}
  /\ chain_work' = Insert(chain_work, adding, candidate_work(adding))
  /\ stage' = "stored"
  /\ UNCHANGED <<network_magic, phase, disk, adding, reload, settled>>

(* The end of add_block: prune, return Ok. *)
FinishAdd ==
  /\ stage = "stored" /\ writes = <<>>
  /\ all_blocks' = Retained(all_blocks, tip, blocks)
  /\ chain_work' = Restrict(chain_work, all_blocks')
  /\ adding' = NoBlock /\ stage' = "idle"
  /\ settled' = IF phase = "up" THEN tip ELSE settled
  /\ UNCHANGED <<network_magic, active, pool, phase, disk, writes, reload>>

-----------------------------------------------------------------------------
(* Memory as from_genesis leaves it; also what a dead process is reset to. *)
FromGenesis(magic) ==
  /\ network_magic' = magic
  /\ all_blocks' = {Genesis}
  /\ chain_work' = [b \in {Genesis} |-> work[block[Genesis].bits]]
  /\ tip' = Genesis
  /\ blocks' = {Genesis}
  /\ utxo_set' = ApplyAll(EmptyUtxoSet, block[Genesis].transactions)
  /\ total_minted' = coinbase_value(Genesis)
  /\ mempool' = <<>>
  /\ mempool_bytes' = 0

(* open_for_network without a stored tip: the genesis is saved, then the tip. *)
OpenFresh ==
  /\ phase \in {"down", "failed"}
  /\ db_tip = NoBlock
  /\ FromGenesis(REGTEST_MAGIC)
  /\ phase' = "creating"
  /\ writes' = save_block(Genesis) \o save_tip(Genesis)
  /\ UNCHANGED <<disk, adding, stage, reload, settled>>

Created ==
  /\ phase = "creating" /\ writes = <<>>
  /\ phase' = "up"
  /\ UNCHANGED <<vars, disk, call, reload, settled>>

(* What open_for_network reads before it builds anything is there: the tip,
   and every height up to the tip's through the height index.               *)
Loadable ==
  /\ db_tip \in db_blocks
  /\ \A h \in 0..height(db_tip) : h \in DOMAIN db_height /\ db_height[h] \in db_blocks

(* open_for_network with a stored tip, up to the first block of from_blocks. *)
OpenStored ==
  /\ phase \in {"down", "failed"}
  /\ db_tip # NoBlock
  /\ FromGenesis(REGTEST_MAGIC)
  /\ phase' = IF Loadable THEN "opening" ELSE "failed"
  /\ reload' = IF Loadable THEN [h \in 1..height(db_tip) |-> db_height[h]] ELSE <<>>
  /\ UNCHANGED <<disk, call, settled>>

(* from_blocks: add_block on the next loaded block ... *)
ReloadBlock(now) ==
  /\ phase = "opening" /\ reload # <<>>
  /\ BeginAdd(Head(reload), now)
  /\ reload' = Tail(reload)
  /\ UNCHANGED phase

(* ... an error of which is an error of open ... *)
ReloadFails(now) ==
  /\ phase = "opening" /\ Idle /\ reload # <<>>
  /\ ~ Accepts(Head(reload), now)
  /\ phase' = "failed"
  /\ UNCHANGED <<vars, disk, call, reload, settled>>

(* ... and after the last block the network's own magic is set. *)
Opened ==
  /\ phase = "opening" /\ Idle /\ reload = <<>>
  /\ network_magic' = NETWORK_MAGIC
  /\ phase' = "up"
  /\ UNCHANGED <<all_blocks, chain_work, active, pool, disk, call, reload, settled>>

(* The process dies: memory and the call in progress are gone. *)
Crash ==
  /\ phase \in CRASHES
  /\ phase' = "down"
  /\ FromGenesis(REGTEST_MAGIC)
  /\ adding' = NoBlock /\ stage' = "idle" /\ writes' = <<>>
  /\ reload' = <<>>
  /\ UNCHANGED <<disk, settled>>

(* The operations of a running node. *)
NodeAddBlock(b, now) ==
  /\ phase = "up"
  /\ BeginAdd(b, now)
  /\ UNCHANGED <<phase, reload>>

NodeSubmit(t) ==
  /\ phase = "up" /\ Idle
  /\ SubmitTransaction(t)
  /\ UNCHANGED <<phase, disk, call, reload, settled>>

StoreInit ==
  /\ Init
  /\ phase = "down"
  /\ db_blocks = {} /\ db_height = <<>> /\ db_tip = NoBlock
  /\ adding = NoBlock /\ stage = "idle" /\ writes = <<>>
  /\ reload = <<>>
  /\ settled = Genesis

StoreNext ==
  \/ Put \/ PutFails
  \/ StoreBlock \/ FinishAdd
  \/ OpenFresh \/ Created \/ OpenStored \/ Opened
  \/ \E now \in Clock : ReloadBlock(now) \/ ReloadFails(now)
  \/ Crash
  \/ \E b \in Hash, now \in Clock : NodeAddBlock(b, now)
  \/ \E t \in Txid : NodeSubmit(t)

StoreSpec == StoreInit /\ [][StoreNext]_storeVars

-----------------------------------------------------------------------------
(* Wherever the process dies or a put fails, the disk never refers to what it
   does not hold: the stored tip and every height below it can be read, so
   neither "is missing" error of open_for_network can happen.               *)
NoDanglingKeys == db_tip # NoBlock => Loadable

(* A block is on disk before it is in memory: what a running node may relay,
   build on or answer with, is stored, whichever put failed (add_block).    *)
KnownIsStored == phase = "up" => all_blocks \subseteq db_blocks

(* A store the node wrote itself can be opened again (open_for_network). *)
OpenNeverFails == phase # "failed"

(* A node that is up again has a tip with at least the work of the tip it had
   when add_block last returned Ok before it went down: a restart loses no
   accepted work.                                                           *)
NoWorkLost == phase = "up" /\ Idle => branch_work[tip] >= branch_work[settled]
=============================================================================
