------------------------------- MODULE Supply -------------------------------
(***************************************************************************)
(* What the chain promises about money, without blocks or transactions: a  *)
(* ledger keeps, for every known block, how much value is unspent after it *)
(* (circulating) and how much the coinbases up to it have claimed          *)
(* (minted).  A new block burns the fees of its transactions and claims at *)
(* most the capped subsidy and those fees; known blocks may be forgotten.  *)
(* Chain is checked to implement this specification.                       *)
(***************************************************************************)
EXTENDS Integers

CONSTANTS
  Id,       \* block identifiers
  Start,    \* the genesis block
  Cap,      \* hard cap on the supply
  Premine   \* what the genesis coinbase claims

ASSUME SupplyAssumption ==
  /\ Start \in Id
  /\ Cap \in Nat
  /\ Premine \in 0..Cap

VARIABLE ledger   \* known block -> [circulating, minted]

Balance == [circulating : Nat, minted : Nat]

Remaining(minted) == IF minted >= Cap THEN 0 ELSE Cap - minted

Init == ledger = [b \in {Start} |-> [circulating |-> Premine, minted |-> Premine]]

(* Mutant: the subsidy is not capped by what remains. *)
Earned_Uncapped(before, after) ==
  LET claimed == after.minted - before.minted
      fees    == before.circulating + claimed - after.circulating
  IN /\ claimed >= 0
     /\ fees \in 0..before.circulating
     /\ claimed <= Cap + fees

(* From the balance before a block to the one after it: the transactions burn
   their fees, the coinbase claims the subsidy left and the fees, or less.   *)
Earned(before, after) ==
  LET claimed == after.minted - before.minted
      fees    == before.circulating + claimed - after.circulating
  IN /\ claimed >= 0
     /\ fees \in 0..before.circulating
     /\ claimed <= Remaining(before.minted) + fees

(* A block b on p becomes known; other blocks may be forgotten with it. *)
Extend(p, b) ==
  /\ DOMAIN ledger' \subseteq DOMAIN ledger \cup {b}
  /\ ledger' \in [DOMAIN ledger' -> Balance]
  /\ \A x \in DOMAIN ledger' \ {b} : ledger'[x] = ledger[x]
  /\ b \in DOMAIN ledger' => Earned(ledger[p], ledger'[b])

Next == \E p \in DOMAIN ledger, b \in Id \ DOMAIN ledger : Extend(p, b)

Spec == Init /\ [][Next]_ledger

TypeOK == DOMAIN ledger \subseteq Id /\ ledger \in [DOMAIN ledger -> Balance]

(* On no known branch does more value circulate than its coinbases claimed,
   nor than the hard cap, although minted counts recycled fees again and may
   pass the cap (validate_coinbase_subsidy_with_state, total_minted).       *)
SupplyCapped ==
  \A b \in DOMAIN ledger :
    /\ ledger[b].circulating <= ledger[b].minted
    /\ ledger[b].circulating <= Cap
=============================================================================
