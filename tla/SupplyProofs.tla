---------------------------- MODULE SupplyProofs ----------------------------
(* SupplyCapped for every cap, every premine and every tree of blocks. *)
EXTENDS Supply, TLAPS

(* SupplyCapped is inductive because it bounds what circulates by the minted
   total as well: the subsidy left is computed from that total alone.       *)
IInv == TypeOK /\ SupplyCapped

LEMMA InitIInv == Init => IInv
  BY SupplyAssumption DEF Init, IInv, TypeOK, SupplyCapped, Balance

(* One block keeps the two bounds. *)
LEMMA EarnedIsCapped ==
  ASSUME NEW before \in Balance, NEW after \in Balance,
         before.circulating <= before.minted, before.circulating <= Cap,
         Earned(before, after)
  PROVE  after.circulating <= after.minted /\ after.circulating <= Cap
<1> DEFINE claimed == after.minted - before.minted
           fees == before.circulating + claimed - after.circulating
<1>1. /\ before.circulating \in Nat /\ before.minted \in Nat
      /\ after.circulating \in Nat /\ after.minted \in Nat /\ Cap \in Nat
  BY SupplyAssumption DEF Balance
<1>2. claimed \in Nat /\ fees \in Nat /\ claimed <= Remaining(before.minted) + fees
  BY <1>1 DEF Earned
<1>3. after.circulating = before.circulating + claimed - fees
      /\ after.minted = before.minted + claimed
  BY <1>1, <1>2
<1>4. CASE before.minted >= Cap
  BY <1>1, <1>2, <1>3, <1>4 DEF Remaining
<1>5. CASE ~ (before.minted >= Cap)
  BY <1>1, <1>2, <1>3, <1>5 DEF Remaining
<1> QED BY <1>4, <1>5

LEMMA ExtendIInv ==
  ASSUME IInv, NEW p \in DOMAIN ledger, NEW b \in Id \ DOMAIN ledger, Extend(p, b)
  PROVE  IInv'
<1>1. TypeOK'
  BY DEF IInv, TypeOK, Extend
<1>2. \A x \in DOMAIN ledger' : x # b => x \in DOMAIN ledger /\ ledger'[x] = ledger[x]
  BY DEF Extend
<1>3. ASSUME b \in DOMAIN ledger'
      PROVE  ledger'[b].circulating <= ledger'[b].minted /\ ledger'[b].circulating <= Cap
  <2>1. ledger[p] \in Balance /\ ledger'[b] \in Balance /\ Earned(ledger[p], ledger'[b])
    BY <1>1, <1>3 DEF IInv, TypeOK, Extend
  <2> QED BY <2>1, EarnedIsCapped DEF IInv, SupplyCapped
<1>4. SupplyCapped'
  BY <1>2, <1>3 DEF IInv, SupplyCapped
<1> QED BY <1>1, <1>4 DEF IInv

(* No branch ever holds more than the cap, nor more than its coinbases
   claimed, whatever the reorganisations and the fees: the consequence of
   the bound validate_coinbase_subsidy_with_state puts on every block.     *)
THEOREM SupplyIsCapped == Spec => []SupplyCapped
<1>1. IInv /\ [Next]_ledger => IInv'
  <2> SUFFICES ASSUME IInv, [Next]_ledger PROVE IInv'
    OBVIOUS
  <2>1. CASE Next
    BY <2>1, ExtendIInv DEF Next
  <2>2. CASE UNCHANGED ledger
    BY <2>2 DEF IInv, TypeOK, SupplyCapped
  <2> QED BY <2>1, <2>2
<1>2. IInv => SupplyCapped
  BY DEF IInv
<1> QED BY InitIInv, <1>1, <1>2, PTL DEF Spec
=============================================================================
