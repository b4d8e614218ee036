---------------------------- MODULE ChainProofs -----------------------------
(***************************************************************************)
(* Fork choice and finality of Chain, for every tree of blocks, every      *)
(* difficulty rule and every finality depth.  The transactions play no     *)
(* part: the proofs use only that an accepted block is linked to a known   *)
(* parent one height below it and has the difficulty the parent demands.   *)
(* Then what fork choice means for the templates of Mining.                *)
(***************************************************************************)
EXTENDS Mining, TLAPS

(* The facts about the constants that the proofs use. *)
LEMMA Constants ==
  /\ \A b \in Hash : prev(b) \in Hash /\ height(b) \in Nat /\ block[b].bits \in Bits
  /\ \A b \in Hash : work[block[b].bits] \in Nat
  /\ Genesis \in Hash /\ height(Genesis) = 0
  /\ FINALITY_DEPTH \in Nat
  BY BlockAssumption, GenesisAssumption, WorkAssumption, DepthAssumption DEF IsBlock

LEMMA AncestryUnfolds ==
  ASSUME NEW b \in Hash
  PROVE  /\ height(b) = 0 => ancestry[b] = {b} /\ branch_work[b] = work[block[b].bits]
         /\ height(b) # 0 => /\ ancestry[b] = ancestry[prev(b)] \cup {b}
                             /\ branch_work[b] = work[block[b].bits] + branch_work[prev(b)]
<1>1. ancestry[b] = IF height(b) = 0 THEN {b} ELSE ancestry[prev(b)] \cup {b}
  BY AcyclicAssumption
<1>2. branch_work[b] = work[block[b].bits] + (IF height(b) = 0 THEN 0 ELSE branch_work[prev(b)])
  BY AcyclicAssumption
<1>3. work[block[b].bits] \in Nat
  BY Constants
<1> QED BY <1>1, <1>2, <1>3

(* What an accepted block has, whatever its transactions. *)
LEMMA AcceptedBlock ==
  ASSUME NEW b, NEW now, Accepts(b, now)
  PROVE  /\ b \notin all_blocks
         /\ prev(b) \in all_blocks
         /\ height(b) = height(prev(b)) + 1
         /\ block[b].bits = next_bits[prev(b)]
         /\ prev(b) = tip \/ ancestry[prev(b)] \subseteq all_blocks
  BY DEF Accepts, ValidAgainstParent, ParentKnown, ChainKnown

(* The branch of an accepted block is the parent's branch and the block. *)
LEMMA BranchExtends ==
  ASSUME NEW b \in Hash, prev(b) \in Hash,
         height(b) = height(prev(b)) + 1,
         block[b].bits = next_bits[prev(b)],
         BranchShape(prev(b))
  PROVE  /\ ancestry[b] = ancestry[prev(b)] \cup {b}
         /\ BranchShape(b)
<1> DEFINE p == prev(b)
<1>1. height(p) \in Nat /\ height(b) \in Nat /\ height(b) # 0 /\ height(b) = height(p) + 1
  BY Constants
<1>2. ancestry[b] = ancestry[p] \cup {b}
  BY <1>1, AncestryUnfolds
<1>3. p \in ancestry[p] /\ \A a \in ancestry[p] : a \in Hash /\ height(a) \in Nat /\ height(a) <= height(p)
  BY Constants DEF BranchShape
<1>4. \A h \in 0..height(b) : \E a \in ancestry[b] : height(a) = h
  <2> SUFFICES ASSUME NEW h \in 0..height(b) PROVE \E a \in ancestry[b] : height(a) = h
    OBVIOUS
  <2>1. CASE h = height(b)
    BY <1>2, <2>1
  <2>2. CASE h # height(b)
    <3>1. h \in 0..height(p)
      BY <1>1, <2>2
    <3> QED BY <3>1, <1>2 DEF BranchShape
  <2> QED BY <2>1, <2>2
<1>5. \A a \in ancestry[b] : a \in Hash /\ height(a) <= height(b)
  BY <1>1, <1>2, <1>3
<1>6. \A a, c \in ancestry[b] : height(a) = height(c) => a = c
  <2>1. \A a \in ancestry[p] : height(a) # height(b)
    BY <1>1, <1>3
  <2> QED BY <2>1, <1>2 DEF BranchShape
<1>7. \A a \in ancestry[b] : height(a) # 0 =>
        /\ prev(a) \in ancestry[b]
        /\ height(a) = height(prev(a)) + 1
        /\ block[a].bits = next_bits[prev(a)]
  BY <1>2, <1>3 DEF BranchShape
<1>8. BranchShape(b)
  BY <1>2, <1>4, <1>5, <1>6, <1>7 DEF BranchShape
<1> QED BY <1>2, <1>8

LEMMA InitForkInv == Init => ForkInv
<1> SUFFICES ASSUME Init PROVE ForkInv
  OBVIOUS
<1>1. ancestry[Genesis] = {Genesis} /\ branch_work[Genesis] = work[block[Genesis].bits]
  BY Constants, AncestryUnfolds
<1>2. /\ all_blocks = {Genesis} /\ tip = Genesis /\ blocks = {Genesis}
      /\ chain_work = [b \in {Genesis} |-> work[block[Genesis].bits]]
  BY DEF Init
<1>3. work[block[Genesis].bits] \in Nat
  BY Constants
<1>4. ForkTypeOK
  BY <1>2, <1>3, Constants DEF ForkTypeOK
<1>5. BranchShape(Genesis)
  BY <1>1, Constants DEF BranchShape
<1>6. WorkExact /\ MostWork /\ SideBranchesPruned
  BY <1>1, <1>2, <1>3 DEF WorkExact, MostWork, SideBranchesPruned
<1> QED BY <1>1, <1>2, <1>4, <1>5, <1>6 DEF ForkInv

(* The state after add_block, in the two cases of the fork choice. *)
LEMMA AfterAddBlock ==
  ASSUME ForkInv, NEW b \in Hash, NEW now \in Clock, AddBlock(b, now)
  PROVE  /\ \/ tip' = b /\ blocks' = ancestry[b] /\ branch_work[b] > branch_work[tip]
            \/ tip' = tip /\ blocks' = blocks /\ branch_work[b] <= branch_work[tip]
         /\ candidate_work(b) = branch_work[b] /\ branch_work[b] \in Nat
         /\ ancestry[b] = ancestry[prev(b)] \cup {b}
         /\ ancestry[b] \subseteq all_blocks \cup {b}
         /\ BranchShape(b)
         /\ all_blocks' = Retained(all_blocks \cup {b}, tip', blocks')
         /\ chain_work' = [x \in all_blocks' |->
                             IF x = b THEN branch_work[b] ELSE chain_work[x]]
<1>1. Accepts(b, now)
  BY DEF AddBlock
<1>2. /\ prev(b) \in all_blocks /\ prev(b) \in Hash
      /\ height(b) = height(prev(b)) + 1
      /\ block[b].bits = next_bits[prev(b)]
      /\ prev(b) = tip \/ ancestry[prev(b)] \subseteq all_blocks
  BY <1>1, AcceptedBlock, Constants
<1>3. ancestry[b] = ancestry[prev(b)] \cup {b} /\ BranchShape(b)
  BY <1>2, BranchExtends DEF ForkInv
<1>4. ancestry[b] \subseteq all_blocks \cup {b}
  BY <1>2, <1>3 DEF ForkInv, ForkTypeOK
<1>5. branch_work[prev(b)] = chain_work[prev(b)] /\ chain_work[prev(b)] \in Nat
      /\ branch_work[tip] = chain_work[tip] /\ chain_work[tip] \in Nat
  BY <1>2 DEF ForkInv, WorkExact, ForkTypeOK
<1>6. candidate_work(b) = branch_work[b] /\ branch_work[b] \in Nat
  <2>1. height(b) # 0
    BY <1>2, Constants
  <2> QED BY <1>2, <1>5, <2>1, Constants, AncestryUnfolds DEF candidate_work
<1>7. \/ tip' = b /\ blocks' = ancestry[b] /\ branch_work[b] > branch_work[tip]
      \/ tip' = tip /\ blocks' = blocks /\ branch_work[b] <= branch_work[tip]
  <2>1. CASE candidate_work(b) > chain_work[tip]
    BY <2>1, <1>5, <1>6 DEF AddBlock, activate_chain
  <2>2. CASE ~ (candidate_work(b) > chain_work[tip])
    BY <2>2, <1>5, <1>6 DEF AddBlock, active
  <2> QED BY <2>1, <2>2
<1>8. /\ all_blocks' = Retained(all_blocks \cup {b}, tip', blocks')
      /\ chain_work' = [x \in all_blocks' |-> IF x = b THEN branch_work[b] ELSE chain_work[x]]
  BY <1>6 DEF AddBlock
<1> QED BY <1>3, <1>4, <1>6, <1>7, <1>8

LEMMA AddBlockForkInv ==
  ASSUME ForkInv, NEW b \in Hash, NEW now \in Clock, AddBlock(b, now)
  PROVE  ForkInv'
<1>1. PICK known : known = all_blocks \cup {b}
  OBVIOUS
<1>2. known \subseteq Hash /\ tip \in known /\ blocks \subseteq known /\ b \in known
  BY <1>1 DEF ForkInv, ForkTypeOK
<1>3. tip' \in known /\ blocks' = ancestry[tip'] /\ blocks' \subseteq known /\ tip' \in blocks'
  <2>1. tip \in ancestry[tip] /\ b \in ancestry[b] /\ blocks = ancestry[tip]
        /\ ancestry[b] \subseteq known
    <3>1. BranchShape(b) /\ ancestry[b] \subseteq all_blocks \cup {b}
      BY AfterAddBlock
    <3>2. BranchShape(tip) /\ blocks = ancestry[tip]
      BY DEF ForkInv, ForkTypeOK
    <3> QED BY <1>1, <3>1, <3>2 DEF BranchShape
  <2>2. \/ tip' = b /\ blocks' = ancestry[b]
        \/ tip' = tip /\ blocks' = blocks
    BY AfterAddBlock
  <2> QED BY <1>2, <2>1, <2>2
<1>4. all_blocks' \subseteq known /\ blocks' \subseteq all_blocks'
      /\ \A x \in all_blocks' : height(x) + FINALITY_DEPTH <= height(tip') => x \in blocks'
  <2>1. height(tip') \in Nat /\ FINALITY_DEPTH \in Nat /\ \A x \in known : height(x) \in Nat
    BY <1>2, <1>3, Constants
  <2>2. all_blocks' = Retained(known, tip', blocks')
    BY <1>1, AfterAddBlock
  <2> QED BY <1>3, <2>1, <2>2 DEF Retained
<1>5. \A x \in known : BranchShape(x)
  BY <1>1, AfterAddBlock DEF ForkInv
<1>6. \A x \in all_blocks : chain_work[x] = branch_work[x] /\ branch_work[x] \in Nat
  BY DEF ForkInv, ForkTypeOK, WorkExact
<1>7. chain_work' \in [all_blocks' -> Nat]
      /\ \A x \in all_blocks' : chain_work'[x] = branch_work[x]
  <2>1. \A x \in all_blocks' :
          (IF x = b THEN branch_work[b] ELSE chain_work[x]) = branch_work[x]
          /\ branch_work[x] \in Nat
    BY <1>1, <1>4, <1>6, AfterAddBlock
  <2>2. chain_work' = [x \in all_blocks' |-> IF x = b THEN branch_work[b] ELSE chain_work[x]]
    BY AfterAddBlock
  <2> QED BY <2>1, <2>2
<1>8. \A x \in all_blocks' : branch_work[x] <= branch_work[tip']
  <2>1. \A x \in all_blocks : branch_work[x] <= branch_work[tip]
    BY DEF ForkInv, MostWork
  <2>2. branch_work[tip] \in Nat /\ branch_work[b] \in Nat
    BY <1>6, AfterAddBlock DEF ForkInv, ForkTypeOK
  <2>3. \/ tip' = b /\ branch_work[b] > branch_work[tip]
        \/ tip' = tip /\ branch_work[b] <= branch_work[tip]
    BY AfterAddBlock
  <2>4. \A x \in all_blocks' : x = b \/ x \in all_blocks
    BY <1>1, <1>4
  <2> QED BY <1>6, <2>1, <2>2, <2>3, <2>4
<1>9. ForkTypeOK'
  BY <1>2, <1>3, <1>4, <1>7 DEF ForkTypeOK
<1>10. (\A x \in all_blocks : BranchShape(x))'
  BY <1>4, <1>5 DEF BranchShape, height, prev
<1> QED BY <1>3, <1>4, <1>7, <1>8, <1>9, <1>10
        DEF ForkInv, WorkExact, SideBranchesPruned, MostWork, height

LEMMA NextForkInv == ForkInv /\ [Next]_vars => ForkInv'
<1> SUFFICES ASSUME ForkInv, [Next]_vars PROVE ForkInv'
  OBVIOUS
<1>1. CASE \E b \in Hash, now \in Clock : AddBlock(b, now)
  BY <1>1, AddBlockForkInv
<1>2. CASE UNCHANGED <<all_blocks, chain_work, tip, blocks>>
  BY <1>2 DEF ForkInv, ForkTypeOK, BranchShape, WorkExact, SideBranchesPruned, MostWork,
              height, prev
<1>3. CASE \E t \in Txid : SubmitTransaction(t)
  BY <1>3, <1>2 DEF SubmitTransaction, active
<1>4. CASE UNCHANGED vars
  BY <1>4, <1>2 DEF vars, active
<1> QED BY <1>1, <1>3, <1>4 DEF Next

(* Type correctness of the block tree and the work table. *)
THEOREM ForkTypeCorrect == Spec => []ForkTypeOK
<1>1. ForkInv => ForkTypeOK
  BY DEF ForkInv
<1> QED BY InitForkInv, NextForkInv, <1>1, PTL DEF Spec

(* The inductive invariant of the block tree, checked by TLC in the run fork. *)
THEOREM ForkInvariant == Spec => []ForkInv
  BY InitForkInv, NextForkInv, PTL DEF Spec

(* The tip always has the most work of all known blocks (add_block). *)
THEOREM HeaviestTip == Spec => []MostWork
<1>1. ForkInv => MostWork
  BY DEF ForkInv
<1> QED BY InitForkInv, NextForkInv, <1>1, PTL DEF Spec

(* activate_chain never fails on a block that add_block has stored. *)
THEOREM ActivationSucceeds == Spec => []ActivationNeverFails
<1>1. ForkInv => ActivationNeverFails
  <2> SUFFICES ASSUME ForkInv, NEW b \in Hash, NEW now \in Clock, Accepts(b, now)
               PROVE  ancestry[b] \subseteq all_blocks \cup {b}
    BY DEF ActivationNeverFails, ChainKnown
  <2>1. /\ prev(b) \in all_blocks /\ prev(b) \in Hash
        /\ height(b) = height(prev(b)) + 1
        /\ block[b].bits = next_bits[prev(b)]
        /\ prev(b) = tip \/ ancestry[prev(b)] \subseteq all_blocks
    BY AcceptedBlock, Constants
  <2>2. ancestry[b] = ancestry[prev(b)] \cup {b}
    BY <2>1, BranchExtends DEF ForkInv
  <2> QED BY <2>1, <2>2 DEF ForkInv, ForkTypeOK
<1> QED BY InitForkInv, NextForkInv, <1>1, PTL DEF Spec

-----------------------------------------------------------------------------
(* A block offered below the finality depth cannot take over: its parent is on
   the active chain, and the parent's active child is as heavy as it is.    *)
LEMMA NoTakeoverBelow ==
  ASSUME ForkInv, NEW b \in Hash, NEW now \in Clock, AddBlock(b, now),
         height(b) + FINALITY_DEPTH <= height(tip)
  PROVE  branch_work[b] <= branch_work[tip]
<1> DEFINE p == prev(b)
<1>1. p \in all_blocks /\ p \in Hash /\ height(b) = height(p) + 1
      /\ block[b].bits = next_bits[p] /\ tip \in Hash /\ tip \in all_blocks
  BY AcceptedBlock, Constants DEF AddBlock, ForkInv, ForkTypeOK
<1>2. height(b) \in Nat /\ height(p) \in Nat /\ height(tip) \in Nat /\ FINALITY_DEPTH \in Nat
  BY <1>1, Constants
<1>3. p \in ancestry[tip]
  BY <1>1, <1>2 DEF ForkInv, SideBranchesPruned
<1>4. BranchShape(tip)
  BY <1>1 DEF ForkInv
<1>5. PICK d \in ancestry[tip] : height(d) = height(b)
  BY <1>2, <1>4 DEF BranchShape
<1>6. d \in Hash /\ d \in all_blocks /\ height(d) # 0
  BY <1>1, <1>2, <1>4, <1>5 DEF BranchShape, ForkInv, ForkTypeOK
<1>7. prev(d) = p
  <2>1. prev(d) \in ancestry[tip] /\ height(d) = height(prev(d)) + 1 /\ prev(d) \in Hash
    BY <1>4, <1>5, <1>6, Constants DEF BranchShape
  <2>2. height(prev(d)) = height(p)
    BY <1>1, <1>2, <1>5, <2>1, Constants
  <2> QED BY <1>3, <1>4, <2>1, <2>2 DEF BranchShape
<1>8. block[d].bits = block[b].bits
  BY <1>1, <1>4, <1>5, <1>6, <1>7 DEF BranchShape
<1>9. branch_work[d] = branch_work[b]
  <2>1. height(b) # 0
    BY <1>1, <1>2
  <2> QED BY <1>6, <1>7, <1>8, <2>1, AncestryUnfolds
<1> QED BY <1>6, <1>9 DEF ForkInv, MostWork

(* A branch that takes over runs through every final block. *)
LEMMA TakeoverKeepsFinal ==
  ASSUME ForkInv, NEW b \in Hash, NEW now \in Clock, AddBlock(b, now),
         blocks' = ancestry[b], branch_work[b] > branch_work[tip],
         NEW a \in blocks, Final(a)
  PROVE  a \in blocks'
<1> DEFINE p == prev(b)
<1>1. p \in all_blocks /\ p \in Hash /\ height(b) = height(p) + 1
      /\ (p = tip \/ ancestry[p] \subseteq all_blocks)
      /\ tip \in Hash /\ tip \in all_blocks /\ a \in Hash /\ blocks = ancestry[tip]
  BY AcceptedBlock, Constants DEF AddBlock, ForkInv, ForkTypeOK
<1>2. height(b) \in Nat /\ height(p) \in Nat /\ height(tip) \in Nat /\ height(a) \in Nat
      /\ FINALITY_DEPTH \in Nat /\ height(a) + FINALITY_DEPTH <= height(tip)
  BY <1>1, Constants DEF Final
<1>3. ancestry[b] = ancestry[p] \cup {b}
  BY AfterAddBlock
<1>4. CASE p = tip
  BY <1>1, <1>3, <1>4
<1>5. CASE p # tip
  <2>1. ~ (height(b) + FINALITY_DEPTH <= height(tip))
    <3>1. branch_work[b] \in Nat /\ branch_work[tip] \in Nat
      BY <1>1, AfterAddBlock DEF ForkInv, ForkTypeOK, WorkExact
    <3> QED BY <3>1, NoTakeoverBelow
  <2>2. height(a) <= height(p)
    BY <1>1, <1>2, <2>1
  <2>3. BranchShape(p) /\ BranchShape(tip)
    BY <1>1 DEF ForkInv
  <2>4. PICK c \in ancestry[p] : height(c) = height(a)
    BY <1>2, <2>2, <2>3 DEF BranchShape
  <2>5. c \in blocks
    BY <1>1, <1>2, <1>5, <2>4 DEF ForkInv, SideBranchesPruned
  <2>6. c = a
    BY <1>1, <2>3, <2>4, <2>5 DEF BranchShape
  <2> QED BY <1>3, <2>4, <2>6
<1> QED BY <1>4, <1>5

(* No step reorganises out a block FINALITY_DEPTH or more below the tip, for
   every block tree, difficulty rule and depth: the promise behind
   prune_stale_orphans.                                                     *)
THEOREM FinalityHolds == Spec => Finality
<1>1. ForkInv /\ [Next]_vars => [\A b \in blocks : Final(b) => b \in blocks']_vars
  <2> SUFFICES ASSUME ForkInv, Next, NEW a \in blocks, Final(a) PROVE a \in blocks'
    OBVIOUS
  <2>1. CASE \E b \in Hash, now \in Clock : AddBlock(b, now)
    <3>1. PICK b \in Hash, now \in Clock : AddBlock(b, now)
      BY <2>1
    <3>2. \/ blocks' = ancestry[b] /\ branch_work[b] > branch_work[tip]
          \/ blocks' = blocks
      BY <3>1, AfterAddBlock
    <3> QED BY <3>1, <3>2, TakeoverKeepsFinal
  <2>2. CASE \E t \in Txid : SubmitTransaction(t)
    BY <2>2 DEF SubmitTransaction, active
  <2> QED BY <2>1, <2>2 DEF Next
<1> QED BY InitForkInv, NextForkInv, <1>1, PTL DEF Spec, Finality

-----------------------------------------------------------------------------
(* The work of the known branches is a function of the height, and grows with
   it.  The branches reach down to blocks that were pruned.                 *)
WorkByHeight ==
  \A x, y \in all_blocks : \A a \in ancestry[x], c \in ancestry[y] :
    /\ branch_work[a] \in Nat
    /\ height(a) = height(c) => branch_work[a] = branch_work[c]
    /\ height(a) < height(c) => branch_work[a] < branch_work[c]

(* The chain has not come back to the height of a template on another block. *)
TemplateInv ==
  template # None =>
    /\ template.prev_hash \in Hash
    /\ template.height = height(template.prev_hash)
    /\ template.height <= height(tip)
    /\ template.height = height(tip) => tip = template.prev_hash

MiningInv == ForkInv /\ WorkByHeight /\ TemplateInv

LEMMA WorkPositive == \A b \in Hash : work[block[b].bits] \in Nat \ {0}
  BY BlockAssumption, WorkAssumption DEF IsBlock

LEMMA InitWorkByHeight == Init => WorkByHeight
<1> SUFFICES ASSUME Init PROVE WorkByHeight
  OBVIOUS
<1>1. all_blocks = {Genesis} /\ ancestry[Genesis] = {Genesis}
      /\ branch_work[Genesis] = work[block[Genesis].bits]
  BY Constants, AncestryUnfolds DEF Init
<1>2. branch_work[Genesis] \in Nat /\ height(Genesis) = 0
  BY <1>1, Constants
<1> QED BY <1>1, <1>2 DEF WorkByHeight

(* A new block has the work of the blocks at its height on the branches known
   before, more than those below it and less than those above it.           *)
LEMMA WorkOfNewBlock ==
  ASSUME SameDifficulty, ForkInv, WorkByHeight,
         NEW b \in Hash, NEW p \in all_blocks, prev(b) = p, height(b) = height(p) + 1,
         NEW y \in all_blocks, NEW c \in ancestry[y]
  PROVE  /\ branch_work[b] \in Nat
         /\ height(c) = height(b) => branch_work[c] = branch_work[b]
         /\ height(c) < height(b) => branch_work[c] < branch_work[b]
         /\ height(c) > height(b) => branch_work[c] > branch_work[b]
<1>1. /\ p \in Hash /\ p \in ancestry[p] /\ BranchShape(y)
      /\ c \in Hash /\ height(c) \in Nat /\ height(p) \in Nat
  BY Constants DEF ForkInv, ForkTypeOK, BranchShape
<1>2. \A a \in ancestry[y] :
        /\ branch_work[a] \in Nat /\ branch_work[p] \in Nat
        /\ height(a) = height(p) => branch_work[a] = branch_work[p]
        /\ height(a) < height(p) => branch_work[a] < branch_work[p]
        /\ height(p) < height(a) => branch_work[p] < branch_work[a]
  BY <1>1 DEF WorkByHeight
<1>3. /\ height(b) # 0 /\ branch_work[b] = work[block[b].bits] + branch_work[p]
      /\ work[block[b].bits] \in Nat \ {0}
  BY <1>1, AncestryUnfolds, WorkPositive
<1>4. \A a \in ancestry[y] : height(a) = height(b) => branch_work[a] = branch_work[b]
  <2> SUFFICES ASSUME NEW a \in ancestry[y], height(a) = height(b)
               PROVE  branch_work[a] = branch_work[b]
    OBVIOUS
  <2>1. /\ a \in Hash /\ height(a) # 0 /\ prev(a) \in ancestry[y]
        /\ height(a) = height(prev(a)) + 1
    BY <1>1, <1>3 DEF BranchShape
  <2>2. height(prev(a)) \in Nat
    BY <2>1, Constants
  <2>3. branch_work[prev(a)] = branch_work[p]
    BY <1>1, <1>2, <2>1, <2>2
  <2>4. block[a].bits = block[b].bits
    BY <2>1 DEF SameDifficulty
  <2> QED BY <1>3, <2>1, <2>3, <2>4, AncestryUnfolds
<1>5. ASSUME height(c) < height(b) PROVE branch_work[c] < branch_work[b]
  <2>1. height(c) = height(p) \/ height(c) < height(p)
    BY <1>1, <1>5
  <2> QED BY <2>1, <1>2, <1>3
<1>6. ASSUME height(c) > height(b) PROVE branch_work[c] > branch_work[b]
  <2>1. height(b) \in 0..height(y)
    <3>1. height(c) <= height(y) /\ height(y) \in Nat
      BY <1>1, Constants DEF BranchShape, ForkInv, ForkTypeOK
    <3> QED BY <3>1, <1>1, <1>6
  <2>2. PICK a \in ancestry[y] : height(a) = height(b)
    BY <2>1, <1>1 DEF BranchShape
  <2>3. branch_work[a] < branch_work[c]
    BY <2>2, <1>6 DEF WorkByHeight
  <2> QED BY <2>2, <2>3, <1>2, <1>4
<1> QED BY <1>2, <1>3, <1>4, <1>5, <1>6

LEMMA AddBlockWorkByHeight ==
  ASSUME SameDifficulty, ForkInv, WorkByHeight,
         NEW b \in Hash, NEW now \in Clock, AddBlock(b, now)
  PROVE  /\ WorkByHeight'
         /\ (tip' = b /\ height(b) > height(tip)) \/ tip' = tip
<1> DEFINE p == prev(b)
<1>1. p \in all_blocks /\ height(b) = height(p) + 1
  BY AcceptedBlock DEF AddBlock
<1>2. ancestry[b] = ancestry[p] \cup {b} /\ all_blocks' \subseteq all_blocks \cup {b}
  <2>1. /\ ancestry[b] = ancestry[p] \cup {b}
        /\ all_blocks' = Retained(all_blocks \cup {b}, tip', blocks')
    BY AfterAddBlock
  <2> QED BY <2>1 DEF Retained
<1>3. \A x \in all_blocks' : \A a \in ancestry[x] :
        a = b \/ \E y \in all_blocks : a \in ancestry[y]
  BY <1>1, <1>2
<1>4. \A y \in all_blocks : \A c \in ancestry[y] :
        /\ branch_work[b] \in Nat
        /\ height(c) = height(b) => branch_work[c] = branch_work[b]
        /\ height(c) < height(b) => branch_work[c] < branch_work[b]
        /\ height(b) < height(c) => branch_work[b] < branch_work[c]
        /\ branch_work[c] \in Nat /\ height(c) \in Nat /\ height(b) \in Nat
  <2> SUFFICES ASSUME NEW y \in all_blocks, NEW c \in ancestry[y]
               PROVE  /\ branch_work[b] \in Nat
                      /\ height(c) = height(b) => branch_work[c] = branch_work[b]
                      /\ height(c) < height(b) => branch_work[c] < branch_work[b]
                      /\ height(b) < height(c) => branch_work[b] < branch_work[c]
                      /\ branch_work[c] \in Nat /\ height(c) \in Nat /\ height(b) \in Nat
    OBVIOUS
  <2>1. c \in Hash /\ height(c) \in Nat /\ height(b) \in Nat
    BY Constants DEF ForkInv, BranchShape
  <2>2. branch_work[c] \in Nat
    BY DEF WorkByHeight
  <2>3. /\ branch_work[b] \in Nat
        /\ height(c) = height(b) => branch_work[c] = branch_work[b]
        /\ height(c) < height(b) => branch_work[c] < branch_work[b]
        /\ height(c) > height(b) => branch_work[c] > branch_work[b]
    BY <1>1, WorkOfNewBlock
  <2> QED BY <2>1, <2>2, <2>3
<1>5. WorkByHeight'
  <2> SUFFICES ASSUME NEW x \in all_blocks', NEW y \in all_blocks',
                      NEW a \in ancestry[x], NEW c \in ancestry[y]
               PROVE  /\ branch_work[a] \in Nat
                      /\ height(a) = height(c) => branch_work[a] = branch_work[c]
                      /\ height(a) < height(c) => branch_work[a] < branch_work[c]
    BY DEF WorkByHeight, height
  <2>0. tip \in all_blocks /\ tip \in ancestry[tip]
    BY DEF ForkInv, ForkTypeOK, BranchShape
  <2>1. branch_work[b] \in Nat /\ height(b) \in Nat
    BY <1>4, <2>0
  <2>2. CASE a = b /\ c = b
    BY <2>1, <2>2
  <2>3. CASE a = b /\ c # b
    <3>1. PICK v \in all_blocks : c \in ancestry[v]
      BY <2>3, <1>3
    <3> QED BY <2>1, <2>3, <3>1, <1>4
  <2>4. CASE a # b /\ c = b
    <3>1. PICK u \in all_blocks : a \in ancestry[u]
      BY <2>4, <1>3
    <3> QED BY <2>1, <2>4, <3>1, <1>4
  <2>5. CASE a # b /\ c # b
    <3>1. PICK u \in all_blocks : a \in ancestry[u]
      BY <2>5, <1>3
    <3>2. PICK v \in all_blocks : c \in ancestry[v]
      BY <2>5, <1>3
    <3> QED BY <3>1, <3>2 DEF WorkByHeight
  <2> QED BY <2>2, <2>3, <2>4, <2>5
<1>6. (tip' = b /\ height(b) > height(tip)) \/ tip' = tip
  <2>1. \/ tip' = b /\ branch_work[b] > branch_work[tip]
        \/ tip' = tip
    BY AfterAddBlock
  <2>2. tip \in all_blocks /\ tip \in ancestry[tip]
    BY DEF ForkInv, ForkTypeOK, BranchShape
  <2> QED BY <2>1, <2>2, <1>4
<1> QED BY <1>5, <1>6

(* Blocks of whatever origin leave a template overtaken or on the tip. *)
LEMMA AddBlockMiningInv ==
  ASSUME SameDifficulty, MiningInv,
         NEW b \in Hash, NEW now \in Clock, AddBlock(b, now), UNCHANGED template
  PROVE  MiningInv'
<1>1. ForkInv'
  BY AddBlockForkInv DEF MiningInv
<1>2. /\ WorkByHeight'
      /\ (tip' = b /\ height(b) > height(tip)) \/ tip' = tip
  BY AddBlockWorkByHeight DEF MiningInv
<1>3. height(b) \in Nat /\ height(tip) \in Nat
  BY Constants DEF MiningInv, ForkInv, ForkTypeOK
<1>4. template # None => height(template.prev_hash) \in Nat
  BY Constants DEF MiningInv, TemplateInv
<1>5. TemplateInv'
  BY <1>2, <1>3, <1>4 DEF MiningInv, TemplateInv, height
<1> QED BY <1>1, <1>2, <1>5 DEF MiningInv

LEMMA IdleMiningInv ==
  ASSUME MiningInv, UNCHANGED <<all_blocks, chain_work, tip, blocks, template>>
  PROVE  MiningInv'
<1>1. ForkInv'
  BY DEF MiningInv, ForkInv, ForkTypeOK, BranchShape, WorkExact, SideBranchesPruned, MostWork,
         height, prev
<1>2. WorkByHeight' /\ TemplateInv'
  BY DEF MiningInv, WorkByHeight, TemplateInv, height
<1> QED BY <1>1, <1>2 DEF MiningInv

(* What submit_block offers is built on the tip when the height still fits. *)
LEMMA CurrentTemplateOnTip ==
  ASSUME BuiltOnParent, MiningInv, template # None,
         NEW b, b = hash_of(template.prev_hash, template.transactions, template.timestamp)
  PROVE  /\ b \in Hash
         /\ template.height = height(tip) => prev(b) = tip /\ height(b) = height(tip) + 1
  BY DEF BuiltOnParent, MiningInv, TemplateInv

LEMMA NextMiningInv ==
  SameDifficulty /\ BuiltOnParent /\ MiningInv /\ [MiningNext]_miningVars => MiningInv'
<1> SUFFICES ASSUME SameDifficulty, BuiltOnParent, MiningInv, [MiningNext]_miningVars
             PROVE  MiningInv'
  OBVIOUS
<1> USE DEF active, vars
<1>1. ASSUME NEW now \in Clock, MineBlock(now) PROVE MiningInv'
  <2>1. mine_block(now) \in Hash
    BY DEF mine_block, BuildBlock, BuiltOnParent, MiningInv, ForkInv, ForkTypeOK
  <2>2. UNCHANGED template /\ (AddBlock(mine_block(now), now) \/ UNCHANGED vars)
    BY <1>1 DEF MineBlock
  <2> QED BY <2>1, <2>2, AddBlockMiningInv, IdleMiningInv
<1>2. ASSUME NEW now \in Clock, get_block_template(now) PROVE MiningInv'
  <2>1. /\ UNCHANGED <<all_blocks, chain_work, tip, blocks>>
        /\ template'.prev_hash = tip /\ template'.height = height(tip)
    BY <1>2 DEF get_block_template
  <2>2. ForkInv'
    BY <2>1 DEF MiningInv, ForkInv, ForkTypeOK, BranchShape, WorkExact, SideBranchesPruned,
                MostWork, height, prev
  <2>3. WorkByHeight'
    BY <2>1 DEF MiningInv, WorkByHeight, height
  <2>4. tip \in Hash /\ height(tip) \in Nat
    BY Constants DEF MiningInv, ForkInv, ForkTypeOK
  <2>5. TemplateInv'
    BY <2>1, <2>4 DEF TemplateInv, height
  <2> QED BY <2>2, <2>3, <2>5 DEF MiningInv
<1>3. ASSUME NEW now \in Clock, submit_block(now) PROVE MiningInv'
  <2>1. PICK b : b = hash_of(template.prev_hash, template.transactions, template.timestamp)
    OBVIOUS
  <2>2. template # None /\ UNCHANGED template /\ (AddBlock(b, now) \/ UNCHANGED vars)
    BY <1>3, <2>1 DEF submit_block
  <2> QED BY <2>1, <2>2, CurrentTemplateOnTip, AddBlockMiningInv, IdleMiningInv
<1>4. ASSUME NEW b \in PeerBlock, NEW now \in Clock, PeerAddsBlock(b, now) PROVE MiningInv'
  BY <1>4, MiningAssumption, AddBlockMiningInv DEF PeerAddsBlock
<1>5. ASSUME NEW t \in Txid, PeerSubmits(t) PROVE MiningInv'
  BY <1>5, IdleMiningInv DEF PeerSubmits, SubmitTransaction
<1>6. CASE UNCHANGED miningVars
  BY <1>6, IdleMiningInv DEF miningVars
<1> QED BY <1>1, <1>2, <1>3, <1>4, <1>5, <1>6 DEF MiningNext

(* A block on the tip is heavier than every known block: it is new, and add_block
   switches to it.                                                          *)
LEMMA AcceptedOnTip ==
  ASSUME BuiltOnParent, MiningInv, NEW now \in Clock, submit_block(now),
         answer'.result = "accepted"
  PROVE  tip' = answer'.block
<1>1. PICK b : b = hash_of(template.prev_hash, template.transactions, template.timestamp)
  OBVIOUS
<1>2. /\ template # None /\ template.height = height(tip) /\ answer'.block = b
      /\ AddBlock(b, now) \/ b \in all_blocks
  BY <1>1 DEF submit_block
<1>3. b \in Hash /\ prev(b) = tip /\ height(b) = height(tip) + 1
  BY <1>1, <1>2, CurrentTemplateOnTip
<1>4. tip \in Hash /\ branch_work[tip] \in Nat /\ height(tip) \in Nat
  BY Constants DEF MiningInv, ForkInv, ForkTypeOK, WorkExact
<1>5. branch_work[b] \in Nat /\ branch_work[b] > branch_work[tip]
  <2>1. height(b) # 0
    BY <1>3, <1>4
  <2> QED BY <1>3, <1>4, <2>1, AncestryUnfolds, WorkPositive
<1>6. b \notin all_blocks
  BY <1>4, <1>5 DEF MiningInv, ForkInv, MostWork
<1>7. tip' = b
  <2>1. AddBlock(b, now) /\ ForkInv
    BY <1>2, <1>6 DEF MiningInv
  <2>2. tip' = b \/ branch_work[b] <= branch_work[tip]
    BY <2>1, <1>3, AfterAddBlock
  <2> QED BY <2>2, <1>4, <1>5
<1> QED BY <1>2, <1>7

(* Accepted means on the tip, for every block tree, whoever else mines and
   whatever peers send (submit_block), as long as the blocks of one height have
   one difficulty: the height that submit_block compares then tells whether
   the tip has changed.                                                     *)
THEOREM AcceptedBlocksAreTips ==
  ASSUME SameDifficulty, BuiltOnParent
  PROVE  MiningSpec => AcceptedIsTip
<1>1. MiningInit => MiningInv
  <2> SUFFICES ASSUME MiningInit PROVE MiningInv
    OBVIOUS
  <2>1. TemplateInv
    BY DEF MiningInit, TemplateInv
  <2> QED BY <2>1, InitForkInv, InitWorkByHeight DEF MiningInit, MiningInv
<1>2. MiningInv /\ [MiningNext]_miningVars => MiningInv'
  BY NextMiningInv
<1>3. MiningInv /\ [MiningNext]_miningVars =>
        [answer' # answer /\ answer'.result = "accepted" => tip' = answer'.block]_miningVars
  <2> SUFFICES ASSUME MiningInv, MiningNext, answer' # answer, answer'.result = "accepted"
               PROVE  tip' = answer'.block
    OBVIOUS
  <2>1. PICK now \in Clock : submit_block(now)
    BY DEF MiningNext, MineBlock, get_block_template, PeerAddsBlock, PeerSubmits
  <2> QED BY <2>1, AcceptedOnTip
<1> QED BY <1>1, <1>2, <1>3, PTL DEF MiningSpec, AcceptedIsTip
=============================================================================
