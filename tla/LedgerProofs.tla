---------------------------- MODULE LedgerProofs ----------------------------
(***************************************************************************)
(* The ledger of Chain, for every tree of blocks and every set of          *)
(* transactions, in four steps.                                            *)
(*                                                                         *)
(* 1. ApplyAll leads through the UTXO sets after 0, 1, 2, ... transactions *)
(*    (Passes), so what one transaction does carries over to a body.       *)
(* 2. A valid body keeps a branch sound (SoundExtends).  SoundBranch is    *)
(*    about constants: it holds for a block once and for all when the      *)
(*    block is accepted, through every reorganisation after it.            *)
(* 3. PoolInv holds without further hypotheses; LedgerInv, which says that *)
(*    all known branches are sound, if no coinbase of a branch is repeated.*)
(* 4. Sums of outputs are added up along a body (BlockCirculates), which   *)
(*    makes every AddBlock a step of Supply.                               *)
(***************************************************************************)
EXTENDS ChainProofs, SumLemmas

-----------------------------------------------------------------------------
(* What ApplyAll computes: the UTXO sets after 0, 1, 2, ... transactions. *)

(* The states that a list of transactions leads through. *)
Passes(g, us, txs) ==
  /\ g[0] = us
  /\ \A k \in 1..Len(txs) : g[k] = apply_transaction(g[k - 1], txs[k])

(* The recursion of FoldLeft has a solution: one for the positions up to m
   extends to m + 1.                                                       *)
Folds(h, us, txs, m) ==
  h = [s \in SUBSET (1..m) |->
         IF s = {} THEN us ELSE apply_transaction(h[s \ {Max(s)}], txs[Max(s)])]

LEMMA FoldsExtend ==
  ASSUME NEW us, NEW txs, NEW m \in Nat, NEW h, Folds(h, us, txs, m)
  PROVE  \E g : Folds(g, us, txs, m + 1)
<1> DEFINE g == [s \in SUBSET (1..m + 1) |->
                   IF m + 1 \in s THEN apply_transaction(h[s \ {m + 1}], txs[m + 1]) ELSE h[s]]
<1>1. \A s \in SUBSET (1..m + 1) : s # {} => Max(s) \in s /\ \A y \in s : y <= Max(s)
  <2> HIDE DEF g
  <2>1. m + 1 \in Nat
    OBVIOUS
  <2> QED BY <2>1, MaxOfPositions
<1>2. \A s \in SUBSET (1..m + 1) :
        g[s] = IF s = {} THEN us ELSE apply_transaction(g[s \ {Max(s)}], txs[Max(s)])
  <2> SUFFICES ASSUME NEW s \in SUBSET (1..m + 1)
               PROVE g[s] = IF s = {} THEN us
                            ELSE apply_transaction(g[s \ {Max(s)}], txs[Max(s)])
    OBVIOUS
  <2>1. CASE m + 1 \in s
    <3>1. Max(s) = m + 1
      <4>1. Max(s) \in 1..m+1 /\ m + 1 <= Max(s)
        BY <1>1, <2>1
      <4> QED BY <4>1
    <3>2. s \ {m + 1} \in SUBSET (1..m + 1) /\ m + 1 \notin s \ {m + 1}
      OBVIOUS
    <3>3. g[s \ {m + 1}] = h[s \ {m + 1}]
      BY <3>2, Zenon
    <3>4. g[s] = apply_transaction(h[s \ {m + 1}], txs[m + 1])
      BY <2>1, Zenon
    <3> HIDE DEF g
    <3> QED BY <2>1, <3>1, <3>3, <3>4, Zenon
  <2>2. CASE m + 1 \notin s
    <3>1. s \in SUBSET (1..m)
      <4> SUFFICES ASSUME NEW x \in s PROVE x \in 1..m
        OBVIOUS
      <4>1. x \in 1..m + 1 /\ x # m + 1
        BY <2>2
      <4> QED BY <4>1
    <3>2. h[s] = IF s = {} THEN us ELSE apply_transaction(h[s \ {Max(s)}], txs[Max(s)])
      BY <3>1, Zenon DEF Folds
    <3>3. g[s] = h[s]
      BY <2>2, Zenon
    <3>4. g[s \ {Max(s)}] = h[s \ {Max(s)}]
      <4>1. s \ {Max(s)} \in SUBSET (1..m + 1) /\ m + 1 \notin s \ {Max(s)}
        BY <2>2
      <4> QED BY <4>1, Zenon
    <3> HIDE DEF g
    <3> QED BY <3>2, <3>3, <3>4, Zenon
  <2> QED BY <2>1, <2>2
<1>3. Folds(g, us, txs, m + 1)
  <2>1. g = [s \in SUBSET (1..m + 1) |-> g[s]]
    BY Zenon
  <2> HIDE DEF g
  <2> QED BY <1>2, <2>1, Zenon DEF Folds
<1> QED BY <1>3

LEMMA FoldsExist ==
  ASSUME NEW us, NEW txs
  PROVE  \A m \in Nat : \E h : Folds(h, us, txs, m)
<1> DEFINE Good == {m \in Nat : \E h : Folds(h, us, txs, m)}
<1>1. 0 \in Good
  <2>1. \A s \in SUBSET (1..0) : s = {}
    OBVIOUS
  <2>2. Folds([s \in SUBSET (1..0) |-> us], us, txs, 0)
    BY <2>1, Zenon DEF Folds
  <2> QED BY <2>2
<1>2. \A m \in Nat : m \in Good => m + 1 \in Good
  BY FoldsExtend
<1> HIDE DEF Good
<1>3. \A m \in Nat : m \in Good
  BY <1>1, <1>2, NatSetInduction
<1> QED BY <1>3 DEF Good

(* ApplyAll is where a solution ends. *)
LEMMA ApplyAllFolds ==
  ASSUME NEW us, NEW S, NEW txs \in Seq(S)
  PROVE  \E h : Folds(h, us, txs, Len(txs)) /\ ApplyAll(us, txs) = h[1..Len(txs)]
<1>1. DOMAIN txs = 1..Len(txs) /\ Len(txs) \in Nat
  OBVIOUS
<1>2. PICK it : Folds(it, us, txs, Len(txs))
  BY <1>1, FoldsExist
<1>3. it = [s \in SUBSET (DOMAIN txs) |->
              IF s = {} THEN us ELSE apply_transaction(it[s \ {Max(s)}], txs[Max(s)])]
  BY <1>1, <1>2, Zenon DEF Folds
<1>4. \E h : /\ h = [s \in SUBSET (DOMAIN txs) |->
                       IF s = {} THEN us ELSE apply_transaction(h[s \ {Max(s)}], txs[Max(s)])]
             /\ ApplyAll(us, txs) = h[DOMAIN txs]
  BY <1>3, Zenon DEF ApplyAll, FoldLeft, MapThenFoldSet
<1> QED BY <1>1, <1>4, Zenon DEF Folds

(* On the first k positions, a solution goes through the states. *)
LEMMA FoldsPass ==
  ASSUME NEW us, NEW txs, NEW m \in Nat, NEW h, Folds(h, us, txs, m)
  PROVE  /\ h[1..0] = us
         /\ \A k \in 1..m : h[1..k] = apply_transaction(h[1..k - 1], txs[k])
<1>1. h[1..0] = us
  <2>1. 1..0 = {} /\ {} \in SUBSET (1..m)
    OBVIOUS
  <2> QED BY <2>1, Zenon DEF Folds
<1>2. ASSUME NEW k \in 1..m
      PROVE  h[1..k] = apply_transaction(h[1..k - 1], txs[k])
  <2>1. 1..k \in SUBSET (1..m) /\ 1..k # {} /\ k \in Nat
    OBVIOUS
  <2>2. Max(1..k) \in 1..k /\ \A y \in 1..k : y <= Max(1..k)
    BY <2>1, MaxOfPositions
  <2>3. Max(1..k) = k
    <3>1. k \in 1..k
      BY <2>1
    <3> QED BY <2>2, <3>1
  <2>4. (1..k) \ {k} = 1..k - 1
    OBVIOUS
  <2>5. h[1..k] = apply_transaction(h[(1..k) \ {Max(1..k)}], txs[Max(1..k)])
    BY <2>1, Zenon DEF Folds
  <2> QED BY <2>3, <2>4, <2>5
<1> QED BY <1>1, <1>2

(* The states a list of transactions leads through: state k is what the first
   k transactions leave.                                                   *)
LEMMA ApplyAllPasses ==
  ASSUME NEW us, NEW S, NEW txs \in Seq(S)
  PROVE  \E g : /\ Passes(g, us, txs)
                /\ ApplyAll(us, txs) = g[Len(txs)]
                /\ \A k \in 0..Len(txs) : ApplyAll(us, SubSeq(txs, 1, k)) = g[k]
<1> DEFINE n == Len(txs)
<1>1. n \in Nat
  OBVIOUS
<1>2. PICK h : Folds(h, us, txs, n) /\ ApplyAll(us, txs) = h[1..n]
  BY ApplyAllFolds
<1> DEFINE g == [k \in 0..n |-> h[1..k]]
<1>3. Passes(g, us, txs)
  <2>1. h[1..0] = us /\ \A k \in 1..n : h[1..k] = apply_transaction(h[1..k - 1], txs[k])
    BY <1>1, <1>2, FoldsPass
  <2>2. \A k \in 1..n : k \in 0..n /\ k - 1 \in 0..n /\ 0 \in 0..n
    OBVIOUS
  <2>3. g[0] = us
    BY <1>1, <2>1
  <2>4. \A k \in 1..n : g[k] = h[1..k] /\ g[k - 1] = h[1..k - 1]
    BY <2>2
  <2> HIDE DEF g, n
  <2>5. \A k \in 1..n : g[k] = apply_transaction(g[k - 1], txs[k])
    BY <2>1, <2>4
  <2> QED BY <2>3, <2>5 DEF Passes, n
<1>4. ASSUME NEW k \in 0..n PROVE ApplyAll(us, SubSeq(txs, 1, k)) = g[k]
  <2> DEFINE part == SubSeq(txs, 1, k)
  <2>1. part \in Seq(S) /\ Len(part) = k /\ \A i \in 1..k : part[i] = txs[i]
    OBVIOUS
  <2> HIDE DEF part
  <2>2. PICK f : Folds(f, us, part, k) /\ ApplyAll(us, part) = f[1..k]
    BY <2>1, ApplyAllFolds
  <2>3. f[1..0] = us /\ \A i \in 1..k : f[1..i] = apply_transaction(f[1..i - 1], part[i])
    <3>1. k \in Nat
      OBVIOUS
    <3>2. Folds(f, us, part, k)
      BY <2>2
    <3> HIDE DEF g, n
    <3> QED BY <3>1, <3>2, FoldsPass
  <2> DEFINE Same == {i \in 0..k : f[1..i] = g[i]}
  <2>4. 0 \in Same
    BY <1>3, <2>3 DEF Passes
  <2>5. \A i \in 0 .. k - 1 : i \in Same => i + 1 \in Same
    <3> HIDE DEF g
    <3> SUFFICES ASSUME NEW i \in 0 .. k - 1, f[1..i] = g[i] PROVE f[1..i + 1] = g[i + 1]
      OBVIOUS
    <3>1. i + 1 \in 1..k /\ i + 1 \in 1..n /\ (i + 1) - 1 = i
      OBVIOUS
    <3> HIDE DEF n
    <3>2. f[1..i + 1] = apply_transaction(f[1..i], part[i + 1]) /\ part[i + 1] = txs[i + 1]
      BY <2>1, <2>3, <3>1
    <3>3. g[i + 1] = apply_transaction(g[i], txs[i + 1])
      BY <1>3, <3>1 DEF Passes, n
    <3> QED BY <3>2, <3>3
  <2> HIDE DEF Same
  <2>6. \A i \in 0..k : i \in Same
    BY <2>4, <2>5, RangeInduction
  <2>7. f[1..k] = g[k]
    <3> HIDE DEF g
    <3> QED BY <2>6 DEF Same
  <2> QED BY <2>2, <2>7 DEF part
<1>5. ApplyAll(us, txs) = g[n]
  BY <1>1, <1>2
<1> HIDE DEF g
<1> QED BY <1>3, <1>4, <1>5

-----------------------------------------------------------------------------
(* One transaction. *)
LEMMA ApplyOne ==
  ASSUME NEW us, NEW t
  PROVE  /\ DOMAIN apply_transaction(us, t).utxos = (DOMAIN us.utxos \ Spends(t)) \cup Creates(t)
         /\ \A o \in Creates(t) : apply_transaction(us, t).utxos[o] = tx[t].outputs[o[2]]
         /\ \A o \in DOMAIN us.utxos \ Spends(t) :
              o \notin Creates(t) => apply_transaction(us, t).utxos[o] = us.utxos[o]
         /\ tx[t].is_coinbase =>
              apply_transaction(us, t).coinbase_heights
                = Insert(us.coinbase_heights, t, tx[t].coinbase_extra)
         /\ ~ tx[t].is_coinbase =>
              apply_transaction(us, t).coinbase_heights = us.coinbase_heights
  BY DEF apply_transaction

(* A genuine UTXO set stays genuine. *)
LEMMA ApplyGenuine ==
  ASSUME NEW us, NEW t, Genuine(us)
  PROVE  /\ Genuine(apply_transaction(us, t))
         /\ DOMAIN us.coinbase_heights \subseteq DOMAIN apply_transaction(us, t).coinbase_heights
         /\ tx[t].is_coinbase => t \in DOMAIN apply_transaction(us, t).coinbase_heights
<1> DEFINE r == apply_transaction(us, t)
<1>1. /\ DOMAIN r.utxos = (DOMAIN us.utxos \ Spends(t)) \cup Creates(t)
      /\ \A o \in Creates(t) : r.utxos[o] = tx[t].outputs[o[2]]
      /\ \A o \in DOMAIN us.utxos \ Spends(t) : o \notin Creates(t) => r.utxos[o] = us.utxos[o]
  BY ApplyOne
<1>2. /\ tx[t].is_coinbase =>
           r.coinbase_heights = Insert(us.coinbase_heights, t, tx[t].coinbase_extra)
      /\ ~ tx[t].is_coinbase => r.coinbase_heights = us.coinbase_heights
  BY ApplyOne
<1> HIDE DEF r
<1>3. \A o \in Creates(t) : o[1] = t
  BY DEF Creates
<1>4. \A o \in DOMAIN r.utxos : r.utxos[o] = tx[o[1]].outputs[o[2]]
  BY <1>1, <1>3 DEF Genuine
<1>5. CASE tx[t].is_coinbase
  <2>1. r.coinbase_heights = Insert(us.coinbase_heights, t, tx[t].coinbase_extra)
    BY <1>2, <1>5
  <2>2. /\ DOMAIN r.coinbase_heights = {t} \cup DOMAIN us.coinbase_heights
        /\ r.coinbase_heights[t] = tx[t].coinbase_extra
        /\ \A c \in DOMAIN us.coinbase_heights \ {t} :
             r.coinbase_heights[c] = us.coinbase_heights[c]
    BY <2>1 DEF Insert
  <2> QED BY <1>4, <2>2 DEF Genuine, r
<1>6. CASE ~ tx[t].is_coinbase
  BY <1>2, <1>4, <1>6 DEF Genuine, r
<1> QED BY <1>5, <1>6

(* What the first k transactions of a list spend and create. *)
SpentUpto(txs, k) == UNION {Spends(txs[j]) : j \in 1..k}
CreatedUpto(txs, k) == UNION {Creates(txs[j]) : j \in 1..k}

(* No transaction of a list spends what one of them creates. *)
Independent(txs) ==
  \A j, k \in 1..Len(txs) : Spends(txs[j]) \cap Creates(txs[k]) = {}

(* The effect of the first k transactions of such a list. *)
Effect(us, txs, k, after) ==
  /\ DOMAIN after.utxos = (DOMAIN us.utxos \ SpentUpto(txs, k)) \cup CreatedUpto(txs, k)
  /\ Genuine(after)
  /\ DOMAIN us.coinbase_heights \subseteq DOMAIN after.coinbase_heights
  /\ \A j \in 1..k : tx[txs[j]].is_coinbase => txs[j] \in DOMAIN after.coinbase_heights

LEMMA BodyEffect ==
  ASSUME NEW us, NEW S, NEW txs \in Seq(S), NEW g, Passes(g, us, txs), Genuine(us), Independent(txs)
  PROVE  \A k \in 0..Len(txs) : Effect(us, txs, k, g[k])
<1> DEFINE n == Len(txs)
<1>0. n \in Nat /\ \A j, k \in 1..n : Spends(txs[j]) \cap Creates(txs[k]) = {}
  BY DEF Independent
<1> HIDE DEF n
<1> DEFINE Sp(k) == SpentUpto(txs, k)
           Cr(k) == CreatedUpto(txs, k)
           Good == {k \in 0..n :
             /\ DOMAIN g[k].utxos = (DOMAIN us.utxos \ Sp(k)) \cup Cr(k)
             /\ Genuine(g[k])
             /\ DOMAIN us.coinbase_heights \subseteq DOMAIN g[k].coinbase_heights
             /\ \A j \in 1..k : tx[txs[j]].is_coinbase =>
                  txs[j] \in DOMAIN g[k].coinbase_heights}
<1>1. 0 \in Good
  <2>1. g[0] = us /\ 1..0 = {} /\ 0 \in 0..n
    BY <1>0 DEF Passes
  <2>2. Sp(0) = {} /\ Cr(0) = {}
    BY <2>1 DEF SpentUpto, CreatedUpto
  <2> QED BY <2>1, <2>2
<1>2. ASSUME NEW k \in 0 .. n - 1, k \in Good PROVE k + 1 \in Good
  <2>1. k + 1 \in 1..n /\ k + 1 \in 0..n /\ (k + 1) - 1 = k /\ 1..k + 1 = (1..k) \cup {k + 1}
        /\ \A j \in 1..k : j \in 1..n
    BY <1>0
  <2> DEFINE t == txs[k + 1]
  <2>2. g[k + 1] = apply_transaction(g[k], t)
    BY <2>1 DEF Passes, n
  <2>3. Sp(k + 1) = Sp(k) \cup Spends(t) /\ Cr(k + 1) = Cr(k) \cup Creates(t)
    BY <2>1 DEF SpentUpto, CreatedUpto
  <2>4. \A j \in 1..k : Spends(t) \cap Creates(txs[j]) = {}
    BY <1>0, <2>1
  <2>5. Spends(t) \cap Cr(k) = {} /\ Spends(t) \cap Creates(t) = {}
    <3>1. Spends(t) \cap Cr(k) = {}
      BY <2>4 DEF CreatedUpto
    <3>2. Spends(t) \cap Creates(t) = {}
      BY <1>0, <2>1
    <3> QED BY <3>1, <3>2
  <2>6. \A j \in 1..k + 1 : j \in 1..k \/ j = k + 1
    BY <2>1
  <2> HIDE DEF Sp, Cr
  <2>7. DOMAIN g[k].utxos = (DOMAIN us.utxos \ Sp(k)) \cup Cr(k) /\ Genuine(g[k])
        /\ DOMAIN us.coinbase_heights \subseteq DOMAIN g[k].coinbase_heights
        /\ \A j \in 1..k : tx[txs[j]].is_coinbase => txs[j] \in DOMAIN g[k].coinbase_heights
    BY <1>2
  <2> HIDE DEF t, Good
  <2>8. DOMAIN g[k + 1].utxos = (DOMAIN g[k].utxos \ Spends(t)) \cup Creates(t)
    BY <2>2, ApplyOne
  <2>9. DOMAIN g[k + 1].utxos = (DOMAIN us.utxos \ Sp(k + 1)) \cup Cr(k + 1)
    BY <2>3, <2>5, <2>7, <2>8
  <2>10. /\ Genuine(g[k + 1])
         /\ DOMAIN g[k].coinbase_heights \subseteq DOMAIN g[k + 1].coinbase_heights
         /\ tx[t].is_coinbase => t \in DOMAIN g[k + 1].coinbase_heights
    BY <2>2, <2>7, ApplyGenuine
  <2>11. \A j \in 1..k + 1 : tx[txs[j]].is_coinbase => txs[j] \in DOMAIN g[k + 1].coinbase_heights
    BY <2>6, <2>7, <2>10 DEF t
  <2> QED BY <2>1, <2>7, <2>9, <2>10, <2>11 DEF Good
<1> HIDE DEF Good
<1>3. \A k \in 0..n : k \in Good
  BY <1>0, <1>1, <1>2, RangeInduction
<1> QED BY <1>3 DEF Good, n, Effect

-----------------------------------------------------------------------------
(* The sums over the outputs of a transaction. *)
LEMMA OutputSumType ==
  ASSUME NEW S, NEW outs \in Seq(S), \A i \in DOMAIN outs : outs[i].value \in Nat
  PROVE  /\ OutputSum(outs) \in Nat
         /\ DOMAIN outs = {} => OutputSum(outs) = 0
         /\ \A i \in DOMAIN outs : outs[i].value <= OutputSum(outs)
<1> DEFINE f == [i \in DOMAIN outs |-> outs[i].value]
<1>1. OutputSum(outs) = SumFunctionOnSet(f, DOMAIN outs)
  BY DEF OutputSum, SumFunction
<1>2. IsFiniteSet(DOMAIN outs)
  <2>1. DOMAIN outs = 1..Len(outs) /\ Len(outs) \in Nat
    OBVIOUS
  <2> QED BY <2>1, FS_Interval
<1>3. \A i \in DOMAIN outs : f[i] = outs[i].value /\ f[i] \in Nat /\ f[i] \in Int
  OBVIOUS
<1> HIDE DEF f
<1>4. SumFunctionOnSet(f, DOMAIN outs) \in Nat
  BY <1>2, <1>3, SumType
<1>5. DOMAIN outs = {} => SumFunctionOnSet(f, DOMAIN outs) = 0
  BY <1>2, SumUnfolds
<1>6. ASSUME NEW i \in DOMAIN outs PROVE outs[i].value <= SumFunctionOnSet(f, DOMAIN outs)
  <2>1. SumFunctionOnSet(f, DOMAIN outs) = f[i] + SumFunctionOnSet(f, DOMAIN outs \ {i})
    BY <1>2, <1>3, SumRemoves
  <2>2. IsFiniteSet(DOMAIN outs \ {i}) /\ \A j \in DOMAIN outs \ {i} : f[j] \in Nat
    BY <1>2, <1>3, FS_Subset
  <2>3. SumFunctionOnSet(f, DOMAIN outs \ {i}) \in Nat
    BY <2>2, SumType
  <2> QED BY <1>3, <2>1, <2>3
<1> QED BY <1>1, <1>4, <1>5, <1>6

(* The types of a transaction's fields. *)
LEMMA TxFields ==
  ASSUME NEW t \in Txid
  PROVE  /\ tx[t].inputs \in Seq(Outpoint)
         /\ tx[t].outputs \in Seq(Output)
         /\ \A i \in DOMAIN tx[t].outputs : tx[t].outputs[i].value \in Nat
         /\ tx[t].coinbase_extra \in Nat
         /\ tx[t].size \in Nat \ {0}
         /\ \A o \in Creates(t) : o[1] = t /\ o[2] \in DOMAIN tx[t].outputs /\ o = <<o[1], o[2]>>
<1>1. IsTransaction(tx[t])
  BY TxAssumption
<1>2. /\ tx[t].inputs \in Seq(Outpoint) /\ tx[t].outputs \in Seq(Output)
      /\ tx[t].coinbase_extra \in Nat /\ tx[t].size \in Nat \ {0}
  BY <1>1 DEF IsTransaction
<1>3. \A i \in DOMAIN tx[t].outputs : tx[t].outputs[i] \in Output
  BY <1>2
<1>4. \A i \in DOMAIN tx[t].outputs : tx[t].outputs[i].value \in Nat
  BY <1>3 DEF Output
<1> QED BY <1>2, <1>4 DEF Creates

(* A valid transaction that creates something spends something. *)
LEMMA CreatorSpends ==
  ASSUME NEW us, NEW t \in Txid, NEW magic, NEW h, ValidTx(us, t, magic, h),
         DOMAIN tx[t].outputs # {}
  PROVE  DOMAIN tx[t].inputs # {}
<1> SUFFICES ASSUME DOMAIN tx[t].inputs = {} PROVE FALSE
  OBVIOUS
<1>1. InputSum(us, t) = 0
  <2> DEFINE ins == [i \in DOMAIN tx[t].inputs |-> us.utxos[tx[t].inputs[i]]]
             f == [i \in DOMAIN ins |-> ins[i].value]
  <2>1. DOMAIN f = {}
    OBVIOUS
  <2>2. InputSum(us, t) = SumFunctionOnSet(f, DOMAIN f)
    BY DEF InputSum, OutputSum, SumFunction
  <2> HIDE DEF f
  <2>3. IsFiniteSet({})
    BY FS_EmptySet
  <2>4. SumFunctionOnSet(f, {}) = 0
    BY <2>3, SumUnfolds
  <2> QED BY <2>1, <2>2, <2>4
<1>2. PICK i \in DOMAIN tx[t].outputs : TRUE
  OBVIOUS
<1>3. OutputSum(tx[t].outputs) \in Nat /\ tx[t].outputs[i].value <= OutputSum(tx[t].outputs)
      /\ tx[t].outputs[i].value \in Nat
  BY <1>2, TxFields, OutputSumType
<1>4. tx[t].outputs[i].value >= DUST_LIMIT_ARKES /\ InputSum(us, t) >= OutputSum(tx[t].outputs)
  BY <1>2 DEF ValidTx
<1>5. DUST_LIMIT_ARKES \in Nat /\ DUST_LIMIT_ARKES # 0
  BY LedgerConstants
<1> QED BY <1>1, <1>3, <1>4, <1>5

-----------------------------------------------------------------------------
(* A block that passed validation on top of its parent's branch. *)
ValidOn(b, minted, magic) ==
  LET p == prev(b)
      txs == Tail(block[b].transactions)
  IN /\ ancestry[b] = ancestry[p] \cup {b}
     /\ \A a \in ancestry[p] : a \in Hash /\ height(a) < height(b)
     /\ ValidBlock(b)
     /\ ValidSubsidy(replay[p], minted, Head(block[b].transactions), txs, magic, height(b))
     /\ ValidInOrder(replay[p], txs, magic, height(b))

Body(b) == block[b].transactions

(* Its first transaction is a coinbase; the others are valid against the parent's
   UTXO set and against the one that those before them leave.                 *)
LEMMA BodyIsValid ==
  ASSUME NEW b \in Hash, NEW minted, NEW magic, ValidOn(b, minted, magic)
  PROVE  /\ Body(b) \in Seq(Txid) /\ Len(Body(b)) \in Nat \ {0}
         /\ \A k \in 1..Len(Body(b)) : Body(b)[k] \in Txid
         /\ tx[Body(b)[1]].is_coinbase
         /\ Tail(Body(b)) \in Seq(Txid) /\ Len(Tail(Body(b))) = Len(Body(b)) - 1
         /\ \A k \in 2..Len(Body(b)) :
              /\ k - 1 \in 1..Len(Tail(Body(b))) /\ Tail(Body(b))[k - 1] = Body(b)[k]
              /\ ValidTx(replay[prev(b)], Body(b)[k], magic, height(b))
              /\ ValidTx(ApplyAll(replay[prev(b)], SubSeq(Tail(Body(b)), 1, (k - 1) - 1)),
                         Body(b)[k], magic, height(b))
<1> DEFINE T == Body(b)
           L == Tail(T)
<1>1. T \in Seq(Txid)
  BY BlockAssumption DEF IsBlock, Body
<1>2. T # <<>> /\ tx[Head(T)].is_coinbase
  BY DEF ValidOn, ValidBlock, Body
<1> HIDE DEF T
<1>3. Len(T) \in Nat \ {0} /\ Head(T) = T[1] /\ L \in Seq(Txid) /\ Len(L) = Len(T) - 1
      /\ DOMAIN L = 1..Len(L)
  BY <1>1, <1>2
<1>4. \A k \in 1..Len(T) : T[k] \in Txid
  BY <1>1
<1>5. \A k \in 2..Len(T) : k - 1 \in 1..Len(L) /\ L[k - 1] = T[k]
  BY <1>1, <1>2
<1>6. /\ \A i \in DOMAIN L : ValidTx(replay[prev(b)], L[i], magic, height(b))
      /\ \A i \in DOMAIN L :
           ValidTx(ApplyAll(replay[prev(b)], SubSeq(L, 1, i - 1)), L[i], magic, height(b))
  BY DEF ValidOn, ValidSubsidy, ValidInOrder, T, Body
<1> HIDE DEF L
<1>7. \A k \in 2..Len(T) :
              /\ k - 1 \in 1..Len(L) /\ L[k - 1] = T[k]
              /\ ValidTx(replay[prev(b)], T[k], magic, height(b))
              /\ ValidTx(ApplyAll(replay[prev(b)], SubSeq(L, 1, (k - 1) - 1)),
                         T[k], magic, height(b))
  BY <1>3, <1>5, <1>6
<1> QED BY <1>1, <1>2, <1>3, <1>4, <1>7 DEF L, T

(* The places of a chain. *)
LEMMA PlaceFields ==
  ASSUME NEW C, C \subseteq Hash, NEW q \in PlacedIn(C)
  PROVE  /\ q[1] \in C /\ q[1] \in Hash /\ q[2] \in 1..Len(Body(q[1])) /\ q = <<q[1], q[2]>>
         /\ TxidAt(q) = Body(q[1])[q[2]] /\ TxidAt(q) \in Txid
         /\ TxidAt(q) \in ToSet(block[q[1]].transactions)
<1>0. PICK a \in C : q \in {<<a, k>> : k \in DOMAIN block[a].transactions}
  BY DEF PlacedIn
<1>1. PICK k \in DOMAIN block[a].transactions : q = <<a, k>>
  BY <1>0
<1>2. a \in Hash /\ block[a].transactions \in Seq(Txid)
  BY BlockAssumption DEF IsBlock
<1>3. k \in 1..Len(block[a].transactions) /\ block[a].transactions[k] \in Txid
  BY <1>2
<1>4. TxidAt(q) = block[a].transactions[k]
  BY <1>1 DEF TxidAt
<1> QED BY <1>1, <1>2, <1>3, <1>4 DEF Body, ToSet

LEMMA PlacesExtend ==
  ASSUME NEW C, NEW b \in Hash
  PROVE  /\ PlacedIn(C \cup {b}) = PlacedIn(C) \cup {<<b, k>> : k \in 1..Len(Body(b))}
         /\ \A k \in 1..Len(Body(b)) : TxidAt(<<b, k>>) = Body(b)[k]
<1>1. block[b].transactions \in Seq(Txid)
  BY BlockAssumption DEF IsBlock
<1>2. DOMAIN block[b].transactions = 1..Len(Body(b))
  BY <1>1 DEF Body
<1>3. PlacedIn(C \cup {b}) = PlacedIn(C) \cup {<<b, k>> : k \in DOMAIN block[b].transactions}
  BY DEF PlacedIn
<1> QED BY <1>2, <1>3 DEF TxidAt, Body

(* An accepted body does not collide with the branch below it: its transactions
   spend what the parent left unspent, nothing twice, and create nothing that
   was created before.                                                     *)
LEMMA BodyIsFresh ==
  ASSUME CoinbasesDistinct, NEW b \in Hash, NEW minted, NEW magic, ValidOn(b, minted, magic),
         SoundBranch(prev(b)),
         NEW C, C = ancestry[prev(b)]
  PROVE  /\ \A k \in 2..Len(Body(b)) : ~ tx[Body(b)[k]].is_coinbase
         /\ \A k \in 1..Len(Body(b)) : Spends(Body(b)[k]) \subseteq DOMAIN replay[prev(b)].utxos
         /\ \A k \in 1..Len(Body(b)) : Creates(Body(b)[k]) # {} =>
              \A q \in PlacedIn(C) : TxidAt(q) # Body(b)[k]
         /\ \A k \in 1..Len(Body(b)) : Creates(Body(b)[k]) \cap CreatedOn(C) = {}
         /\ \A j, k \in 1..Len(Body(b)) : Spends(Body(b)[j]) \cap Creates(Body(b)[k]) = {}
<1> DEFINE T == Body(b)
           n == Len(T)
           us == replay[prev(b)]
<1>1. /\ n \in Nat \ {0} /\ \A k \in 1..n : T[k] \in Txid
      /\ tx[T[1]].is_coinbase
      /\ \A k \in 2..n : ValidTx(us, T[k], magic, height(b))
  BY BodyIsValid
<1>2. /\ SpentOnceOn(C) /\ DOMAIN us.utxos = CreatedOn(C) \ SpentOn(C)
      /\ CoinbasesRecorded(C, us)
  BY DEF SoundBranch
<1>3. C \subseteq Hash /\ (\A a \in C : height(a) < height(b)) /\ ancestry[b] = C \cup {b}
  BY DEF ValidOn
<1> HIDE DEF T, us
<1>4. \A k \in 2..n : ToSet(tx[T[k]].inputs) \subseteq DOMAIN us.utxos
  <2> SUFFICES ASSUME NEW k \in 2..n, NEW o \in ToSet(tx[T[k]].inputs) PROVE o \in DOMAIN us.utxos
    OBVIOUS
  <2>1. PICK i \in DOMAIN tx[T[k]].inputs : o = tx[T[k]].inputs[i]
    BY DEF ToSet
  <2> QED BY <1>1, <2>1 DEF ValidTx, SpendsUnspent
<1>5. ASSUME NEW k \in 2..n PROVE ~ tx[T[k]].is_coinbase
  <2> SUFFICES ASSUME tx[T[k]].is_coinbase PROVE FALSE
    OBVIOUS
  <2>1. T[k] \in Txid
    BY <1>1
  <2> DEFINE o == tx[T[k]].inputs[1]
  <2>2. Len(tx[T[k]].inputs) = 1 /\ \A a \in Hash : o[1] \notin ToSet(block[a].transactions)
    BY <2>1, NullAssumption
  <2>3. 1 \in DOMAIN tx[T[k]].inputs
    BY <2>1, <2>2, TxFields
  <2>4. o \in ToSet(tx[T[k]].inputs)
    BY <2>3 DEF ToSet
  <2>5. o \in CreatedOn(C)
    BY <1>2, <1>4, <2>4
  <2> HIDE DEF o
  <2>6. PICK q \in PlacedIn(C) : o \in Creates(TxidAt(q))
    BY <2>5 DEF CreatedOn
  <2>7. q[1] \in Hash /\ TxidAt(q) \in ToSet(block[q[1]].transactions) /\ TxidAt(q) \in Txid
    BY <1>3, PlaceFields
  <2>8. o[1] = TxidAt(q)
    BY <2>6, <2>7, TxFields
  <2> QED BY <2>2, <2>7, <2>8 DEF o
<1>6. \A k \in 1..n : Spends(T[k]) \subseteq DOMAIN us.utxos
  <2> SUFFICES ASSUME NEW k \in 1..n PROVE Spends(T[k]) \subseteq DOMAIN us.utxos
    OBVIOUS
  <2>1. CASE k = 1
    BY <1>1, <2>1 DEF Spends
  <2>2. CASE k # 1
    <3>1. k \in 2..n
      BY <2>2, <1>1
    <3> QED BY <1>4, <3>1 DEF Spends
  <2> QED BY <2>1, <2>2
<1>7. ASSUME NEW k \in 1..n, Creates(T[k]) # {}, NEW q \in PlacedIn(C), TxidAt(q) = T[k]
      PROVE  FALSE
  <2>1. CASE k = 1
    <3>1. TxAt(q).is_coinbase
      BY <1>1, <1>7, <2>1 DEF TxAt
    <3>2. q[2] = 1
      BY <1>2, <3>1 DEF CoinbasesRecorded
    <3>3. q[1] \in C /\ q[1] \in Hash /\ q[2] \in 1..Len(Body(q[1])) /\ TxidAt(q) = Body(q[1])[q[2]]
      BY <1>3, PlaceFields
    <3>4. Body(q[1]) \in Seq(Txid) /\ Body(b) \in Seq(Txid)
      BY <3>3, BlockAssumption DEF IsBlock, Body
    <3>5. Body(q[1]) # <<>> /\ Head(Body(q[1])) = Body(q[1])[1]
      BY <3>2, <3>3, <3>4
    <3>6. Body(b) # <<>> /\ Head(Body(b)) = Body(b)[1]
      BY <1>1, <3>4 DEF T
    <3>7. height(q[1]) # height(b)
      <4>1. height(q[1]) < height(b) /\ height(q[1]) \in Nat /\ height(b) \in Nat
        BY <1>3, <3>3, Constants
      <4> QED BY <4>1
    <3>8. q[1] \in ancestry[b] /\ b \in ancestry[b]
      BY <1>3, <3>3
    <3>9. Head(Body(q[1])) # Head(Body(b))
      BY <3>5, <3>6, <3>7, <3>8 DEF CoinbasesDistinct, Body
    <3> QED BY <1>7, <2>1, <3>2, <3>3, <3>5, <3>6, <3>9 DEF T
  <2>2. CASE k # 1
    <3>1. k \in 2..n /\ T[k] \in Txid /\ ValidTx(us, T[k], magic, height(b))
      BY <1>1, <2>2
    <3>2. DOMAIN tx[T[k]].outputs # {}
      BY <1>7 DEF Creates
    <3>3. DOMAIN tx[T[k]].inputs # {}
      BY <3>1, <3>2, CreatorSpends
    <3>4. PICK o : o \in ToSet(tx[T[k]].inputs)
      BY <3>3 DEF ToSet
    <3>5. o \in Spends(T[k]) /\ o \in DOMAIN us.utxos
      BY <1>4, <1>5, <3>1, <3>4 DEF Spends
    <3>6. o \in SpentOn(C)
      BY <1>7, <3>5 DEF SpentOn
    <3> QED BY <1>2, <3>5, <3>6
  <2> QED BY <2>1, <2>2
<1>8. ASSUME NEW k \in 1..n, NEW o \in Creates(T[k]), o \in CreatedOn(C) PROVE FALSE
  <2>1. PICK q \in PlacedIn(C) : o \in Creates(TxidAt(q))
    BY <1>8 DEF CreatedOn
  <2>2. o[1] = TxidAt(q)
    BY <1>3, <2>1, PlaceFields, TxFields
  <2>3. o[1] = T[k]
    BY <1>1, TxFields
  <2> QED BY <1>7, <2>2, <2>3
<1>9. ASSUME NEW j \in 1..n, NEW k \in 1..n, NEW o \in Spends(T[j]), o \in Creates(T[k])
      PROVE  FALSE
  <2>1. o \in CreatedOn(C)
    BY <1>2, <1>6
  <2> QED BY <1>8, <1>9, <2>1
<1>10. \A k \in 1..n : Creates(T[k]) # {} => \A q \in PlacedIn(C) : TxidAt(q) # T[k]
  BY <1>7
<1>11. \A k \in 1..n : Creates(T[k]) \cap CreatedOn(C) = {}
  BY <1>8
<1>12. \A j, k \in 1..n : Spends(T[j]) \cap Creates(T[k]) = {}
  BY <1>9
<1> QED BY <1>5, <1>6, <1>10, <1>11, <1>12 DEF T, us

(* No two transactions of an accepted body spend the same output: the second is
   checked against what the first left.                                     *)
LEMMA BodySpendsOnce ==
  ASSUME CoinbasesDistinct, NEW b \in Hash, NEW minted, NEW magic, ValidOn(b, minted, magic),
         SoundBranch(prev(b)),
         NEW j \in 1..Len(Body(b)), NEW k \in 1..Len(Body(b)), j < k
  PROVE  Spends(Body(b)[j]) \cap Spends(Body(b)[k]) = {}
<1> DEFINE T == Body(b)
           L == Tail(T)
           m == Len(L)
           us == replay[prev(b)]
<1>1. /\ Len(T) \in Nat /\ m \in Nat /\ m = Len(T) - 1 /\ L \in Seq(Txid)
      /\ \A i \in 2..Len(T) : i - 1 \in 1..m /\ L[i - 1] = T[i]
      /\ tx[T[1]].is_coinbase
      /\ \A i \in 2..Len(T) :
           ValidTx(ApplyAll(us, SubSeq(L, 1, (i - 1) - 1)), T[i], magic, height(b))
  BY BodyIsValid
<1>2. /\ \A i \in 2..Len(T) : ~ tx[T[i]].is_coinbase
      /\ \A i \in 1..Len(T) : Spends(T[i]) \subseteq DOMAIN us.utxos
      /\ \A i, l \in 1..Len(T) : Spends(T[i]) \cap Creates(T[l]) = {}
  BY BodyIsFresh
<1>3. Genuine(us)
  BY DEF SoundBranch
<1> HIDE DEF us, T, L
<1>4. CASE j = 1
  BY <1>1, <1>4 DEF Spends, T
<1>5. CASE j # 1
  <2>1. j \in 2..Len(T) /\ k \in 2..Len(T) /\ k - 1 \in 1..m /\ j - 1 \in 1 .. (k - 1) - 1
        /\ (k - 1) - 1 \in 0..m
    BY <1>1, <1>5 DEF T
  <2>2. \A i \in 1..m : L[i] = T[i + 1] /\ i + 1 \in 1..Len(T)
    <3> SUFFICES ASSUME NEW i \in 1..m PROVE L[i] = T[i + 1] /\ i + 1 \in 1..Len(T)
      OBVIOUS
    <3>1. i + 1 \in 2..Len(T) /\ (i + 1) - 1 = i
      BY <1>1
    <3> QED BY <1>1, <3>1
  <2>3. PICK g : /\ Passes(g, us, L)
                 /\ ApplyAll(us, L) = g[Len(L)]
                 /\ \A i \in 0..Len(L) : ApplyAll(us, SubSeq(L, 1, i)) = g[i]
    <3>1. L \in Seq(Txid)
      BY <1>1
    <3> QED BY <3>1, ApplyAllPasses
  <2>4. Independent(L)
    BY <1>2, <2>2 DEF Independent
  <2>5. \A i \in 0..m : Effect(us, L, i, g[i])
    BY <1>1, <1>3, <2>3, <2>4, BodyEffect
  <2> DEFINE i == (k - 1) - 1
  <2>6. ValidTx(g[i], T[k], magic, height(b))
    BY <1>1, <2>1, <2>3
  <2>7. ~ tx[T[k]].is_coinbase
    BY <1>2, <2>1
  <2>8. Spends(T[k]) \subseteq DOMAIN g[i].utxos
    BY <2>6, <2>7 DEF ValidTx, SpendsUnspent, Spends, ToSet
  <2>9. Spends(T[k]) \cap CreatedUpto(L, i) = {}
    <3>1. \A l \in 1..i : l \in 1..m
      BY <1>1, <2>1
    <3>2. \A l \in 1..i : Spends(T[k]) \cap Creates(L[l]) = {}
      <4>1. k \in 1..Len(T)
        BY <1>1, <2>1
      <4> QED BY <1>2, <2>2, <3>1, <4>1
    <3> QED BY <3>2 DEF CreatedUpto
  <2>10. Spends(T[k]) \cap SpentUpto(L, i) = {}
    <3>1. DOMAIN g[i].utxos = (DOMAIN us.utxos \ SpentUpto(L, i)) \cup CreatedUpto(L, i)
      BY <2>1, <2>5 DEF Effect
    <3> QED BY <2>8, <2>9, <3>1
  <2>11. L[j - 1] = T[j] /\ j - 1 \in 1..i
    BY <1>1, <2>1
  <2> QED BY <2>10, <2>11 DEF T, SpentUpto
<1> QED BY <1>4, <1>5

LEMMA ReplayUnfolds ==
  ASSUME NEW b \in Hash
  PROVE  /\ height(b) = 0 => replay[b] = ApplyAll(EmptyUtxoSet, Body(b))
         /\ height(b) # 0 => replay[b] = ApplyAll(replay[prev(b)], Body(b))
         /\ height(b) = 0 => minted_upto[b] = 0 + coinbase_value(b)
         /\ height(b) # 0 => minted_upto[b] = minted_upto[prev(b)] + coinbase_value(b)
<1>1. replay[b] = ApplyAll(IF height(b) = 0 THEN EmptyUtxoSet ELSE replay[prev(b)],
                           block[b].transactions)
  BY AcyclicAssumption
<1>2. minted_upto[b] = (IF height(b) = 0 THEN 0 ELSE minted_upto[prev(b)]) + coinbase_value(b)
  BY AcyclicAssumption
<1> QED BY <1>1, <1>2 DEF Body

(* The UTXO set an accepted block leaves. *)
LEMMA ReplayOfBlock ==
  ASSUME CoinbasesDistinct, NEW b \in Hash, NEW minted, NEW magic, ValidOn(b, minted, magic),
         SoundBranch(prev(b)), height(b) # 0
  PROVE  Effect(replay[prev(b)], Body(b), Len(Body(b)), replay[b])
<1> DEFINE T == Body(b)
           n == Len(T)
           us == replay[prev(b)]
<1>1. T \in Seq(Txid) /\ n \in Nat /\ n \in 0..n
  BY BodyIsValid
<1>2. Independent(T)
  BY BodyIsFresh DEF Independent
<1>3. Genuine(us)
  BY DEF SoundBranch
<1> HIDE DEF us, T
<1>4. PICK g : Passes(g, us, T) /\ ApplyAll(us, T) = g[n]
  BY <1>1, ApplyAllPasses
<1>5. Effect(us, T, n, g[n])
  BY <1>1, <1>2, <1>3, <1>4, BodyEffect
<1>6. replay[b] = g[n]
  BY <1>4, ReplayUnfolds DEF T, us
<1> QED BY <1>5, <1>6 DEF T, us

(* What a block adds to the created and the spent outputs of a chain. *)
LEMMA OutputsExtend ==
  ASSUME NEW C, NEW b \in Hash
  PROVE  /\ CreatedOn(C \cup {b}) = CreatedOn(C) \cup CreatedUpto(Body(b), Len(Body(b)))
         /\ SpentOn(C \cup {b}) = SpentOn(C) \cup SpentUpto(Body(b), Len(Body(b)))
<1>1. /\ PlacedIn(C \cup {b}) = PlacedIn(C) \cup {<<b, k>> : k \in 1..Len(Body(b))}
      /\ \A k \in 1..Len(Body(b)) : TxidAt(<<b, k>>) = Body(b)[k]
  BY PlacesExtend
<1>2. UNION {Creates(TxidAt(p)) : p \in {<<b, k>> : k \in 1..Len(Body(b))}}
        = CreatedUpto(Body(b), Len(Body(b)))
  BY <1>1 DEF CreatedUpto
<1>3. UNION {Spends(TxidAt(p)) : p \in {<<b, k>> : k \in 1..Len(Body(b))}}
        = SpentUpto(Body(b), Len(Body(b)))
  BY <1>1 DEF SpentUpto
<1>4. CreatedOn(C \cup {b}) = CreatedOn(C) \cup
        UNION {Creates(TxidAt(p)) : p \in {<<b, k>> : k \in 1..Len(Body(b))}}
  BY <1>1 DEF CreatedOn
<1>5. SpentOn(C \cup {b}) = SpentOn(C) \cup
        UNION {Spends(TxidAt(p)) : p \in {<<b, k>> : k \in 1..Len(Body(b))}}
  BY <1>1 DEF SpentOn
<1> QED BY <1>2, <1>3, <1>4, <1>5

LEMMA SpentWasCreated ==
  ASSUME NEW C, SpentOnceOn(C)
  PROVE  SpentOn(C) \subseteq CreatedOn(C)
  BY DEF SpentOnceOn, SpentOn, CreatedOn

(* Every rule carries over from the parent's branch to an accepted block's. *)
LEMMA SoundExtends ==
  ASSUME CoinbasesDistinct, NEW b \in Hash, NEW minted, NEW magic, ValidOn(b, minted, magic),
         SoundBranch(prev(b)), height(b) # 0
  PROVE  SoundBranch(b)
<1> DEFINE C == ancestry[prev(b)]
           T == Body(b)
           n == Len(T)
           us == replay[prev(b)]
           New == {<<b, k>> : k \in 1..n}
<1>1. /\ C \subseteq Hash /\ ancestry[b] = C \cup {b}
      /\ \A a \in C : height(a) < height(b)
  BY DEF ValidOn
<1>2. /\ SpentOnceOn(C) /\ MaturesOn(C) /\ DOMAIN us.utxos = CreatedOn(C) \ SpentOn(C)
      /\ Genuine(us) /\ CoinbasesRecorded(C, us)
  BY DEF SoundBranch
<1>3. Effect(us, T, n, replay[b])
  BY ReplayOfBlock
<1>4. /\ \A k \in 2..n : ~ tx[T[k]].is_coinbase
      /\ \A k \in 1..n : Spends(T[k]) \subseteq DOMAIN us.utxos
      /\ \A k \in 1..n : Creates(T[k]) \cap CreatedOn(C) = {}
      /\ \A j, k \in 1..n : Spends(T[j]) \cap Creates(T[k]) = {}
  BY BodyIsFresh
<1>5. n \in Nat /\ (\A k \in 1..n : T[k] \in Txid)
      /\ \A k \in 2..n : ValidTx(us, T[k], magic, height(b))
  BY BodyIsValid
<1>6. PlacedIn(C \cup {b}) = PlacedIn(C) \cup New /\ \A k \in 1..n : TxidAt(<<b, k>>) = T[k]
  BY PlacesExtend
<1>7. /\ CreatedOn(C \cup {b}) = CreatedOn(C) \cup CreatedUpto(T, n)
      /\ SpentOn(C \cup {b}) = SpentOn(C) \cup SpentUpto(T, n)
  BY OutputsExtend
<1>8. SpentOn(C) \subseteq CreatedOn(C)
  BY <1>2, SpentWasCreated
<1>9. \A j, k \in 1..n : j # k => Spends(T[j]) \cap Spends(T[k]) = {}
  <2> SUFFICES ASSUME NEW j \in 1..n, NEW k \in 1..n, j # k
               PROVE  Spends(T[j]) \cap Spends(T[k]) = {}
    OBVIOUS
  <2>1. j < k \/ k < j
    OBVIOUS
  <2> QED BY <2>1, BodySpendsOnce
<1> HIDE DEF C, T, us
<1>10. /\ CreatedUpto(T, n) \cap CreatedOn(C) = {}
       /\ SpentUpto(T, n) \cap CreatedUpto(T, n) = {}
       /\ SpentUpto(T, n) \subseteq DOMAIN us.utxos
  BY <1>4 DEF CreatedUpto, SpentUpto
<1>11. DOMAIN replay[b].utxos = CreatedOn(C \cup {b}) \ SpentOn(C \cup {b})
  <2>1. DOMAIN replay[b].utxos = (DOMAIN us.utxos \ SpentUpto(T, n)) \cup CreatedUpto(T, n)
    BY <1>3 DEF Effect
  <2> QED BY <1>2, <1>7, <1>8, <1>10, <2>1
<1>12. \A q \in New : \E k \in 1..n : q = <<b, k>> /\ TxidAt(q) = T[k] /\ q[1] = b /\ q[2] = k
  BY <1>6
<1>13. \A q \in PlacedIn(C) : q[1] \in C /\ q[1] \in Hash /\ TxidAt(q) \in Txid
  BY <1>1, PlaceFields
<1> HIDE DEF New, n
<1>14. SpentOnceOn(C \cup {b})
  <2> SUFFICES ASSUME NEW p \in PlacedIn(C) \cup New, NEW o \in Spends(TxidAt(p))
               PROVE  /\ \E c \in PlacedIn(C) \cup New :
                           o \in Creates(TxidAt(c)) /\ height(c[1]) < height(p[1])
                      /\ \A q \in (PlacedIn(C) \cup New) \ {p} : o \notin Spends(TxidAt(q))
    BY <1>6 DEF SpentOnceOn
  <2>1. CASE p \in PlacedIn(C)
    <3>1. /\ \E c \in PlacedIn(C) : o \in Creates(TxidAt(c)) /\ height(c[1]) < height(p[1])
          /\ \A q \in PlacedIn(C) \ {p} : o \notin Spends(TxidAt(q))
      BY <1>2, <2>1 DEF SpentOnceOn
    <3>2. o \in SpentOn(C)
      BY <2>1 DEF SpentOn
    <3>3. \A q \in New : o \notin Spends(TxidAt(q))
      BY <1>2, <1>4, <1>12, <3>2
    <3> QED BY <3>1, <3>3
  <2>2. CASE p \in New
    <3>1. PICK k \in 1..n : p = <<b, k>> /\ TxidAt(p) = T[k] /\ p[1] = b
      BY <1>12, <2>2
    <3>2. o \in CreatedOn(C) /\ o \notin SpentOn(C)
      BY <1>2, <1>4, <3>1
    <3>3. PICK c \in PlacedIn(C) : o \in Creates(TxidAt(c))
      BY <3>2 DEF CreatedOn
    <3>4. height(c[1]) < height(p[1])
      BY <1>1, <1>13, <3>1
    <3>5. \A q \in PlacedIn(C) : o \notin Spends(TxidAt(q))
      BY <3>2 DEF SpentOn
    <3>6. \A q \in New \ {p} : o \notin Spends(TxidAt(q))
      <4> SUFFICES ASSUME NEW q \in New, q # p, o \in Spends(TxidAt(q)) PROVE FALSE
        OBVIOUS
      <4>1. PICK j \in 1..n : q = <<b, j>> /\ TxidAt(q) = T[j]
        BY <1>12
      <4> QED BY <1>9, <3>1, <4>1
    <3> QED BY <3>3, <3>4, <3>5, <3>6
  <2> QED BY <2>1, <2>2
<1>15. MaturesOn(C \cup {b})
  <2> SUFFICES ASSUME NEW p \in PlacedIn(C) \cup New, NEW c \in PlacedIn(C) \cup New,
                      TxAt(c).is_coinbase, TxAt(c).coinbase_extra = height(c[1]),
                      Spends(TxidAt(p)) \cap Creates(TxidAt(c)) # {}
               PROVE  height(p[1]) - height(c[1]) >= COINBASE_MATURITY
    BY <1>6 DEF MaturesOn
  <2>1. PICK o : o \in Spends(TxidAt(p)) /\ o \in Creates(TxidAt(c))
    OBVIOUS
  <2>2. o \in CreatedOn(C)
    <3>1. CASE p \in PlacedIn(C)
      BY <1>8, <2>1, <3>1 DEF SpentOn
    <3>2. CASE p \in New
      BY <1>2, <1>4, <1>12, <2>1, <3>2
    <3> QED BY <3>1, <3>2
  <2>3. c \in PlacedIn(C)
    BY <1>4, <1>12, <2>1, <2>2
  <2>4. CASE p \in PlacedIn(C)
    BY <1>2, <2>3, <2>4 DEF MaturesOn
  <2>5. CASE p \in New
    <3>1. PICK k \in 1..n : TxidAt(p) = T[k] /\ p[1] = b
      BY <1>12, <2>5
    <3>2. ~ tx[T[k]].is_coinbase /\ o \in ToSet(tx[T[k]].inputs)
      BY <2>1, <3>1 DEF Spends
    <3>3. k \in 2..n
      <4>1. tx[T[1]].is_coinbase
        BY BodyIsValid DEF T
      <4> QED BY <1>5, <3>2, <4>1
    <3>4. PICK i \in DOMAIN tx[T[k]].inputs : o = tx[T[k]].inputs[i]
      BY <3>2 DEF ToSet
    <3>5. ~ is_immature_coinbase(us, o[1], height(b))
      BY <1>5, <3>3, <3>4 DEF ValidTx
    <3>6. o[1] = TxidAt(c)
      BY <1>13, <2>1, <2>3, TxFields
    <3>7. TxidAt(c) \in DOMAIN us.coinbase_heights /\ us.coinbase_heights[TxidAt(c)] = height(c[1])
      BY <1>2, <2>3 DEF CoinbasesRecorded, Genuine, TxAt
    <3>8. height(c[1]) < height(b) /\ height(c[1]) \in Nat /\ height(b) \in Nat
      BY <1>1, <1>13, <2>3, Constants
    <3>9. ~ (height(b) - height(c[1]) < COINBASE_MATURITY)
      <4>1. height(b) >= height(c[1])
        BY <3>8
      <4> QED BY <3>5, <3>6, <3>7, <4>1 DEF is_immature_coinbase
    <3>10. COINBASE_MATURITY \in Nat
      BY LedgerConstants
    <3> QED BY <3>1, <3>8, <3>9, <3>10
  <2> QED BY <2>4, <2>5
<1>16. CoinbasesRecorded(C \cup {b}, replay[b])
  <2> SUFFICES ASSUME NEW p \in PlacedIn(C) \cup New, TxAt(p).is_coinbase
               PROVE  p[2] = 1 /\ TxidAt(p) \in DOMAIN replay[b].coinbase_heights
    BY <1>6 DEF CoinbasesRecorded
  <2>1. CASE p \in PlacedIn(C)
    BY <1>2, <1>3, <2>1 DEF CoinbasesRecorded, Effect
  <2>2. CASE p \in New
    <3>1. PICK k \in 1..n : TxidAt(p) = T[k] /\ p[2] = k
      BY <1>12, <2>2
    <3>2. tx[T[k]].is_coinbase
      BY <3>1 DEF TxAt
    <3>3. k = 1
      BY <1>4, <1>5, <3>2
    <3> QED BY <1>3, <3>1, <3>2, <3>3 DEF Effect
  <2> QED BY <2>1, <2>2
<1>17. Genuine(replay[b])
  BY <1>3 DEF Effect
<1> QED BY <1>1, <1>11, <1>14, <1>15, <1>16, <1>17 DEF SoundBranch

-----------------------------------------------------------------------------
(* The branch of the genesis: one coinbase applied to the empty set. *)
LEMMA SoundGenesis == SoundBranch(Genesis)
<1>1. PICK t \in Txid : Body(Genesis) = <<t>> /\ tx[t].is_coinbase
  BY GenesisAssumption DEF Body
<1>2. Genesis \in Hash /\ ancestry[Genesis] = {Genesis}
      /\ replay[Genesis] = ApplyAll(EmptyUtxoSet, Body(Genesis))
  BY Constants, AncestryUnfolds, ReplayUnfolds
<1> DEFINE T == Body(Genesis)
<1>3. T \in Seq(Txid) /\ Len(T) = 1 /\ T[1] = t /\ 1..Len(T) = {1} /\ 1 \in 0..Len(T)
  BY <1>1
<1>4. Spends(t) = {} /\ Independent(T)
  BY <1>1, <1>3 DEF Independent, Spends
<1>5. Genuine(EmptyUtxoSet) /\ DOMAIN EmptyUtxoSet.utxos = {}
  BY DEF Genuine, EmptyUtxoSet
<1> HIDE DEF T
<1>6. PICK g : Passes(g, EmptyUtxoSet, T) /\ ApplyAll(EmptyUtxoSet, T) = g[Len(T)]
  BY <1>3, ApplyAllPasses
<1>7. Effect(EmptyUtxoSet, T, 1, replay[Genesis])
  <2>1. \A k \in 0..Len(T) : Effect(EmptyUtxoSet, T, k, g[k])
    BY <1>3, <1>4, <1>5, <1>6, BodyEffect
  <2> QED BY <1>2, <1>3, <1>6, <2>1 DEF T
<1>8. CreatedUpto(T, 1) = Creates(t) /\ SpentUpto(T, 1) = {}
  BY <1>3, <1>4 DEF CreatedUpto, SpentUpto
<1>9. PlacedIn({Genesis}) = {<<Genesis, 1>>} /\ TxidAt(<<Genesis, 1>>) = t
  <2>1. PlacedIn({Genesis}) = {<<Genesis, k>> : k \in DOMAIN block[Genesis].transactions}
    BY DEF PlacedIn
  <2>2. block[Genesis].transactions = <<t>>
    BY <1>1 DEF Body
  <2> QED BY <2>1, <2>2 DEF TxidAt
<1>10. CreatedOn({Genesis}) = Creates(t) /\ SpentOn({Genesis}) = {}
  BY <1>4, <1>9 DEF CreatedOn, SpentOn
<1>11. DOMAIN replay[Genesis].utxos = CreatedOn({Genesis}) \ SpentOn({Genesis})
  BY <1>5, <1>7, <1>8, <1>10 DEF Effect
<1>12. CoinbasesRecorded({Genesis}, replay[Genesis])
  <2>1. t \in DOMAIN replay[Genesis].coinbase_heights
    BY <1>1, <1>3, <1>7 DEF Effect
  <2> QED BY <1>9, <2>1 DEF CoinbasesRecorded
<1>13. SpentOnceOn({Genesis}) /\ MaturesOn({Genesis})
  BY <1>4, <1>9 DEF SpentOnceOn, MaturesOn
<1> QED BY <1>2, <1>7, <1>11, <1>12, <1>13 DEF SoundBranch, Effect

-----------------------------------------------------------------------------
(* The mempool and the caches, for all blocks and transactions whatsoever. *)

(* A UTXO set whose value can be added up. *)
Tallied(us) ==
  /\ IsFiniteSet(DOMAIN us.utxos)
  /\ \A o \in DOMAIN us.utxos : us.utxos[o] \in Output

LEMMA ApplyTallied ==
  ASSUME NEW us, NEW t \in Txid, Tallied(us)
  PROVE  Tallied(apply_transaction(us, t))
<1> DEFINE r == apply_transaction(us, t)
<1>1. /\ DOMAIN r.utxos = (DOMAIN us.utxos \ Spends(t)) \cup Creates(t)
      /\ \A o \in Creates(t) : r.utxos[o] = tx[t].outputs[o[2]]
      /\ \A o \in DOMAIN us.utxos \ Spends(t) : o \notin Creates(t) => r.utxos[o] = us.utxos[o]
  BY ApplyOne
<1> HIDE DEF r
<1>2. tx[t].outputs \in Seq(Output) /\ \A o \in Creates(t) : o[2] \in DOMAIN tx[t].outputs
  BY TxFields
<1>3. \A o \in Creates(t) : r.utxos[o] \in Output
  BY <1>1, <1>2
<1>4. IsFiniteSet(Creates(t))
  <2>1. IsFiniteSet({t}) /\ IsFiniteSet(DOMAIN tx[t].outputs)
    <3>1. DOMAIN tx[t].outputs = 1..Len(tx[t].outputs) /\ Len(tx[t].outputs) \in Nat
      BY <1>2
    <3>2. IsFiniteSet(1..Len(tx[t].outputs))
      BY <3>1, FS_Interval
    <3>3. IsFiniteSet({t})
      BY FS_Singleton
    <3> QED BY <3>1, <3>2, <3>3
  <2> QED BY <2>1, FS_Product DEF Creates
<1>5. IsFiniteSet(DOMAIN r.utxos)
  <2>1. IsFiniteSet(DOMAIN us.utxos \ Spends(t))
    BY FS_Subset DEF Tallied
  <2>2. IsFiniteSet((DOMAIN us.utxos \ Spends(t)) \cup Creates(t))
    BY <1>4, <2>1, FS_Union
  <2> QED BY <1>1, <2>2
<1>6. \A o \in DOMAIN r.utxos : r.utxos[o] \in Output
  BY <1>1, <1>3 DEF Tallied
<1> QED BY <1>5, <1>6 DEF Tallied, r

LEMMA PassesTallied ==
  ASSUME NEW us, NEW txs \in Seq(Txid), NEW g, Passes(g, us, txs), Tallied(us)
  PROVE  \A k \in 0..Len(txs) : Tallied(g[k])
<1> DEFINE n == Len(txs)
           Good == {k \in 0..n : Tallied(g[k])}
<1>1. n \in Nat /\ \A k \in 1..n : txs[k] \in Txid
  OBVIOUS
<1>2. 0 \in Good
  BY <1>1 DEF Passes
<1>3. ASSUME NEW k \in 0 .. n - 1, k \in Good PROVE k + 1 \in Good
  <2>1. k + 1 \in 1..n /\ k + 1 \in 0..n /\ (k + 1) - 1 = k
    BY <1>1
  <2>2. g[k + 1] = apply_transaction(g[k], txs[k + 1])
    BY <2>1 DEF Passes
  <2>3. Tallied(g[k])
    BY <1>3
  <2> HIDE DEF n
  <2>4. Tallied(g[k + 1])
    BY <1>1, <2>1, <2>2, <2>3, ApplyTallied
  <2> QED BY <2>1, <2>4
<1> HIDE DEF Good
<1>4. \A k \in 0..n : k \in Good
  BY <1>1, <1>2, <1>3, RangeInduction
<1> QED BY <1>4 DEF Good

LEMMA ReplayTallied ==
  /\ Tallied(replay[Genesis])
  /\ \A b \in Hash : height(b) # 0 /\ Tallied(replay[prev(b)]) => Tallied(replay[b])
<1>1. ASSUME NEW us, Tallied(us), NEW b \in Hash PROVE Tallied(ApplyAll(us, Body(b)))
  <2>1. Body(b) \in Seq(Txid)
    BY BlockAssumption DEF IsBlock, Body
  <2>2. PICK g : Passes(g, us, Body(b)) /\ ApplyAll(us, Body(b)) = g[Len(Body(b))]
    BY <2>1, ApplyAllPasses
  <2>3. \A k \in 0..Len(Body(b)) : Tallied(g[k])
    BY <1>1, <2>1, <2>2, PassesTallied
  <2>4. Len(Body(b)) \in 0..Len(Body(b))
    BY <2>1
  <2> QED BY <2>2, <2>3, <2>4
<1>2. Tallied(EmptyUtxoSet)
  BY FS_EmptySet DEF Tallied, EmptyUtxoSet
<1> QED BY <1>1, <1>2, ReplayUnfolds, Constants

(* The fee of a valid transaction is a natural number. *)
LEMMA FeeType ==
  ASSUME NEW us, Tallied(us), NEW t \in Txid, NEW magic, NEW h, ValidTx(us, t, magic, h)
  PROVE  /\ InputSum(us, t) \in Nat /\ OutputSum(tx[t].outputs) \in Nat
         /\ Fee(us, t) \in Nat /\ InputSum(us, t) = OutputSum(tx[t].outputs) + Fee(us, t)
         /\ Fee(us, t) # 0 => DOMAIN tx[t].inputs # {}
<1> DEFINE ins == [i \in DOMAIN tx[t].inputs |-> us.utxos[tx[t].inputs[i]]]
<1>1. tx[t].inputs \in Seq(Outpoint) /\ tx[t].outputs \in Seq(Output)
      /\ \A i \in DOMAIN tx[t].outputs : tx[t].outputs[i].value \in Nat
  BY TxFields
<1>2. OutputSum(tx[t].outputs) \in Nat
  BY <1>1, OutputSumType
<1>3. \A i \in DOMAIN tx[t].inputs : us.utxos[tx[t].inputs[i]] \in Output
  BY DEF ValidTx, SpendsUnspent, Tallied
<1>4. ins \in Seq(Output) /\ DOMAIN ins = DOMAIN tx[t].inputs
  BY <1>1, <1>3
<1>5. \A i \in DOMAIN ins : ins[i].value \in Nat
  BY <1>3 DEF Output
<1> HIDE DEF ins
<1>6. OutputSum(ins) \in Nat /\ (DOMAIN ins = {} => OutputSum(ins) = 0)
  BY <1>4, <1>5, OutputSumType
<1>7. InputSum(us, t) = OutputSum(ins)
  BY DEF InputSum, ins
<1>8. InputSum(us, t) >= OutputSum(tx[t].outputs)
  BY DEF ValidTx
<1> QED BY <1>2, <1>4, <1>6, <1>7, <1>8 DEF Fee

(* The size of a set of transactions. *)
LEMMA BytesAdd ==
  ASSUME NEW D, IsFiniteSet(D), D \subseteq Txid
  PROVE  /\ BytesOf(D) \in Nat
         /\ \A A \in SUBSET D : BytesOf(D) = BytesOf(A) + BytesOf(D \ A)
         /\ \A t \in Txid \ D : BytesOf(D \cup {t}) = BytesOf(D) + tx[t].size
<1> DEFINE f == [t \in Txid |-> tx[t].size]
<1>1. \A t \in Txid : f[t] = tx[t].size /\ f[t] \in Nat /\ f[t] \in Int
  BY TxFields
<1>2. ASSUME NEW S, IsFiniteSet(S), S \subseteq Txid
      PROVE  BytesOf(S) = SumFunctionOnSet(f, S) /\ SumFunctionOnSet(f, S) \in Nat
  <2> DEFINE g == [t \in S |-> tx[t].size]
  <2>1. BytesOf(S) = SumFunctionOnSet(g, S)
    BY DEF BytesOf, SumFunction
  <2>2. \A t \in S : f[t] = g[t] /\ f[t] \in Nat
    BY <1>1, <1>2
  <2> HIDE DEF f, g
  <2>3. SumFunctionOnSet(f, S) = SumFunctionOnSet(g, S)
    BY <1>2, <2>2, SumOfEqual
  <2>4. SumFunctionOnSet(f, S) \in Nat
    BY <1>2, <2>2, SumType
  <2> QED BY <2>1, <2>3, <2>4
<1> HIDE DEF f
<1>3. BytesOf(D) = SumFunctionOnSet(f, D) /\ BytesOf(D) \in Nat
  BY <1>2
<1>4. ASSUME NEW A \in SUBSET D PROVE BytesOf(D) = BytesOf(A) + BytesOf(D \ A)
  <2>1. IsFiniteSet(A) /\ IsFiniteSet(D \ A) /\ A \subseteq Txid /\ D \ A \subseteq Txid
    BY FS_Subset
  <2>2. \A x \in D : f[x] \in Int
    BY <1>1
  <2>3. SumFunctionOnSet(f, D) = SumFunctionOnSet(f, A) + SumFunctionOnSet(f, D \ A)
    BY <2>2, SumOfUnion
  <2>4. BytesOf(A) = SumFunctionOnSet(f, A) /\ BytesOf(D \ A) = SumFunctionOnSet(f, D \ A)
    BY <1>2, <2>1
  <2> QED BY <1>3, <2>3, <2>4
<1>5. ASSUME NEW t \in Txid \ D PROVE BytesOf(D \cup {t}) = BytesOf(D) + tx[t].size
  <2>1. t \notin D /\ D \cup {t} \subseteq Txid /\ \A y \in D \cup {t} : f[y] \in Int
    BY <1>1
  <2>2. IsFiniteSet(D \cup {t})
        /\ SumFunctionOnSet(f, D \cup {t}) = f[t] + SumFunctionOnSet(f, D)
    BY <2>1, SumAdds
  <2>3. BytesOf(D \cup {t}) = SumFunctionOnSet(f, D \cup {t})
    BY <1>2, <2>1, <2>2
  <2> QED BY <1>1, <1>3, <2>2, <2>3
<1> QED BY <1>3, <1>4, <1>5

(* The caches hold a replay of the active chain, and the mempool counts what it
   holds.                                                                   *)
PoolInv ==
  /\ ForkInv
  /\ TypeOK
  /\ \A x \in all_blocks : Tallied(replay[x])
  /\ IsFiniteSet(DOMAIN mempool)
  /\ MempoolAccounting

LEMMA InitPoolInv == Init => PoolInv
<1> SUFFICES ASSUME Init PROVE PoolInv
  OBVIOUS
<1>1. ForkInv
  BY InitForkInv
<1>2. /\ network_magic = NETWORK_MAGIC /\ tip = Genesis /\ all_blocks = {Genesis}
      /\ utxo_set = ApplyAll(EmptyUtxoSet, Body(Genesis))
      /\ total_minted = coinbase_value(Genesis)
      /\ mempool = <<>> /\ mempool_bytes = 0
  BY DEF Init, Body
<1>3. coinbase_value(Genesis) \in Nat
  <2>1. PICK t \in Txid : block[Genesis].transactions = <<t>>
    BY GenesisAssumption
  <2>2. coinbase_value(Genesis) = OutputSum(tx[t].outputs)
    BY <2>1 DEF coinbase_value
  <2> QED BY <2>2, TxFields, OutputSumType
<1>4. utxo_set = replay[tip] /\ total_minted = minted_upto[tip]
  BY <1>2, <1>3, ReplayUnfolds, Constants
<1>5. DOMAIN mempool = {} /\ IsFiniteSet({})
  BY <1>2, FS_EmptySet
<1>6. BytesOf({}) = 0
  <2>1. {} \subseteq Txid /\ {} \in SUBSET {} /\ {} \ {} = {}
    OBVIOUS
  <2>2. BytesOf({}) \in Nat /\ BytesOf({}) = BytesOf({}) + BytesOf({})
    BY <1>5, <2>1, BytesAdd
  <2>3. \A n \in Nat : n = n + n => n = 0
    OBVIOUS
  <2> QED BY <2>2, <2>3
<1>7. TypeOK
  BY <1>1, <1>2, <1>4, <1>5, MempoolAssumption DEF TypeOK, ForkInv
<1> QED BY <1>1, <1>2, <1>5, <1>6, <1>7, ReplayTallied DEF PoolInv, MempoolAccounting

(* What leaves the mempool is no longer counted. *)
LEMMA RemovePool ==
  ASSUME IsFiniteSet(DOMAIN mempool), DOMAIN mempool \subseteq Txid, MempoolAccounting,
         \A t \in DOMAIN mempool : mempool[t] \in Nat,
         mempool_bytes \in 0..MAX_MEMPOOL_BYTES,
         NEW S, RemoveFromMempool(S)
  PROVE  /\ DOMAIN mempool' = DOMAIN mempool \ S
         /\ IsFiniteSet(DOMAIN mempool') /\ DOMAIN mempool' \subseteq Txid
         /\ \A t \in DOMAIN mempool' : mempool'[t] \in Nat
         /\ mempool_bytes' \in 0..MAX_MEMPOOL_BYTES
         /\ mempool_bytes' = BytesOf(DOMAIN mempool')
<1> DEFINE D == DOMAIN mempool
           gone == D \cap S
<1>1. /\ mempool' = [t \in D \ gone |-> mempool[t]]
      /\ mempool_bytes' = IF mempool_bytes >= BytesOf(gone)
                          THEN mempool_bytes - BytesOf(gone) ELSE 0
  BY DEF RemoveFromMempool, Restrict
<1>2. DOMAIN mempool' = D \ gone /\ D \ gone = D \ S /\ \A t \in D \ gone : mempool'[t] \in Nat
  BY <1>1
<1>3. gone \in SUBSET D /\ IsFiniteSet(gone) /\ IsFiniteSet(D \ gone)
      /\ gone \subseteq Txid /\ D \ gone \subseteq Txid
  BY FS_Subset
<1> HIDE DEF gone
<1>4. BytesOf(D) = BytesOf(gone) + BytesOf(D \ gone)
  BY <1>3, BytesAdd
<1>5. BytesOf(gone) \in Nat /\ BytesOf(D \ gone) \in Nat
  BY <1>3, BytesAdd
<1>6. mempool_bytes = BytesOf(D) /\ MAX_MEMPOOL_BYTES \in Nat
  BY MempoolAssumption DEF MempoolAccounting
<1>7. mempool_bytes' = BytesOf(D \ gone) /\ mempool_bytes' \in 0..MAX_MEMPOOL_BYTES
  BY <1>1, <1>4, <1>5, <1>6
<1> QED BY <1>2, <1>3, <1>7

LEMMA AddBlockPoolInv ==
  ASSUME PoolInv, NEW b \in Hash, NEW now \in Clock, AddBlock(b, now)
  PROVE  PoolInv'
<1>1. ForkInv'
  BY AddBlockForkInv DEF PoolInv
<1>2. /\ prev(b) \in all_blocks /\ height(b) # 0
  BY AcceptedBlock, Constants DEF AddBlock, PoolInv, ForkInv, ForkTypeOK
<1>3. Tallied(replay[b])
  BY <1>2, ReplayTallied DEF PoolInv
<1>4. all_blocks' \subseteq all_blocks \cup {b}
  BY DEF AddBlock, Retained
<1>5. (\A x \in all_blocks : Tallied(replay[x]))'
  BY <1>3, <1>4 DEF PoolInv
<1>6. network_magic' = NETWORK_MAGIC
  BY DEF AddBlock, PoolInv, TypeOK
<1>7. /\ IsFiniteSet(DOMAIN mempool) /\ DOMAIN mempool \subseteq Txid /\ MempoolAccounting
      /\ \A t \in DOMAIN mempool : mempool[t] \in Nat
      /\ mempool_bytes \in 0..MAX_MEMPOOL_BYTES
  BY DEF PoolInv, TypeOK
<1>8. CASE candidate_work(b) > chain_work[tip]
  <2>1. tip' = b /\ utxo_set' = replay[b] /\ total_minted' = minted_upto[b]
        /\ RemoveFromMempool(TxsOf(ancestry[b]))
    BY <1>8 DEF AddBlock, activate_chain
  <2>2. /\ IsFiniteSet(DOMAIN mempool') /\ DOMAIN mempool' \subseteq Txid
        /\ \A t \in DOMAIN mempool' : mempool'[t] \in Nat
        /\ mempool_bytes' \in 0..MAX_MEMPOOL_BYTES
        /\ mempool_bytes' = BytesOf(DOMAIN mempool')
    BY <1>7, <2>1, RemovePool
  <2> QED BY <1>1, <1>5, <1>6, <2>1, <2>2 DEF PoolInv, TypeOK, MempoolAccounting, ForkInv
<1>9. CASE ~ (candidate_work(b) > chain_work[tip])
  <2>1. UNCHANGED <<tip, utxo_set, total_minted, mempool, mempool_bytes>>
    BY <1>9 DEF AddBlock, active, pool
  <2> QED BY <1>1, <1>5, <1>6, <2>1 DEF PoolInv, TypeOK, MempoolAccounting, ForkInv
<1> QED BY <1>8, <1>9

LEMMA SubmitPoolInv ==
  ASSUME PoolInv, NEW t \in Txid, SubmitTransaction(t)
  PROVE  PoolInv'
<1>1. UNCHANGED <<network_magic, all_blocks, chain_work, tip, blocks, utxo_set, total_minted>>
  BY DEF SubmitTransaction, active
<1>2. ForkInv'
  BY NextForkInv DEF PoolInv, Next
<1>3. ValidTx(utxo_set, t, network_magic, height(tip)) /\ Tallied(utxo_set)
  BY DEF SubmitTransaction, PoolInv, TypeOK, ForkInv, ForkTypeOK
<1>4. Fee(utxo_set, t) \in Nat
  BY <1>3, FeeType
<1>5. /\ t \notin DOMAIN mempool
      /\ mempool' = [k \in DOMAIN mempool \cup {t} |->
                       IF k = t THEN Fee(utxo_set, t) ELSE mempool[k]]
      /\ mempool_bytes' = mempool_bytes + tx[t].size
      /\ mempool_bytes + tx[t].size <= MAX_MEMPOOL_BYTES
  BY DEF SubmitTransaction, add_with_fee, Insert
<1>6. DOMAIN mempool' = DOMAIN mempool \cup {t}
  BY <1>5
<1>7. IsFiniteSet(DOMAIN mempool) /\ DOMAIN mempool \subseteq Txid
      /\ mempool_bytes = BytesOf(DOMAIN mempool)
      /\ (\A k \in DOMAIN mempool : mempool[k] \in Nat)
      /\ mempool_bytes \in Nat /\ tx[t].size \in Nat /\ MAX_MEMPOOL_BYTES \in Nat
  BY MempoolAssumption, TxFields DEF PoolInv, TypeOK, MempoolAccounting
<1>8. IsFiniteSet(DOMAIN mempool \cup {t})
  BY <1>7, FS_AddElement
<1>9. BytesOf(DOMAIN mempool \cup {t}) = BytesOf(DOMAIN mempool) + tx[t].size
  BY <1>5, <1>7, BytesAdd
<1>10. /\ DOMAIN mempool' \subseteq Txid /\ mempool_bytes' \in 0..MAX_MEMPOOL_BYTES
       /\ \A k \in DOMAIN mempool' : mempool'[k] \in Nat
  BY <1>4, <1>5, <1>6, <1>7
<1>11. mempool_bytes' = BytesOf(DOMAIN mempool') /\ IsFiniteSet(DOMAIN mempool')
  BY <1>5, <1>6, <1>7, <1>8, <1>9
<1>12. (\A x \in all_blocks : Tallied(replay[x]))'
  BY <1>1 DEF PoolInv
<1>13. TypeOK'
  BY <1>1, <1>2, <1>10 DEF PoolInv, TypeOK, ForkInv
<1> QED BY <1>2, <1>11, <1>12, <1>13 DEF PoolInv, MempoolAccounting

LEMMA NextPoolInv == PoolInv /\ [Next]_vars => PoolInv'
<1> SUFFICES ASSUME PoolInv, [Next]_vars PROVE PoolInv'
  OBVIOUS
<1>1. CASE \E b \in Hash, now \in Clock : AddBlock(b, now)
  BY <1>1, AddBlockPoolInv
<1>2. CASE \E t \in Txid : SubmitTransaction(t)
  BY <1>2, SubmitPoolInv
<1>3. CASE UNCHANGED vars
  <2>1. ForkInv'
    BY <1>3, NextForkInv DEF PoolInv
  <2>2. UNCHANGED <<network_magic, all_blocks, tip, utxo_set, total_minted, mempool, mempool_bytes>>
    BY <1>3 DEF vars, active, pool
  <2> QED BY <2>1, <2>2 DEF PoolInv, TypeOK, MempoolAccounting, ForkInv
<1> QED BY <1>1, <1>2, <1>3 DEF Next

(* Types hold, the caches hold what a replay of the active chain holds, and the
   mempool stays within its capacity, whatever blocks and transactions are
   offered (add_block, rebuild_active_state, add_with_fee).                 *)
THEOREM TypeCorrect == Spec => []TypeOK
<1>1. PoolInv => TypeOK
  BY DEF PoolInv
<1> QED BY InitPoolInv, NextPoolInv, <1>1, PTL DEF Spec

(* The byte count of the mempool never drifts from what it holds, whatever
   blocks remove from it (Mempool::add_with_fee, Mempool::remove).          *)
THEOREM MempoolIsAccounted == Spec => []MempoolAccounting
<1>1. PoolInv => MempoolAccounting
  BY DEF PoolInv
<1> QED BY InitPoolInv, NextPoolInv, <1>1, PTL DEF Spec

-----------------------------------------------------------------------------
(* The ledger, for blocks whose coinbases differ. *)

LEMMA AcceptedIsValidOn ==
  ASSUME PoolInv, NEW b \in Hash, NEW now, Accepts(b, now)
  PROVE  /\ ValidOn(b, minted_upto[prev(b)], NETWORK_MAGIC)
         /\ prev(b) \in all_blocks /\ height(b) # 0
<1> DEFINE p == prev(b)
<1>1. p \in all_blocks /\ p \in Hash /\ height(b) = height(p) + 1 /\ block[b].bits = next_bits[p]
      /\ height(p) \in Nat
  BY AcceptedBlock, Constants
<1>2. BranchShape(p)
  BY <1>1 DEF PoolInv, ForkInv
<1>3. ancestry[b] = ancestry[p] \cup {b}
  BY <1>1, <1>2, BranchExtends
<1>4. \A a \in ancestry[p] : a \in Hash /\ height(a) < height(b)
  <2>1. \A a \in ancestry[p] : a \in Hash /\ height(a) <= height(p)
    BY <1>2 DEF BranchShape
  <2> QED BY <1>1, <2>1, Constants
<1>5. ParentUtxo(p) = replay[p] /\ ParentMinted(p) = minted_upto[p] /\ network_magic = NETWORK_MAGIC
  BY DEF PoolInv, TypeOK, ParentUtxo, ParentMinted
<1>6. /\ ValidBlock(b)
      /\ ValidSubsidy(ParentUtxo(p), ParentMinted(p), Head(block[b].transactions),
                      Tail(block[b].transactions), network_magic, height(b))
      /\ ValidInOrder(ParentUtxo(p), Tail(block[b].transactions), network_magic, height(b))
  BY DEF Accepts, ValidAgainstParent
<1> QED BY <1>1, <1>3, <1>4, <1>5, <1>6 DEF ValidOn

(* A transaction that is valid against the UTXO set of a sound branch and pays a
   fee is not on that branch: what it spends would be gone.                 *)
LEMMA ValidIsNew ==
  ASSUME NEW x \in Hash, SoundBranch(x), ancestry[x] \subseteq Hash, Tallied(replay[x]),
         NEW t \in Txid, NEW magic, NEW h,
         ValidTx(replay[x], t, magic, h), Fee(replay[x], t) # 0
  PROVE  t \notin TxsOf(ancestry[x])
<1> DEFINE C == ancestry[x]
           us == replay[x]
<1> SUFFICES ASSUME t \in TxsOf(C) PROVE FALSE
  OBVIOUS
<1>1. tx[t].inputs \in Seq(Outpoint) /\ DOMAIN tx[t].inputs # {}
  BY FeeType, TxFields
<1>2. 1 \in DOMAIN tx[t].inputs
  BY <1>1
<1> DEFINE o == tx[t].inputs[1]
<1>3. o \in ToSet(tx[t].inputs) /\ o \in DOMAIN us.utxos
  BY <1>2 DEF ToSet, ValidTx, SpendsUnspent
<1>4. o \in CreatedOn(C) /\ o \notin SpentOn(C)
  BY <1>3 DEF SoundBranch
<1>5. ~ tx[t].is_coinbase
  <2>1. PICK q \in PlacedIn(C) : o \in Creates(TxidAt(q))
    BY <1>4 DEF CreatedOn
  <2>2. q[1] \in Hash /\ TxidAt(q) \in ToSet(block[q[1]].transactions) /\ TxidAt(q) \in Txid
    BY PlaceFields
  <2>3. o[1] = TxidAt(q)
    BY <2>1, <2>2, TxFields
  <2> QED BY <2>2, <2>3, NullAssumption
<1>6. PICK q \in PlacedIn(C) : TxidAt(q) = t
  <2>1. PICK a \in C : t \in ToSet(block[a].transactions)
    BY DEF TxsOf
  <2>2. PICK k \in DOMAIN block[a].transactions : t = block[a].transactions[k]
    BY <2>1 DEF ToSet
  <2>3. <<a, k>> \in PlacedIn(C) /\ TxidAt(<<a, k>>) = t
    BY <2>2 DEF PlacedIn, TxidAt
  <2> QED BY <2>3
<1>7. o \in Spends(TxidAt(q))
  BY <1>3, <1>5, <1>6 DEF Spends
<1> QED BY <1>4, <1>6, <1>7 DEF SpentOn

(* The inductive invariant: exactness on EVERY known branch is what lets a branch
   take over, since its blocks were checked against a replay when they came. *)
LedgerInv ==
  /\ PoolInv
  /\ ReplayExact
  /\ ConfirmedNotPending

LEMMA InitLedgerInv == Init => LedgerInv
<1> SUFFICES ASSUME Init PROVE LedgerInv
  OBVIOUS
<1>1. all_blocks = {Genesis} /\ DOMAIN mempool = {}
  BY DEF Init
<1> QED BY <1>1, InitPoolInv, SoundGenesis DEF LedgerInv, ReplayExact, ConfirmedNotPending

LEMMA NextLedgerInv ==
  ASSUME CoinbasesDistinct
  PROVE  LedgerInv /\ [Next]_vars => LedgerInv'
<1> SUFFICES ASSUME LedgerInv, [Next]_vars PROVE LedgerInv'
  OBVIOUS
<1>1. PoolInv'
  BY NextPoolInv DEF LedgerInv
<1>2. CASE \E b \in Hash, now \in Clock : AddBlock(b, now)
  <2>1. PICK b \in Hash, now \in Clock : AddBlock(b, now)
    BY <1>2
  <2>2. Accepts(b, now) /\ PoolInv /\ ForkInv
    BY <2>1 DEF AddBlock, LedgerInv, PoolInv
  <2>3. ValidOn(b, minted_upto[prev(b)], NETWORK_MAGIC) /\ prev(b) \in all_blocks /\ height(b) # 0
    BY <2>2, AcceptedIsValidOn
  <2>4. SoundBranch(b)
    <3>1. SoundBranch(prev(b))
      BY <2>3 DEF LedgerInv, ReplayExact
    <3> QED BY <2>3, <3>1, SoundExtends
  <2>5. all_blocks' \subseteq all_blocks \cup {b}
    BY <2>1 DEF AddBlock, Retained
  <2>6. ReplayExact'
    BY <2>4, <2>5 DEF LedgerInv, ReplayExact
  <2>7. ConfirmedNotPending'
    <3>1. CASE candidate_work(b) > chain_work[tip]
      <4>1. blocks' = ancestry[b] /\ RemoveFromMempool(TxsOf(ancestry[b]))
        BY <2>1, <3>1 DEF AddBlock, activate_chain
      <4>2. DOMAIN mempool' = DOMAIN mempool \ TxsOf(ancestry[b])
        BY <4>1 DEF RemoveFromMempool, Restrict
      <4> QED BY <4>1, <4>2 DEF ConfirmedNotPending, TxsOf
    <3>2. CASE ~ (candidate_work(b) > chain_work[tip])
      <4>1. UNCHANGED <<blocks, mempool>>
        BY <2>1, <3>2 DEF AddBlock, active, pool
      <4> QED BY <4>1 DEF LedgerInv, ConfirmedNotPending, TxsOf
    <3> QED BY <3>1, <3>2
  <2> QED BY <1>1, <2>6, <2>7 DEF LedgerInv
<1>3. CASE \E t \in Txid : SubmitTransaction(t)
  <2>1. PICK t \in Txid : SubmitTransaction(t)
    BY <1>3
  <2>2. UNCHANGED <<all_blocks, blocks>> /\ mempool' = Insert(mempool, t, Fee(utxo_set, t))
        /\ Fee(utxo_set, t) >= MIN_FEE_ARKES
        /\ ValidTx(utxo_set, t, network_magic, height(tip))
    BY <2>1 DEF SubmitTransaction, active, add_with_fee
  <2>3. /\ tip \in all_blocks /\ tip \in Hash /\ utxo_set = replay[tip] /\ blocks = ancestry[tip]
        /\ blocks \subseteq Hash /\ SoundBranch(tip) /\ Tallied(replay[tip])
    BY DEF LedgerInv, PoolInv, TypeOK, ForkInv, ForkTypeOK, ReplayExact
  <2>4. Fee(utxo_set, t) # 0
    BY <2>2, MempoolAssumption
  <2>5. t \notin TxsOf(blocks)
    BY <2>2, <2>3, <2>4, ValidIsNew
  <2>6. DOMAIN mempool' = DOMAIN mempool \cup {t}
    BY <2>2 DEF Insert
  <2> QED BY <1>1, <2>2, <2>5, <2>6 DEF LedgerInv, ReplayExact, ConfirmedNotPending, TxsOf
<1>4. CASE UNCHANGED vars
  <2>1. UNCHANGED <<all_blocks, blocks, mempool>>
    BY <1>4 DEF vars, active, pool
  <2> QED BY <1>1, <2>1 DEF LedgerInv, ReplayExact, ConfirmedNotPending, TxsOf
<1> QED BY <1>2, <1>3, <1>4 DEF Next

(* No output is spent twice on the active chain, and none before it exists. *)
THEOREM NoDoubleSpend ==
  ASSUME CoinbasesDistinct
  PROVE  Spec => []SpentOnce
<1>1. LedgerInv => SpentOnce
  BY DEF LedgerInv, PoolInv, ForkInv, ForkTypeOK, ReplayExact, SoundBranch, SpentOnce
<1>2. LedgerInv /\ [Next]_vars => LedgerInv'
  BY NextLedgerInv
<1> QED BY InitLedgerInv, <1>2, <1>1, PTL DEF Spec

(* A coinbase that claims its real height is not spent before it matures, on the
   active chain (is_immature_coinbase).                                    *)
THEOREM CoinbasesMature ==
  ASSUME CoinbasesDistinct
  PROVE  Spec => []CoinbaseMatures
<1>1. LedgerInv => CoinbaseMatures
  BY DEF LedgerInv, PoolInv, ForkInv, ForkTypeOK, ReplayExact, SoundBranch, CoinbaseMatures
<1>2. LedgerInv /\ [Next]_vars => LedgerInv'
  BY NextLedgerInv
<1> QED BY InitLedgerInv, <1>2, <1>1, PTL DEF Spec

(* Every known branch obeys the rules and its replay is exact, so that a
   reorganisation to any of them installs the right UTXO set
   (parent_context, rebuild_active_state).                                  *)
THEOREM ReplaysAreExact ==
  ASSUME CoinbasesDistinct
  PROVE  Spec => []ReplayExact
<1>1. LedgerInv => ReplayExact
  BY DEF LedgerInv
<1>2. LedgerInv /\ [Next]_vars => LedgerInv'
  BY NextLedgerInv
<1> QED BY InitLedgerInv, <1>2, <1>1, PTL DEF Spec

(* No transaction is pending and confirmed at once, across reorganisations and
   resubmissions (activate_chain, submit_transaction).                      *)
THEOREM NoConfirmedPending ==
  ASSUME CoinbasesDistinct
  PROVE  Spec => []ConfirmedNotPending
<1>1. LedgerInv => ConfirmedNotPending
  BY DEF LedgerInv
<1>2. LedgerInv /\ [Next]_vars => LedgerInv'
  BY NextLedgerInv
<1> QED BY InitLedgerInv, <1>2, <1>1, PTL DEF Spec

-----------------------------------------------------------------------------
(* Chain implements Supply. *)

(* The subsidy schedule is a table of natural numbers. *)
LEMMA SubsidyType == \A k \in 0..63 : subsidy[k] \in Nat
<1> DEFINE Table(f, m) ==
      f = [k \in 0..m |-> IF k = 0 THEN BLOCK_REWARD_INITIAL ELSE f[k - 1] \div 2]
           Good == {m \in 0..63 : \E f : Table(f, m)}
<1>1. 0 \in Good
  <2>1. Table([k \in 0..0 |-> BLOCK_REWARD_INITIAL], 0)
    OBVIOUS
  <2>2. \E f : Table(f, 0)
    BY <2>1
  <2> QED BY <2>2
<1>2. ASSUME NEW m \in 0 .. 63 - 1, m \in Good PROVE m + 1 \in Good
  <2>1. PICK f : f = [k \in 0..m |-> IF k = 0 THEN BLOCK_REWARD_INITIAL ELSE f[k - 1] \div 2]
    BY <1>2
  <2> DEFINE g == [k \in 0 .. m + 1 |-> IF k = m + 1 THEN f[m] \div 2 ELSE f[k]]
  <2>2. ASSUME NEW k \in 0 .. m + 1
        PROVE  g[k] = IF k = 0 THEN BLOCK_REWARD_INITIAL ELSE g[k - 1] \div 2
    <3>1. CASE k = m + 1
      <4>1. k # 0 /\ k - 1 = m /\ m \in 0 .. m + 1 /\ m # m + 1
        BY <3>1
      <4> QED BY <3>1, <4>1
    <3>2. CASE k # m + 1
      <4>1. k \in 0..m /\ (k # 0 => k - 1 \in 0 .. m + 1 /\ k - 1 # m + 1)
        BY <3>2
      <4>2. f[k] = IF k = 0 THEN BLOCK_REWARD_INITIAL ELSE f[k - 1] \div 2
        BY <2>1, <4>1
      <4> QED BY <3>2, <4>1, <4>2
    <3> QED BY <3>1, <3>2
  <2>3. g = [k \in 0 .. m + 1 |-> g[k]]
    OBVIOUS
  <2> HIDE DEF g
  <2>4. Table(g, m + 1)
    BY <2>2, <2>3
  <2> QED BY <2>4
<1> HIDE DEF Good
<1>3. \A m \in 0..63 : m \in Good
  BY <1>1, <1>2, RangeInduction
<1>4. \E f : Table(f, 63)
  BY <1>3 DEF Good
<1>5. Table(subsidy, 63)
  BY <1>4, Zenon DEF subsidy
<1> DEFINE Typed == {k \in 0..63 : subsidy[k] \in Nat}
<1>6. 0 \in Typed
  BY <1>5, LedgerConstants
<1>7. ASSUME NEW k \in 0 .. 63 - 1, k \in Typed PROVE k + 1 \in Typed
  <2>1. subsidy[k + 1] = subsidy[k] \div 2
    BY <1>5
  <2> QED BY <1>7, <2>1
<1> HIDE DEF Typed
<1>8. \A k \in 0..63 : k \in Typed
  BY <1>6, <1>7, RangeInduction
<1> QED BY <1>8 DEF Typed

LEMMA RewardIsCapped ==
  ASSUME NEW h \in Nat, NEW minted \in Nat
  PROVE  /\ capped_block_reward(h, minted) \in Nat
         /\ capped_block_reward(h, minted) <= remaining_supply(minted)
<1>1. h \div HALVING_INTERVAL \in Nat
  BY LedgerConstants
<1>2. block_reward(h) \in Nat
  BY <1>1, SubsidyType DEF block_reward
<1>3. remaining_supply(minted) \in Nat
  BY LedgerConstants DEF remaining_supply
<1> QED BY <1>2, <1>3 DEF capped_block_reward

(* The value of a set of unspent outputs. *)
Worth(us, S) == SumFunctionOnSet([o \in DOMAIN us.utxos |-> us.utxos[o].value], S)

LEMMA WorthAdds ==
  ASSUME NEW us, Tallied(us)
  PROVE  /\ Circulating(us) = Worth(us, DOMAIN us.utxos)
         /\ \A S \in SUBSET DOMAIN us.utxos :
              Worth(us, S) \in Nat /\ Worth(us, DOMAIN us.utxos \ S) \in Nat
              /\ Circulating(us) = Worth(us, S) + Worth(us, DOMAIN us.utxos \ S)
         /\ Circulating(us) \in Nat
<1> DEFINE D == DOMAIN us.utxos
           v == [o \in D |-> us.utxos[o].value]
<1>1. \A o \in D : v[o] \in Nat /\ v[o] \in Int
  BY DEF Tallied, Output
<1>2. DOMAIN v = D /\ IsFiniteSet(D)
  BY DEF Tallied
<1>3. Circulating(us) = SumFunctionOnSet(v, D)
  BY DEF Circulating, SumFunction
<1> HIDE DEF v
<1>4. ASSUME NEW S \in SUBSET D PROVE SumFunctionOnSet(v, S) \in Nat
  <2>1. IsFiniteSet(S) /\ \A o \in S : v[o] \in Nat
    BY <1>1, <1>2, FS_Subset
  <2> QED BY <2>1, SumType
<1>5. ASSUME NEW S \in SUBSET D
      PROVE SumFunctionOnSet(v, D) = SumFunctionOnSet(v, S) + SumFunctionOnSet(v, D \ S)
  BY <1>1, <1>2, SumOfUnion
<1>6. D \in SUBSET D /\ \A S \in SUBSET D : D \ S \in SUBSET D
  OBVIOUS
<1> QED BY <1>3, <1>4, <1>5, <1>6 DEF Worth, v

(* What a transaction spends is worth its inputs, if it lists none twice. *)
LEMMA InputsWorth ==
  ASSUME NEW us, Tallied(us), NEW t \in Txid, ~ Repeats(t),
         ToSet(tx[t].inputs) \subseteq DOMAIN us.utxos
  PROVE  Worth(us, ToSet(tx[t].inputs)) = InputSum(us, t)
<1> DEFINE I == DOMAIN tx[t].inputs
           p == tx[t].inputs
           g == [o \in DOMAIN us.utxos |-> us.utxos[o].value]
           ins == [i \in I |-> us.utxos[p[i]]]
           f == [i \in I |-> ins[i].value]
<1>1. InputSum(us, t) = SumFunctionOnSet(f, I)
  <2>1. InputSum(us, t) = OutputSum(ins)
    BY DEF InputSum
  <2>2. DOMAIN ins = I
    OBVIOUS
  <2>3. OutputSum(ins) = SumFunction(f)
    BY <2>2 DEF OutputSum
  <2> QED BY <2>1, <2>3 DEF SumFunction
<1>2. IsFiniteSet(I)
  <2>1. I = 1..Len(tx[t].inputs) /\ Len(tx[t].inputs) \in Int
    BY TxFields
  <2> HIDE DEF I
  <2> QED BY <2>1, FS_Interval
<1>3. \A i, j \in I : p[i] = p[j] => i = j
  BY DEF Repeats
<1>4. ToSet(tx[t].inputs) = {p[i] : i \in I}
  BY DEF ToSet
<1>5. \A i \in I : p[i] \in DOMAIN us.utxos
  BY <1>4
<1>6. \A i \in I : f[i] = g[p[i]] /\ f[i] \in Int
  <2> SUFFICES ASSUME NEW i \in I PROVE f[i] = g[p[i]] /\ f[i] \in Int
    OBVIOUS
  <2>1. f[i] = us.utxos[p[i]].value /\ g[p[i]] = us.utxos[p[i]].value
    BY <1>5
  <2>2. us.utxos[p[i]] \in Output
    BY <1>5 DEF Tallied
  <2> HIDE DEF f, g, p
  <2> QED BY <2>1, <2>2 DEF Output
<1> HIDE DEF I, p, g, f
<1>7. SumFunctionOnSet(f, I) = SumFunctionOnSet(g, {p[i] : i \in I})
  BY <1>2, <1>3, <1>6, SumReindexes
<1> QED BY <1>1, <1>4, <1>7 DEF Worth, g

(* What a transaction creates is worth its outputs. *)
LEMMA OutputsWorth ==
  ASSUME NEW us, Tallied(us), NEW t \in Txid, Creates(t) \subseteq DOMAIN us.utxos,
         \A o \in Creates(t) : us.utxos[o] = tx[t].outputs[o[2]]
  PROVE  Worth(us, Creates(t)) = OutputSum(tx[t].outputs)
<1> DEFINE I == DOMAIN tx[t].outputs
           p == [i \in I |-> <<t, i>>]
           g == [o \in DOMAIN us.utxos |-> us.utxos[o].value]
           f == [i \in I |-> tx[t].outputs[i].value]
<1>1. OutputSum(tx[t].outputs) = SumFunctionOnSet(f, I)
  BY DEF OutputSum, SumFunction
<1>2. IsFiniteSet(I)
  <2>1. I = 1..Len(tx[t].outputs) /\ Len(tx[t].outputs) \in Nat
    BY TxFields
  <2> QED BY <2>1, FS_Interval
<1>3. \A i, j \in I : p[i] = p[j] => i = j
  OBVIOUS
<1>4. Creates(t) = {p[i] : i \in I}
  <2>1. \A i \in I : p[i] = <<t, i>>
    OBVIOUS
  <2>2. \A o \in Creates(t) : \E i \in I : o = <<t, i>>
    BY DEF Creates
  <2>3. \A i \in I : <<t, i>> \in Creates(t)
    BY DEF Creates
  <2> HIDE DEF p, I
  <2> QED BY <2>1, <2>2, <2>3
<1>5. \A i \in I : p[i] \in Creates(t) /\ p[i][2] = i /\ p[i] \in DOMAIN us.utxos
  BY <1>4
<1>6. \A i \in I : f[i] = g[p[i]] /\ f[i] \in Int
  <2> SUFFICES ASSUME NEW i \in I PROVE f[i] = g[p[i]] /\ f[i] \in Int
    OBVIOUS
  <2>1. f[i] = tx[t].outputs[i].value /\ f[i] \in Nat
    BY TxFields
  <2>2. us.utxos[p[i]] = tx[t].outputs[i]
    BY <1>5
  <2>3. g[p[i]] = us.utxos[p[i]].value
    BY <1>5
  <2> QED BY <2>1, <2>2, <2>3
<1> HIDE DEF I, p, g, f
<1>7. SumFunctionOnSet(f, I) = SumFunctionOnSet(g, {p[i] : i \in I})
  BY <1>2, <1>3, <1>6, SumReindexes
<1> QED BY <1>1, <1>4, <1>7 DEF Worth, g

(* What one transaction moves. *)
Moved(us, t) == IF tx[t].is_coinbase THEN 0 ELSE InputSum(us, t)

LEMMA ApplyCirculates ==
  ASSUME NEW us, Tallied(us), NEW t \in Txid, ~ Repeats(t),
         Spends(t) \subseteq DOMAIN us.utxos, Creates(t) \cap DOMAIN us.utxos = {}
  PROVE  /\ Moved(us, t) \in Nat
         /\ Circulating(apply_transaction(us, t))
              = Circulating(us) - Moved(us, t) + OutputSum(tx[t].outputs)
<1> DEFINE r == apply_transaction(us, t)
           D == DOMAIN us.utxos
           E == DOMAIN r.utxos
<1>1. /\ E = (D \ Spends(t)) \cup Creates(t)
      /\ \A o \in Creates(t) : r.utxos[o] = tx[t].outputs[o[2]]
      /\ \A o \in D \ Spends(t) : o \notin Creates(t) => r.utxos[o] = us.utxos[o]
  BY ApplyOne
<1>2. Tallied(r)
  BY ApplyTallied
<1> HIDE DEF r
<1>3. Creates(t) \in SUBSET E /\ E \ Creates(t) = D \ Spends(t) /\ Spends(t) \in SUBSET D
  BY <1>1
<1>4. Circulating(us) = Worth(us, Spends(t)) + Worth(us, D \ Spends(t))
      /\ Worth(us, Spends(t)) \in Nat /\ Worth(us, D \ Spends(t)) \in Nat
  BY <1>3, WorthAdds
<1>5. Circulating(r) = Worth(r, Creates(t)) + Worth(r, E \ Creates(t))
      /\ Worth(r, Creates(t)) \in Nat
  BY <1>2, <1>3, WorthAdds
<1>6. Worth(r, Creates(t)) = OutputSum(tx[t].outputs)
  BY <1>1, <1>2, <1>3, OutputsWorth
<1>7. Worth(r, E \ Creates(t)) = Worth(us, D \ Spends(t))
  <2> DEFINE f == [o \in D |-> us.utxos[o].value]
             g == [o \in E |-> r.utxos[o].value]
             S == D \ Spends(t)
  <2>1. IsFiniteSet(S)
    BY FS_Subset DEF Tallied
  <2>2. \A o \in S : g[o] = f[o]
    BY <1>1
  <2> HIDE DEF f, g, S
  <2>3. SumFunctionOnSet(g, S) = SumFunctionOnSet(f, S)
    BY <2>1, <2>2, SumOfEqual
  <2> QED BY <1>3, <2>3 DEF Worth, f, g, S
<1>8. Worth(us, Spends(t)) = Moved(us, t)
  <2>1. CASE tx[t].is_coinbase
    <3>1. Spends(t) = {} /\ Moved(us, t) = 0
      BY <2>1 DEF Spends, Moved
    <3>2. IsFiniteSet({})
      BY FS_EmptySet
    <3>3. Worth(us, {}) = 0
      BY <3>2, SumUnfolds DEF Worth
    <3> QED BY <3>1, <3>3
  <2>2. CASE ~ tx[t].is_coinbase
    BY <2>2, InputsWorth DEF Spends, Moved
  <2> QED BY <2>1, <2>2
<1> HIDE DEF D, E
<1> QED BY <1>4, <1>5, <1>6, <1>7, <1>8 DEF r

(* Every transaction of an accepted body finds its inputs in the state that those
   before it leave, and creates nothing that is there.                      *)
LEMMA FreshInOrder ==
  ASSUME CoinbasesDistinct, NEW b \in Hash, NEW minted, NEW magic, ValidOn(b, minted, magic),
         SoundBranch(prev(b)),
         NEW g, Passes(g, replay[prev(b)], Body(b)), NEW j \in 1..Len(Body(b))
  PROVE  /\ Spends(Body(b)[j]) \subseteq DOMAIN g[j - 1].utxos
         /\ Creates(Body(b)[j]) \cap DOMAIN g[j - 1].utxos = {}
         /\ Genuine(g[j - 1])
<1> DEFINE T == Body(b)
           us == replay[prev(b)]
           C == ancestry[prev(b)]
           t == T[j]
<1>1. /\ \A k \in 2..Len(T) : ~ tx[T[k]].is_coinbase
      /\ \A k \in 1..Len(T) : Spends(T[k]) \subseteq DOMAIN us.utxos
      /\ \A k \in 1..Len(T) : Creates(T[k]) \cap CreatedOn(C) = {}
      /\ \A i, k \in 1..Len(T) : Spends(T[i]) \cap Creates(T[k]) = {}
  BY BodyIsFresh
<1>2. /\ T \in Seq(Txid) /\ Len(T) \in Nat /\ \A k \in 1..Len(T) : T[k] \in Txid
      /\ tx[T[1]].is_coinbase
      /\ \A k \in 2..Len(T) : ValidTx(us, T[k], magic, height(b))
  BY BodyIsValid
<1>3. Genuine(us) /\ DOMAIN us.utxos \subseteq CreatedOn(C)
  BY DEF SoundBranch
<1>4. \A i \in 1 .. j - 1 : i \in 1..Len(T) /\ Spends(T[i]) \cap Spends(t) = {}
  <2> SUFFICES ASSUME NEW i \in 1 .. j - 1
               PROVE  i \in 1..Len(T) /\ Spends(T[i]) \cap Spends(t) = {}
    OBVIOUS
  <2>1. i \in 1..Len(T) /\ i < j
    BY <1>2
  <2> QED BY <2>1, BodySpendsOnce
<1>5. Independent(T)
  BY <1>1 DEF Independent
<1> HIDE DEF T, us, C
<1>6. Effect(us, T, j - 1, g[j - 1])
  <2>1. \A k \in 0..Len(T) : Effect(us, T, k, g[k])
    BY <1>2, <1>3, <1>5, BodyEffect DEF T, us
  <2>2. j - 1 \in 0..Len(T)
    BY <1>2 DEF T
  <2> QED BY <2>1, <2>2
<1>7. DOMAIN g[j - 1].utxos = (DOMAIN us.utxos \ SpentUpto(T, j - 1)) \cup CreatedUpto(T, j - 1)
  BY <1>6 DEF Effect
<1>8. j \in 1..Len(T)
  BY DEF T
<1>9. Spends(t) \cap SpentUpto(T, j - 1) = {}
  BY <1>4 DEF SpentUpto
<1>10. Creates(t) \cap CreatedUpto(T, j - 1) = {}
  <2> SUFFICES ASSUME NEW i \in 1 .. j - 1, NEW o \in Creates(T[i]), o \in Creates(t) PROVE FALSE
    BY DEF CreatedUpto
  <2>1. i \in 1..Len(T) /\ j \in 2..Len(T) /\ T[i] \in Txid /\ t \in Txid
    BY <1>2, <1>4, <1>8
  <2>2. T[i] = t /\ o[2] \in DOMAIN tx[t].outputs
    BY <2>1, TxFields
  <2>3. DOMAIN tx[t].inputs # {}
    <3>1. ValidTx(us, t, magic, height(b)) /\ DOMAIN tx[t].outputs # {}
      BY <1>2, <2>1, <2>2
    <3> QED BY <2>1, <3>1, CreatorSpends
  <2>4. Spends(t) # {}
    <3>1. PICK k \in DOMAIN tx[t].inputs : TRUE
      BY <2>3
    <3>2. tx[t].inputs[k] \in ToSet(tx[t].inputs)
      BY <3>1 DEF ToSet
    <3>3. ~ tx[t].is_coinbase
      BY <1>1, <2>1
    <3> QED BY <3>2, <3>3 DEF Spends
  <2> QED BY <1>4, <2>2, <2>4
<1>11. Creates(t) \cap DOMAIN us.utxos = {}
  BY <1>1, <1>3, <1>8
<1>12. Spends(t) \subseteq DOMAIN us.utxos
  BY <1>1, <1>8
<1>13. Genuine(g[j - 1])
  BY <1>6 DEF Effect
<1> QED BY <1>7, <1>9, <1>10, <1>11, <1>12, <1>13 DEF T

(* An accepted block adds what its coinbase claims to the circulation and takes
   the fees out of it; the coinbase's outputs are all in circulation.        *)
LEMMA BlockCirculates ==
  ASSUME CoinbasesDistinct, NEW b \in Unrepeated, b \in Hash, NEW minted, NEW magic, ValidOn(b, minted, magic),
         SoundBranch(prev(b)), Tallied(replay[prev(b)]), height(b) # 0
  PROVE  /\ TotalFees(replay[prev(b)], Tail(Body(b))) \in Nat
         /\ coinbase_value(b) \in Nat
         /\ Circulating(replay[b]) = Circulating(replay[prev(b)]) + coinbase_value(b)
                                       - TotalFees(replay[prev(b)], Tail(Body(b)))
<1> DEFINE T == Body(b)
           L == Tail(T)
           m == Len(L)
           us == replay[prev(b)]
           fee == [k \in 1..m |-> Fee(us, L[k])]
           cv == coinbase_value(b)
<1>1. /\ T \in Seq(Txid) /\ Len(T) \in Nat \ {0} /\ \A k \in 1..Len(T) : T[k] \in Txid
      /\ tx[T[1]].is_coinbase
      /\ L \in Seq(Txid) /\ m = Len(T) - 1
      /\ \A k \in 2..Len(T) : k - 1 \in 1..m /\ L[k - 1] = T[k]
                              /\ ValidTx(us, T[k], magic, height(b))
  BY BodyIsValid
<1>0. \A k \in 1..Len(T) : ~ Repeats(T[k])
  <2>1. b \in ancestry[b] /\ \A k \in 1..Len(T) : T[k] \in ToSet(T)
    BY <1>1, AncestryUnfolds DEF ToSet
  <2>2. \A k \in 1..Len(T) : T[k] \in TxsOf(ancestry[b])
    BY <2>1 DEF TxsOf, Body
  <2> QED BY <2>2 DEF Unrepeated
<1>2. Genuine(us)
  BY DEF SoundBranch
<1>3. PICK g : Passes(g, us, T) /\ ApplyAll(us, T) = g[Len(T)]
  BY <1>1, ApplyAllPasses
<1>4. \A j \in 1..Len(T) :
        /\ Spends(T[j]) \subseteq DOMAIN g[j - 1].utxos
        /\ Creates(T[j]) \cap DOMAIN g[j - 1].utxos = {}
        /\ Genuine(g[j - 1])
  BY <1>3, FreshInOrder
<1>5. \A k \in 2..Len(T) : ~ tx[T[k]].is_coinbase
  BY BodyIsFresh
<1>6. replay[b] = g[Len(T)]
  BY <1>3, ReplayUnfolds
<1>7. cv = OutputSum(tx[T[1]].outputs) /\ cv \in Nat
  <2>1. T # <<>> /\ Head(T) = T[1]
    BY <1>1
  <2>2. cv = OutputSum(tx[T[1]].outputs)
    BY <2>1 DEF coinbase_value, Body
  <2>3. T[1] \in Txid
    BY <1>1
  <2>4. OutputSum(tx[T[1]].outputs) \in Nat
    BY <2>3, TxFields, OutputSumType
  <2> QED BY <2>2, <2>4
<1> HIDE DEF cv
<1>8. \A k \in 1..m : fee[k] = Fee(us, T[k + 1]) /\ fee[k] \in Nat /\ fee[k] \in Int
  <2> SUFFICES ASSUME NEW k \in 1..m
               PROVE  fee[k] = Fee(us, T[k + 1]) /\ fee[k] \in Nat /\ fee[k] \in Int
    OBVIOUS
  <2>1. k + 1 \in 2..Len(T) /\ (k + 1) - 1 = k /\ k + 1 \in 1..Len(T)
    BY <1>1
  <2>2. L[k] = T[k + 1] /\ T[k + 1] \in Txid /\ ValidTx(us, T[k + 1], magic, height(b))
    BY <1>1, <2>1
  <2>3. fee[k] = Fee(us, T[k + 1])
    BY <2>2
  <2>4. Fee(us, T[k + 1]) \in Nat
    BY <2>2, FeeType
  <2> QED BY <2>3, <2>4
<1>9. TotalFees(us, L) = SumFunctionOnSet(fee, 1..m)
  <2>1. DOMAIN L = 1..m
    BY <1>1
  <2>2. TotalFees(us, L) = SumFunction(fee)
    BY <2>1 DEF TotalFees
  <2>3. DOMAIN fee = 1..m
    OBVIOUS
  <2> HIDE DEF fee
  <2> QED BY <2>2, <2>3 DEF SumFunction
<1>10. m \in Nat
  BY <1>1
<1> HIDE DEF us, T, L, fee, m
<1>11. \A k \in 0..m : IsFiniteSet(1..k) /\ SumFunctionOnSet(fee, 1..k) \in Nat
  <2> SUFFICES ASSUME NEW k \in 0..m
               PROVE  IsFiniteSet(1..k) /\ SumFunctionOnSet(fee, 1..k) \in Nat
    OBVIOUS
  <2>1. IsFiniteSet(1..k)
    BY FS_Interval
  <2>2. \A i \in 1..k : fee[i] \in Nat
    BY <1>8, <1>10
  <2> QED BY <2>1, <2>2, SumType
<1>12. \A k \in 0..Len(T) : Tallied(g[k])
  BY <1>1, <1>3, PassesTallied DEF us
<1>13. Circulating(us) \in Nat
  BY WorthAdds DEF us
<1> DEFINE Good == {k \in 0..m :
             Circulating(g[k + 1]) = Circulating(us) + cv - SumFunctionOnSet(fee, 1..k)}
<1>14. 0 \in Good
  <2>1. 1 \in 1..Len(T) /\ 1 - 1 = 0 /\ 0 + 1 = 1 /\ 1..0 = {} /\ 0 \in 0..m /\ T[1] \in Txid
    BY <1>1, <1>10
  <2>2. g[1] = apply_transaction(us, T[1]) /\ g[0] = us /\ Tallied(us)
    BY <1>3, <2>1 DEF Passes, us
  <2>3. Spends(T[1]) \subseteq DOMAIN us.utxos /\ Creates(T[1]) \cap DOMAIN us.utxos = {}
    BY <1>4, <2>1, <2>2
  <2>4. Circulating(apply_transaction(us, T[1]))
          = Circulating(us) - Moved(us, T[1]) + OutputSum(tx[T[1]].outputs)
    BY <1>0, <2>1, <2>2, <2>3, ApplyCirculates
  <2>5. Moved(us, T[1]) = 0
    BY <1>1 DEF Moved
  <2>6. SumFunctionOnSet(fee, {}) = 0
    <3>1. IsFiniteSet({})
      BY FS_EmptySet
    <3> QED BY <3>1, SumUnfolds
  <2>7. Circulating(g[1]) = Circulating(us) + cv - 0
    BY <1>7, <1>13, <2>2, <2>4, <2>5
  <2> QED BY <2>1, <2>6, <2>7
<1>15. ASSUME NEW k \in 0 .. m - 1, k \in Good PROVE k + 1 \in Good
  <2> DEFINE j == k + 2
             t == T[j]
  <2>1. /\ j \in 2..Len(T) /\ j \in 1..Len(T) /\ j - 1 = k + 1 /\ k + 1 \in 0..Len(T)
        /\ k + 1 \in 1..m /\ k + 1 \in 0..m /\ (k + 1) + 1 = j /\ k \in 0..m
        /\ 1 .. k + 1 = (1..k) \cup {k + 1} /\ k + 1 \notin 1..k
    BY <1>1, <1>10
  <2>2. g[j] = apply_transaction(g[k + 1], t)
    BY <1>3, <2>1 DEF Passes
  <2>3. /\ Spends(t) \subseteq DOMAIN g[k + 1].utxos /\ Creates(t) \cap DOMAIN g[k + 1].utxos = {}
        /\ Genuine(g[k + 1]) /\ Tallied(g[k + 1]) /\ t \in Txid /\ ~ tx[t].is_coinbase
        /\ ValidTx(us, t, magic, height(b))
    BY <1>1, <1>4, <1>5, <1>12, <2>1
  <2>4. Circulating(g[j]) = Circulating(g[k + 1]) - Moved(g[k + 1], t) + OutputSum(tx[t].outputs)
    BY <1>0, <2>1, <2>2, <2>3, ApplyCirculates
  <2>5. Moved(g[k + 1], t) = InputSum(us, t)
    <3>1. \A i \in DOMAIN tx[t].inputs : tx[t].inputs[i] \in DOMAIN us.utxos
      BY <2>3 DEF ValidTx, SpendsUnspent
    <3>2. \A i \in DOMAIN tx[t].inputs : tx[t].inputs[i] \in DOMAIN g[k + 1].utxos
      BY <2>3 DEF Spends, ToSet
    <3>3. \A i \in DOMAIN tx[t].inputs :
            us.utxos[tx[t].inputs[i]] = g[k + 1].utxos[tx[t].inputs[i]]
      BY <1>2, <2>3, <3>1, <3>2 DEF Genuine, us
    <3>4. [i \in DOMAIN tx[t].inputs |-> us.utxos[tx[t].inputs[i]]]
            = [i \in DOMAIN tx[t].inputs |-> g[k + 1].utxos[tx[t].inputs[i]]]
      BY <3>3
    <3>5. InputSum(us, t) = InputSum(g[k + 1], t)
      BY <3>4 DEF InputSum
    <3> QED BY <2>3, <3>5 DEF Moved
  <2>6. /\ InputSum(us, t) \in Nat /\ OutputSum(tx[t].outputs) \in Nat
        /\ Fee(us, t) \in Nat /\ InputSum(us, t) = OutputSum(tx[t].outputs) + Fee(us, t)
    BY <2>3, FeeType DEF us
  <2>7. SumFunctionOnSet(fee, 1 .. k + 1) = fee[k + 1] + SumFunctionOnSet(fee, 1..k)
    <3>0. \A y \in (1..k) \cup {k + 1} : y \in 1..m
      BY <1>10
    <3>1. IsFiniteSet(1..k) /\ \A y \in (1..k) \cup {k + 1} : fee[y] \in Int
      BY <1>8, <1>11, <2>1, <3>0
    <3>2. SumFunctionOnSet(fee, (1..k) \cup {k + 1}) = fee[k + 1] + SumFunctionOnSet(fee, 1..k)
      BY <2>1, <3>1, SumAdds
    <3> QED BY <2>1, <3>2
  <2>8. fee[k + 1] = Fee(us, t)
    BY <1>8, <2>1
  <2>9. Circulating(g[k + 1]) = Circulating(us) + cv - SumFunctionOnSet(fee, 1..k)
    BY <1>15
  <2>10. SumFunctionOnSet(fee, 1..k) \in Nat
    BY <1>11, <2>1
  <2>11. Circulating(g[j]) = Circulating(us) + cv - SumFunctionOnSet(fee, 1 .. k + 1)
    BY <1>7, <1>13, <2>4, <2>5, <2>6, <2>7, <2>8, <2>9, <2>10
  <2> QED BY <2>1, <2>11
<1> HIDE DEF Good
<1>16. \A k \in 0..m : k \in Good
  BY <1>10, <1>14, <1>15, RangeInduction
<1>17. Circulating(g[m + 1]) = Circulating(us) + cv - SumFunctionOnSet(fee, 1..m)
  BY <1>10, <1>16 DEF Good
<1>18. m + 1 = Len(T) /\ m \in 0..m
  BY <1>1, <1>10
<1> QED BY <1>6, <1>7, <1>9, <1>11, <1>17, <1>18 DEF us, T, L, cv

(* The outputs of its coinbase are all in circulation after an accepted block. *)
LEMMA CoinbaseCirculates ==
  ASSUME NEW b \in Hash, Body(b) # <<>>, NEW us, Genuine(us), Tallied(us),
         Creates(Body(b)[1]) \subseteq DOMAIN us.utxos
  PROVE  /\ coinbase_value(b) \in Nat
         /\ Circulating(us) \in Nat
         /\ Circulating(us) >= coinbase_value(b)
         /\ DOMAIN us.utxos = Creates(Body(b)[1]) => Circulating(us) = coinbase_value(b)
<1> DEFINE t == Body(b)[1]
<1>1. Body(b) \in Seq(Txid)
  BY BlockAssumption DEF IsBlock, Body
<1>2. t \in Txid /\ Head(Body(b)) = t
  BY <1>1
<1>3. coinbase_value(b) = OutputSum(tx[t].outputs)
  BY <1>2 DEF coinbase_value, Body
<1> HIDE DEF t
<1>4. \A o \in Creates(t) : us.utxos[o] = tx[t].outputs[o[2]]
  <2>1. \A o \in Creates(t) : o[1] = t
    BY <1>2, TxFields
  <2> QED BY <2>1 DEF Genuine, t
<1>5. Worth(us, Creates(t)) = OutputSum(tx[t].outputs)
  BY <1>2, <1>4, OutputsWorth DEF t
<1>6. Creates(t) \in SUBSET DOMAIN us.utxos
  BY DEF t
<1>7. /\ Worth(us, Creates(t)) \in Nat /\ Worth(us, DOMAIN us.utxos \ Creates(t)) \in Nat
      /\ Circulating(us) = Worth(us, Creates(t)) + Worth(us, DOMAIN us.utxos \ Creates(t))
      /\ Circulating(us) = Worth(us, DOMAIN us.utxos)
  BY <1>6, WorthAdds
<1> QED BY <1>3, <1>5, <1>7 DEF t

(* One accepted block, as Supply sees it. *)
LEMMA BlockEarns ==
  ASSUME CoinbasesDistinct,
         NEW b \in Unrepeated, b \in Hash, NEW magic, ValidOn(b, minted_upto[prev(b)], magic),
         SoundBranch(prev(b)), Tallied(replay[prev(b)]), minted_upto[prev(b)] \in Nat, height(b) # 0,
         NEW before, NEW after,
         before = [circulating |-> Circulating(replay[prev(b)]), minted |-> minted_upto[prev(b)]],
         after = [circulating |-> Circulating(replay[b]), minted |-> minted_upto[b]]
  PROVE  after \in Money!Balance /\ Money!Earned(before, after)
<1> DEFINE us == replay[prev(b)]
           fees == TotalFees(us, Tail(Body(b)))
           cv == coinbase_value(b)
           minted == minted_upto[prev(b)]
<1>1. fees \in Nat /\ cv \in Nat /\ Circulating(replay[b]) = Circulating(us) + cv - fees
  BY BlockCirculates
<1>2. Circulating(us) \in Nat /\ minted \in Nat
  BY WorthAdds
<1>3. Effect(us, Body(b), Len(Body(b)), replay[b])
  BY ReplayOfBlock
<1>4. Body(b) \in Seq(Txid) /\ Len(Body(b)) \in Nat \ {0} /\ Body(b) # <<>> /\ 1 \in 1..Len(Body(b))
  BY BodyIsValid
<1>5. Creates(Body(b)[1]) \subseteq DOMAIN replay[b].utxos /\ Genuine(replay[b])
  BY <1>3, <1>4 DEF Effect, CreatedUpto
<1>6. Tallied(replay[b])
  BY ReplayTallied
<1>7. Circulating(replay[b]) \in Nat /\ Circulating(replay[b]) >= cv
  BY <1>4, <1>5, <1>6, CoinbaseCirculates
<1>8. minted_upto[b] = minted + cv
  BY ReplayUnfolds
<1>9. cv <= capped_block_reward(height(b), minted) + fees
  <2>1. OutputSum(tx[Head(Body(b))].outputs) <= capped_block_reward(height(b), minted) + fees
    BY DEF ValidOn, ValidSubsidy, Body
  <2> QED BY <1>4, <2>1 DEF coinbase_value, Body
<1>10. capped_block_reward(height(b), minted) \in Nat
       /\ capped_block_reward(height(b), minted) <= remaining_supply(minted)
       /\ remaining_supply(minted) \in Nat
  <2>1. height(b) \in Nat
    BY Constants
  <2>2. remaining_supply(minted) \in Nat
    BY <1>2, LedgerConstants DEF remaining_supply
  <2> HIDE DEF minted
  <2>3. /\ capped_block_reward(height(b), minted) \in Nat
        /\ capped_block_reward(height(b), minted) <= remaining_supply(minted)
    BY <1>2, <2>1, RewardIsCapped
  <2> QED BY <2>2, <2>3
<1>11. Money!Remaining(minted) = remaining_supply(minted)
  BY DEF Money!Remaining, remaining_supply
<1> HIDE DEF us, fees, cv, minted
<1>12. /\ before.circulating = Circulating(us) /\ before.minted = minted
       /\ after.circulating = Circulating(replay[b]) /\ after.minted = minted + cv
  BY <1>8 DEF us, minted
<1>13. /\ after.minted - before.minted = cv
       /\ before.circulating + cv - after.circulating = fees
  BY <1>1, <1>2, <1>12
<1>14. cv >= 0 /\ fees \in 0..before.circulating /\ cv <= Money!Remaining(before.minted) + fees
  BY <1>1, <1>2, <1>7, <1>9, <1>10, <1>11, <1>12
<1>15. Money!Earned(before, after)
  BY <1>13, <1>14 DEF Money!Earned
<1>16. after \in Money!Balance
  BY <1>1, <1>2, <1>7, <1>8 DEF Money!Balance, minted
<1> QED BY <1>15, <1>16

(* What the refinement needs on top of the ledger: totals that are numbers, and
   the genesis block under every known one.                                *)
SupplyInv ==
  /\ LedgerInv
  /\ \A x \in all_blocks : minted_upto[x] \in Nat /\ Genesis \in ancestry[x]

LEMMA CoinbaseValueType ==
  ASSUME NEW b \in Hash
  PROVE  coinbase_value(b) \in Nat
<1>1. block[b].transactions \in Seq(Txid)
  BY BlockAssumption DEF IsBlock
<1>2. CASE block[b].transactions = <<>>
  BY <1>2 DEF coinbase_value
<1>3. CASE block[b].transactions # <<>>
  <2>1. Head(block[b].transactions) \in Txid
    BY <1>1, <1>3
  <2>2. OutputSum(tx[Head(block[b].transactions)].outputs) \in Nat
    BY <2>1, TxFields, OutputSumType
  <2> QED BY <1>3, <2>2 DEF coinbase_value
<1> QED BY <1>2, <1>3

(* No branch is free of repeated inputs above one that is not; the genesis block is. *)
LEMMA UnrepeatedBelow ==
  ASSUME NEW b \in Unrepeated, height(b) # 0
  PROVE  prev(b) \in Unrepeated
<1>1. b \in Hash /\ prev(b) \in Hash /\ ancestry[b] = ancestry[prev(b)] \cup {b}
  BY Constants, AncestryUnfolds DEF Unrepeated
<1>2. TxsOf(ancestry[prev(b)]) \subseteq TxsOf(ancestry[b])
  BY <1>1 DEF TxsOf
<1> QED BY <1>1, <1>2 DEF Unrepeated

LEMMA GenesisUnrepeated == Genesis \in Unrepeated
<1>1. Genesis \in Hash /\ ancestry[Genesis] = {Genesis}
  BY Constants, GenesisAssumption, AncestryUnfolds
<1>2. PICK t \in Txid : block[Genesis].transactions = <<t>> /\ tx[t].is_coinbase
  BY GenesisAssumption
<1>3. TxsOf(ancestry[Genesis]) = {t}
  BY <1>1, <1>2 DEF TxsOf, ToSet
<1>4. DOMAIN tx[t].inputs = {1}
  <2>1. Len(tx[t].inputs) = 1 /\ tx[t].inputs \in Seq(Outpoint)
    BY <1>2, NullAssumption, TxAssumption DEF IsTransaction
  <2> QED BY <2>1
<1>5. ~ Repeats(t)
  BY <1>4 DEF Repeats
<1> QED BY <1>1, <1>3, <1>5 DEF Unrepeated

LEMMA InitSupply == Init => SupplyInv /\ Money!Init
<1> SUFFICES ASSUME Init PROVE SupplyInv /\ Money!Init
  OBVIOUS
<1>1. all_blocks = {Genesis} /\ Genesis \in Hash /\ height(Genesis) = 0
  BY Constants DEF Init
<1>2. PICK t \in Txid : Body(Genesis) = <<t>> /\ tx[t].is_coinbase
  BY GenesisAssumption DEF Body
<1>3. Genuine(replay[Genesis]) /\ Tallied(replay[Genesis])
      /\ DOMAIN replay[Genesis].utxos = CreatedOn({Genesis}) \ SpentOn({Genesis})
  BY <1>1, SoundGenesis, ReplayTallied, AncestryUnfolds DEF SoundBranch
<1>4. CreatedOn({Genesis}) = Creates(t) /\ SpentOn({Genesis}) = {}
  <2>1. PlacedIn({Genesis}) = {<<Genesis, 1>>} /\ TxidAt(<<Genesis, 1>>) = t
    <3>1. PlacedIn({Genesis}) = {<<Genesis, k>> : k \in DOMAIN block[Genesis].transactions}
      BY DEF PlacedIn
    <3>2. block[Genesis].transactions = <<t>>
      BY <1>2 DEF Body
    <3> QED BY <3>1, <3>2 DEF TxidAt
  <2>2. Spends(t) = {}
    BY <1>2 DEF Spends
  <2> QED BY <2>1, <2>2 DEF CreatedOn, SpentOn
<1>5. Body(Genesis) # <<>> /\ Body(Genesis)[1] = t
  BY <1>2
<1>6. Circulating(replay[Genesis]) = coinbase_value(Genesis) /\ coinbase_value(Genesis) \in Nat
  BY <1>1, <1>3, <1>4, <1>5, CoinbaseCirculates
<1>7. minted_upto[Genesis] = coinbase_value(Genesis)
  BY <1>1, <1>6, ReplayUnfolds
<1>8. SupplyInv
  <2>1. Genesis \in ancestry[Genesis]
    BY <1>1, AncestryUnfolds
  <2> QED BY <1>1, <1>6, <1>7, <2>1, InitLedgerInv DEF SupplyInv
<1>9. Balances = [x \in {Genesis} |->
                    [circulating |-> coinbase_value(Genesis), minted |-> coinbase_value(Genesis)]]
  <2>1. all_blocks \cap Unrepeated = {Genesis}
    BY <1>1, GenesisUnrepeated
  <2> QED BY <1>6, <1>7, <2>1 DEF Balances
<1> QED BY <1>8, <1>9 DEF Money!Init

LEMMA NextSupply ==
  ASSUME CoinbasesDistinct
  PROVE  SupplyInv /\ [Next]_vars => SupplyInv' /\ [Money!Next]_Balances
<1> SUFFICES ASSUME SupplyInv, [Next]_vars PROVE SupplyInv' /\ [Money!Next]_Balances
  OBVIOUS
<1>1. LedgerInv /\ LedgerInv'
  BY NextLedgerInv DEF SupplyInv
<1>2. CASE \E b \in Hash, now \in Clock : AddBlock(b, now)
  <2>1. PICK b \in Hash, now \in Clock : AddBlock(b, now)
    BY <1>2
  <2>2. Accepts(b, now) /\ PoolInv /\ b \notin all_blocks
    BY <1>1, <2>1 DEF AddBlock, Accepts, LedgerInv
  <2>3. ValidOn(b, minted_upto[prev(b)], NETWORK_MAGIC) /\ prev(b) \in all_blocks /\ height(b) # 0
    BY <2>2, AcceptedIsValidOn
  <2>4. SoundBranch(prev(b)) /\ Tallied(replay[prev(b)]) /\ minted_upto[prev(b)] \in Nat
    BY <2>3 DEF SupplyInv, LedgerInv, PoolInv, ReplayExact
  <2> DEFINE bal(x) == [circulating |-> Circulating(replay[x]), minted |-> minted_upto[x]]
  <2>5. b \in Unrepeated => bal(b) \in Money!Balance /\ Money!Earned(bal(prev(b)), bal(b))
    BY <2>3, <2>4, BlockEarns
  <2>6. all_blocks' \subseteq all_blocks \cup {b}
    BY <2>1 DEF AddBlock, Retained
  <2>7. minted_upto[b] \in Nat /\ Genesis \in ancestry[b]
    <3>1. coinbase_value(b) \in Nat
      BY CoinbaseValueType
    <3>2. minted_upto[b] = minted_upto[prev(b)] + coinbase_value(b)
      BY <2>3, ReplayUnfolds
    <3>3. ancestry[b] = ancestry[prev(b)] \cup {b} /\ Genesis \in ancestry[prev(b)]
      BY <2>3, AncestryUnfolds DEF SupplyInv
    <3> QED BY <2>4, <3>1, <3>2, <3>3
  <2>8. \A x \in all_blocks : bal(x) \in Money!Balance
    <3> SUFFICES ASSUME NEW x \in all_blocks PROVE bal(x) \in Money!Balance
      OBVIOUS
    <3>1. Tallied(replay[x]) /\ minted_upto[x] \in Nat
      BY DEF SupplyInv, LedgerInv, PoolInv
    <3>2. Circulating(replay[x]) \in Nat
      BY <3>1, WorthAdds
    <3> QED BY <3>1, <3>2 DEF Money!Balance
  <2> DEFINE D == all_blocks \cap Unrepeated
             E == all_blocks' \cap Unrepeated
  <2>9. Balances = [x \in D |-> bal(x)] /\ Balances' = [x \in E |-> bal(x)]
    BY DEF Balances
  <2> HIDE DEF bal
  <2>10. /\ DOMAIN Balances = D /\ DOMAIN Balances' = E
         /\ \A x \in D : Balances[x] = bal(x)
         /\ \A x \in E : Balances'[x] = bal(x)
    BY <2>9
  <2>11. Balances' \in [E -> Money!Balance]
    BY <2>5, <2>6, <2>8, <2>9
  <2>12. E \subseteq D \cup {b} /\ b \in Hash \ D
    BY <2>2, <2>6
  <2> HIDE DEF D, E
  <2>13. ASSUME b \in Unrepeated PROVE Money!Next
    <3>1. prev(b) \in D
      BY <2>3, <2>13, UnrepeatedBelow DEF D
    <3>2. Money!Extend(prev(b), b)
      BY <2>5, <2>10, <2>11, <2>12, <2>13, <3>1 DEF Money!Extend
    <3>3. prev(b) \in DOMAIN Balances /\ b \in Hash \ DOMAIN Balances
      BY <2>10, <2>12, <3>1
    <3> QED BY <3>2, <3>3 DEF Money!Next
  <2>14. ASSUME b \notin Unrepeated PROVE Money!Next
    <3>1. Genesis \in D
      <4>1. tip \in all_blocks /\ blocks = ancestry[tip] /\ blocks \subseteq all_blocks
        BY DEF SupplyInv, LedgerInv, PoolInv, ForkInv, ForkTypeOK
      <4> QED BY <4>1, GenesisUnrepeated DEF SupplyInv, D
    <3>2. b \notin E
      BY <2>14 DEF E
    <3>3. Money!Extend(Genesis, b)
      BY <2>10, <2>11, <2>12, <3>2 DEF Money!Extend
    <3>4. Genesis \in DOMAIN Balances /\ b \in Hash \ DOMAIN Balances
      BY <2>10, <2>12, <3>1
    <3> QED BY <3>3, <3>4 DEF Money!Next
  <2>15. Money!Next
    BY <2>13, <2>14
  <2> QED BY <1>1, <2>6, <2>7, <2>15 DEF SupplyInv
<1>3. CASE (\E t \in Txid : SubmitTransaction(t)) \/ UNCHANGED vars
  <2>1. all_blocks' = all_blocks
    BY <1>3 DEF SubmitTransaction, vars
  <2> QED BY <1>1, <2>1 DEF SupplyInv, Balances
<1> QED BY <1>2, <1>3 DEF Next

(* Chain implements Supply for every tree of blocks and every set of transactions:
   the money rules hold on every branch, of whatever length, up to the first
   transaction on it that lists an input twice (HardCap says what happens then). *)
THEOREM ChainImplementsSupply ==
  ASSUME CoinbasesDistinct
  PROVE  Spec => ImplementsSupply
<1>1. SupplyInv /\ [Next]_vars => SupplyInv' /\ [Money!Next]_Balances
  BY NextSupply
<1> QED BY InitSupply, <1>1, PTL DEF Spec, ImplementsSupply, Money!Spec

Capped == INSTANCE SupplyProofs WITH
  Id <- Hash, Start <- Genesis, Cap <- MAX_SUPPLY_ARKES, Premine <- coinbase_value(Genesis),
  ledger <- Balances

(* The hard cap, on the chain itself: on no known branch on which no transaction
   lists an input twice does more value circulate than MAX_SUPPLY_ARKES
   (validate_coinbase_subsidy_with_state).                                 *)
THEOREM ChainIsCapped ==
  ASSUME CoinbasesDistinct
  PROVE  Spec => []Money!SupplyCapped
<1>1. Genesis \in Hash /\ MAX_SUPPLY_ARKES \in Nat /\ coinbase_value(Genesis) \in 0..MAX_SUPPLY_ARKES
  <2>1. PICK t \in Txid : block[Genesis].transactions = <<t>>
    BY GenesisAssumption
  <2>2. coinbase_value(Genesis) = OutputSum(tx[t].outputs)
    BY <2>1 DEF coinbase_value
  <2>3. coinbase_value(Genesis) \in Nat
    BY <2>2, TxFields, OutputSumType
  <2> QED BY <2>3, PremineAssumption, LedgerConstants, Constants
<1>2. Capped!Spec => []Capped!SupplyCapped
  BY <1>1, Capped!SupplyIsCapped
<1>3. Capped!Spec <=> Money!Spec
  <2>1. Capped!Init <=> Money!Init
    BY DEF Capped!Init, Money!Init
  <2>2. Capped!Next <=> Money!Next
    BY DEF Capped!Next, Money!Next, Capped!Extend, Money!Extend, Capped!Earned, Money!Earned,
           Capped!Balance, Money!Balance, Capped!Remaining, Money!Remaining
  <2> QED BY <2>1, <2>2, PTL DEF Capped!Spec, Money!Spec
<1>4. Capped!SupplyCapped <=> Money!SupplyCapped
  BY DEF Capped!SupplyCapped, Money!SupplyCapped
<1> QED BY <1>2, <1>3, <1>4, ChainImplementsSupply, PTL DEF ImplementsSupply
=============================================================================
