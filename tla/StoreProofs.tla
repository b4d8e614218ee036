---------------------------- MODULE StoreProofs -----------------------------
(***************************************************************************)
(* The store under crashes and failing puts, for every tree of blocks and  *)
(* whatever phases a put may fail or the process may die in.  The argument *)
(* is about the puts that are still to come: each one only refers to what  *)
(* is on disk already or is put before it, so that the disk is sound after *)
(* every prefix of them.                                                   *)
(***************************************************************************)
EXTENDS ChainStore, ChainProofs

Write == {"block", "height", "tip"} \X Hash

(* What the disk holds before put k of ws, when it holds S and H now. *)
StoredBefore(ws, k, S) == S \cup {ws[j][2] : j \in {i \in 1 .. k - 1 : ws[i][1] = "block"}}
IndexedBefore(ws, k, H) ==
  H \cup {height(ws[j][2]) : j \in {i \in 1 .. k - 1 : ws[i][1] = "height"}}

(* Put k refers to nothing that is not there when it is done. *)
PutSound(ws, k, S, H) ==
  /\ ws[k][1] = "height" => ws[k][2] \in StoredBefore(ws, k, S)
  /\ ws[k][1] = "tip" =>
       /\ ws[k][2] \in StoredBefore(ws, k, S) /\ Genesis \in StoredBefore(ws, k, S)
       /\ 0..height(ws[k][2]) \subseteq IndexedBefore(ws, k, H)

PutsSound(ws, S, H) == \A k \in 1..Len(ws) : PutSound(ws, k, S, H)

(* What the disk holds when the puts of a call are done. *)
WillStore == StoredBefore(writes, Len(writes) + 1, db_blocks)

(* The disk is sound now. *)
DiskSound ==
  /\ db_blocks \subseteq Hash
  /\ \A h \in DOMAIN db_height : db_height[h] \in db_blocks
  /\ db_tip # NoBlock =>
       /\ db_tip \in Hash /\ db_tip \in db_blocks /\ Genesis \in db_blocks
       /\ 0..height(db_tip) \subseteq DOMAIN db_height

(* What is in memory has been stored, or is about to be. *)
MemorySound ==
  /\ all_blocks \subseteq Hash
  /\ \A x \in all_blocks : BranchShape(x)
  /\ phase \in {"opening", "up"} => all_blocks \subseteq db_blocks /\ Genesis \in db_blocks
  /\ phase = "creating" => all_blocks = {Genesis} /\ Genesis \in WillStore

CallSound ==
  /\ writes \in Seq(Write) /\ reload \in Seq(Hash)
  /\ stage # "idle" =>
       phase \in {"opening", "up"} /\ adding \in Hash /\ BranchShape(adding)
  /\ stage = "saving" => adding \in WillStore

StoreInv ==
  /\ DiskSound
  /\ MemorySound
  /\ CallSound
  /\ PutsSound(writes, db_blocks, DOMAIN db_height)

-----------------------------------------------------------------------------
(* One put moves from what is to come to what is there. *)
LEMMA PutMoves ==
  ASSUME NEW ws \in Seq(Write), ws # <<>>, NEW S, NEW H, NEW k \in 1..Len(ws)
  PROVE  /\ StoredBefore(ws, k + 1, S)
              = StoredBefore(Tail(ws), k, IF Head(ws)[1] = "block" THEN S \cup {Head(ws)[2]} ELSE S)
         /\ IndexedBefore(ws, k + 1, H)
              = IndexedBefore(Tail(ws), k,
                              IF Head(ws)[1] = "height" THEN H \cup {height(Head(ws)[2])} ELSE H)
<1>1. Head(ws) = ws[1] /\ Tail(ws) \in Seq(Write) /\ Len(Tail(ws)) = Len(ws) - 1 /\ Len(ws) \in Nat
  OBVIOUS
<1>2. \A j \in 1 .. k - 1 : Tail(ws)[j] = ws[j + 1]
  BY <1>1
<1>3. \A i \in 1 .. (k + 1) - 1 : i = 1 \/ (i - 1 \in 1 .. k - 1 /\ Tail(ws)[i - 1] = ws[i])
  <2> SUFFICES ASSUME NEW i \in 1 .. (k + 1) - 1, i # 1
               PROVE  i - 1 \in 1 .. k - 1 /\ Tail(ws)[i - 1] = ws[i]
    OBVIOUS
  <2>1. i - 1 \in 1 .. k - 1 /\ (i - 1) + 1 = i
    OBVIOUS
  <2> QED BY <1>2, <2>1
<1>4. 1 \in 1 .. (k + 1) - 1 /\ \A j \in 1 .. k - 1 : j + 1 \in 1 .. (k + 1) - 1
  OBVIOUS
<1> DEFINE T == Tail(ws)
           I == 1 .. (k + 1) - 1
           J == 1 .. k - 1
           A == StoredBefore(ws, k + 1, S)
           B == StoredBefore(T, k, IF ws[1][1] = "block" THEN S \cup {ws[1][2]} ELSE S)
           C == IndexedBefore(ws, k + 1, H)
           D == IndexedBefore(T, k, IF ws[1][1] = "height" THEN H \cup {height(ws[1][2])} ELSE H)
<1> HIDE DEF T
<1>5. \A x : x \in A <=> x \in S \/ \E i \in I : ws[i][1] = "block" /\ x = ws[i][2]
  BY DEF StoredBefore
<1>6. \A x : x \in B <=> \/ x \in S \/ (ws[1][1] = "block" /\ x = ws[1][2])
                         \/ \E j \in J : T[j][1] = "block" /\ x = T[j][2]
  BY DEF StoredBefore
<1>7. \A x : x \in C <=> x \in H \/ \E i \in I :
                                       ws[i][1] = "height" /\ x = height(ws[i][2])
  BY DEF IndexedBefore
<1>8. \A x : x \in D <=> \/ x \in H \/ (ws[1][1] = "height" /\ x = height(ws[1][2]))
                         \/ \E j \in J : T[j][1] = "height" /\ x = height(T[j][2])
  BY DEF IndexedBefore
<1> HIDE DEF A, B, C, D
<1>0. 1 \in I
  BY <1>4
<1>9. /\ \A i \in I : i = 1 \/ \E j \in J : T[j] = ws[i]
      /\ \A j \in J : \E i \in I : T[j] = ws[i]
  BY <1>2, <1>3, <1>4 DEF T
<1> HIDE DEF I, J
<1>10. A = B
  <2>1. ASSUME NEW x \in A PROVE x \in B
    BY <1>5, <1>6, <1>9, <2>1
  <2>2. ASSUME NEW x \in B PROVE x \in A
    BY <1>0, <1>5, <1>6, <1>9, <2>2
  <2> QED BY <2>1, <2>2
<1>11. C = D
  <2>1. ASSUME NEW x \in C PROVE x \in D
    BY <1>7, <1>8, <1>9, <2>1
  <2>2. ASSUME NEW x \in D PROVE x \in C
    BY <1>0, <1>7, <1>8, <1>9, <2>2
  <2> QED BY <2>1, <2>2
<1> QED BY <1>1, <1>10, <1>11 DEF A, B, C, D, T

LEMMA PutInv ==
  ASSUME StoreInv, Put
  PROVE  StoreInv'
<1> DEFINE kind == Head(writes)[1]
           b == Head(writes)[2]
           S == db_blocks
           H == DOMAIN db_height
<1>1. writes \in Seq(Write) /\ writes # <<>> /\ writes' = Tail(writes)
  BY DEF Put, StoreInv, CallSound
<1>2. /\ db_blocks' = IF kind = "block" THEN db_blocks \cup {b} ELSE db_blocks
      /\ db_height' = IF kind = "height" THEN Insert(db_height, height(b), b) ELSE db_height
      /\ db_tip' = IF kind = "tip" THEN b ELSE db_tip
      /\ UNCHANGED <<vars, phase, adding, stage, reload>>
  BY DEF Put
<1>3. Head(writes) = writes[1] /\ 1 \in 1..Len(writes) /\ writes[1] \in Write
      /\ Tail(writes) \in Seq(Write) /\ Len(Tail(writes)) = Len(writes) - 1 /\ Len(writes) \in Nat
  BY <1>1
<1>4. b \in Hash /\ kind \in {"block", "height", "tip"}
  BY <1>3 DEF Write
<1>5. DOMAIN db_height' = IF kind = "height" THEN H \cup {height(b)} ELSE H
  BY <1>2 DEF Insert
<1>6. PutSound(writes, 1, S, H)
  BY <1>3 DEF StoreInv, PutsSound
<1>7. StoredBefore(writes, 1, S) = S /\ IndexedBefore(writes, 1, H) = H
  BY DEF StoredBefore, IndexedBefore
<1>8. /\ kind = "height" => b \in db_blocks
      /\ kind = "tip" => b \in db_blocks /\ Genesis \in db_blocks /\ 0..height(b) \subseteq H
  BY <1>3, <1>6, <1>7 DEF PutSound
<1>9. db_blocks \subseteq db_blocks' /\ H \subseteq DOMAIN db_height'
  BY <1>2, <1>5
<1>10. DiskSound'
  <2>1. \A h \in DOMAIN db_height' : db_height'[h] \in db_blocks'
    <3>1. CASE kind = "height"
      <4>1. \A h \in DOMAIN db_height' : db_height'[h] = b \/ (h \in H /\ db_height'[h] = db_height[h])
        BY <1>2, <3>1 DEF Insert
      <4> QED BY <1>8, <1>9, <3>1, <4>1 DEF StoreInv, DiskSound
    <3>2. CASE kind # "height"
      BY <1>2, <1>9, <3>2 DEF StoreInv, DiskSound
    <3> QED BY <3>1, <3>2
  <2>2. db_tip' # NoBlock =>
          /\ db_tip' \in Hash /\ db_tip' \in db_blocks' /\ Genesis \in db_blocks'
          /\ 0..height(db_tip') \subseteq DOMAIN db_height'
    <3>1. CASE kind = "tip"
      BY <1>2, <1>4, <1>8, <1>9, <3>1
    <3>2. CASE kind # "tip"
      BY <1>2, <1>9, <3>2 DEF StoreInv, DiskSound
    <3> QED BY <3>1, <3>2
  <2>3. db_blocks' \subseteq Hash
    BY <1>2, <1>4 DEF StoreInv, DiskSound
  <2> QED BY <2>1, <2>2, <2>3 DEF DiskSound, height
<1>11. PutsSound(writes', db_blocks', DOMAIN db_height')
  <2> SUFFICES ASSUME NEW k \in 1..Len(Tail(writes))
               PROVE  PutSound(Tail(writes), k, db_blocks', DOMAIN db_height')
    BY <1>1 DEF PutsSound
  <2>1. k + 1 \in 1..Len(writes) /\ k \in 1..Len(writes) /\ Tail(writes)[k] = writes[k + 1]
    BY <1>1, <1>3
  <2>2. PutSound(writes, k + 1, S, H)
    BY <2>1 DEF StoreInv, PutsSound
  <2>3. /\ StoredBefore(writes, k + 1, S) = StoredBefore(Tail(writes), k, db_blocks')
        /\ IndexedBefore(writes, k + 1, H) = IndexedBefore(Tail(writes), k, DOMAIN db_height')
    <3>1. /\ StoredBefore(writes, k + 1, S)
               = StoredBefore(Tail(writes), k, IF kind = "block" THEN S \cup {b} ELSE S)
          /\ IndexedBefore(writes, k + 1, H)
               = IndexedBefore(Tail(writes), k, IF kind = "height" THEN H \cup {height(b)} ELSE H)
      <4> HIDE DEF S, H
      <4> QED BY <1>1, <2>1, PutMoves
    <3> QED BY <1>2, <1>5, <3>1
  <2> QED BY <2>1, <2>2, <2>3 DEF PutSound
<1>12. WillStore' = WillStore
  <2>1. Len(Tail(writes)) + 1 = Len(writes) /\ Len(writes) \in 1..Len(writes)
    BY <1>3
  <2>2. StoredBefore(writes, Len(writes) + 1, S)
          = StoredBefore(Tail(writes), Len(writes), db_blocks')
    BY <1>1, <1>2, <2>1, PutMoves
  <2> QED BY <1>1, <2>1, <2>2 DEF WillStore, StoredBefore
<1>13. CallSound'
  BY <1>1, <1>2, <1>3, <1>12 DEF StoreInv, CallSound, BranchShape, height, prev
<1>14. MemorySound'
  <2>1. UNCHANGED <<all_blocks, phase>>
    BY <1>2 DEF vars
  <2> QED BY <1>9, <1>12, <2>1 DEF StoreInv, MemorySound, BranchShape, height, prev
<1> QED BY <1>10, <1>11, <1>13, <1>14 DEF StoreInv

-----------------------------------------------------------------------------
(* The puts of the three calls. *)

LEMMA NoPuts ==
  ASSUME NEW S, NEW H
  PROVE  PutsSound(<<>>, S, H) /\ StoredBefore(<<>>, 1, S) = S /\ <<>> \in Seq(Write)
<1>1. Len(<<>>) = 0 /\ 1..0 = {} /\ <<>> \in Seq(Write) /\ 1 - 1 = 0
  OBVIOUS
<1> QED BY <1>1 DEF PutsSound, StoredBefore

LEMMA SaveBlockSound ==
  ASSUME NEW b \in Hash, NEW S, NEW H
  PROVE  /\ save_block(b) \in Seq(Write)
         /\ PutsSound(save_block(b), S, H)
         /\ b \in StoredBefore(save_block(b), Len(save_block(b)) + 1, S)
<1> DEFINE ws == save_block(b)
<1>1. ws = << <<"block", b>>, <<"height", b>> >>
  BY DEF save_block
<1>2. ws \in Seq(Write) /\ Len(ws) = 2 /\ ws[1] = <<"block", b>> /\ ws[2] = <<"height", b>>
  BY <1>1 DEF Write
<1> HIDE DEF ws
<1>3. \A k \in 2..3 : 1 \in {i \in 1 .. k - 1 : ws[i][1] = "block"} /\ ws[1][2] = b
  BY <1>2
<1>4. \A k \in 2..3 : b \in StoredBefore(ws, k, S)
  BY <1>3 DEF StoredBefore
<1>5. PutSound(ws, 1, S, H) /\ PutSound(ws, 2, S, H)
  BY <1>2, <1>4 DEF PutSound
<1>6. \A k \in 1..Len(ws) : k = 1 \/ k = 2
  BY <1>2
<1>7. PutsSound(ws, S, H)
  BY <1>5, <1>6 DEF PutsSound
<1> QED BY <1>2, <1>4, <1>7 DEF ws

LEMMA OneMore ==
  ASSUME NEW X, NEW s \in Seq(X), NEW x \in X
  PROVE  /\ s \o <<x>> \in Seq(X) /\ Len(s \o <<x>>) = Len(s) + 1
         /\ \A k \in 1..Len(s) : (s \o <<x>>)[k] = s[k]
         /\ (s \o <<x>>)[Len(s) + 1] = x
  OBVIOUS

LEMMA OneMoreOf ==
  ASSUME NEW X, NEW s \in Seq(X), NEW x \in X, NEW m \in Nat, Len(s) = m,
         NEW w, w = s \o <<x>>
  PROVE  w \in Seq(X) /\ Len(w) = m + 1 /\ (\A k \in 1..m : w[k] = s[k]) /\ w[m + 1] = x
  BY OneMore

(* A function on 1..m is a sequence. *)
LEMMA Listing ==
  ASSUME NEW X, NEW m \in Nat, NEW f, f = [k \in 1..m |-> f[k]], \A k \in 1..m : f[k] \in X
  PROVE  f \in Seq(X) /\ Len(f) = m
<1>1. f \in [1..m -> X]
  OBVIOUS
<1> QED BY <1>1

LEMMA CreateSound ==
  ASSUME NEW S, NEW H
  PROVE  LET ws == save_block(Genesis) \o save_tip(Genesis)
         IN  /\ ws \in Seq(Write) /\ PutsSound(ws, S, H)
             /\ Genesis \in StoredBefore(ws, Len(ws) + 1, S)
<1> DEFINE ws == save_block(Genesis) \o save_tip(Genesis)
           first == << <<"block", Genesis>>, <<"height", Genesis>> >>
<1>1. ws = first \o << <<"tip", Genesis>> >>
  BY DEF save_block, save_tip
<1>2. Genesis \in Hash /\ height(Genesis) = 0
  BY Constants
<1>3. ws \in Seq(Write) /\ Len(ws) = 3 /\ ws[1] = <<"block", Genesis>>
      /\ ws[2] = <<"height", Genesis>> /\ ws[3] = <<"tip", Genesis>>
  <2>1. first \in Seq(Write) /\ Len(first) = 2 /\ <<"tip", Genesis>> \in Write
        /\ first[1] = <<"block", Genesis>> /\ first[2] = <<"height", Genesis>>
    BY <1>2 DEF Write
  <2> DEFINE last == <<"tip", Genesis>>
  <2> HIDE DEF first, ws, last
  <2>2. first \in Seq(Write) /\ last \in Write /\ ws = first \o <<last>>
    BY <1>1, <2>1 DEF last
  <2>5. /\ ws \in Seq(Write) /\ Len(ws) = Len(first) + 1
        /\ \A k \in 1..Len(first) : ws[k] = first[k]
        /\ ws[Len(first) + 1] = last
    BY <2>2, OneMore
  <2>3. 1 \in 1..Len(first) /\ 2 \in 1..Len(first) /\ Len(first) + 1 = 3
    BY <2>1
  <2> QED BY <2>1, <2>3, <2>5 DEF last
<1> HIDE DEF ws
<1>4. \A k \in 2..4 : 1 \in {i \in 1 .. k - 1 : ws[i][1] = "block"} /\ ws[1][2] = Genesis
  BY <1>3
<1>5. \A k \in 2..4 : Genesis \in StoredBefore(ws, k, S)
  BY <1>4 DEF StoredBefore
<1>6. 0..height(Genesis) \subseteq IndexedBefore(ws, 3, H)
  <2>1. 2 \in {i \in 1 .. 3 - 1 : ws[i][1] = "height"} /\ height(ws[2][2]) = 0
    BY <1>2, <1>3
  <2>2. 0 \in IndexedBefore(ws, 3, H)
    BY <2>1 DEF IndexedBefore
  <2> QED BY <1>2, <2>2
<1>7. PutSound(ws, 1, S, H) /\ PutSound(ws, 2, S, H) /\ PutSound(ws, 3, S, H)
  BY <1>3, <1>5, <1>6 DEF PutSound
<1>8. \A k \in 1..Len(ws) : k = 1 \/ k = 2 \/ k = 3
  BY <1>3
<1>9. PutsSound(ws, S, H)
  BY <1>7, <1>8 DEF PutsSound
<1>10. Len(ws) + 1 \in 2..4
  BY <1>3
<1> QED BY <1>3, <1>5, <1>9, <1>10 DEF ws

(* The branch of a block with a chain below it has one block per height. *)
LEMMA BranchInOrder ==
  ASSUME NEW b \in Hash, BranchShape(b)
  PROVE  /\ chain_to_hash(b) \in Seq(Hash) /\ Len(chain_to_hash(b)) = height(b) + 1
         /\ \A i \in 1 .. height(b) + 1 : height(chain_to_hash(b)[i]) = i - 1
<1> DEFINE c == chain_to_hash(b)
           n == height(b) + 1
<1>1. n \in Nat
  BY Constants
<1>2. \A i \in 1..n : c[i] \in ancestry[b] /\ height(c[i]) = i - 1
  <2> SUFFICES ASSUME NEW i \in 1..n PROVE c[i] \in ancestry[b] /\ height(c[i]) = i - 1
    OBVIOUS
  <2>1. i - 1 \in 0..height(b)
    BY Constants
  <2>2. \E a \in ancestry[b] : height(a) = i - 1
    BY <2>1 DEF BranchShape
  <2>3. c[i] = CHOOSE x \in ancestry[b] : height(x) = i - 1
    BY DEF chain_to_hash
  <2> QED BY <2>2, <2>3
<1>3. \A i \in 1..n : c[i] \in Hash
  BY <1>2 DEF BranchShape
<1>4. DOMAIN c = 1..n /\ c = [i \in 1..n |-> c[i]]
  BY DEF chain_to_hash
<1> HIDE DEF c, n
<1>5. c \in Seq(Hash) /\ Len(c) = n
  BY <1>1, <1>3, <1>4
<1> QED BY <1>2, <1>5 DEF c, n

LEMMA SaveChainSound ==
  ASSUME NEW b \in Hash, BranchShape(b), NEW S, b \in S, Genesis \in S, NEW H
  PROVE  LET ws == SaveChain(chain_to_hash(b)) \o save_tip(b)
         IN  ws \in Seq(Write) /\ PutsSound(ws, S, H)
<1> DEFINE c == chain_to_hash(b)
           n == Len(c)
           sc == SaveChain(c)
           ws == sc \o save_tip(b)
<1>1. c \in Seq(Hash) /\ n = height(b) + 1 /\ n \in Nat /\ height(b) \in Nat
      /\ \A i \in 1..n : height(c[i]) = i - 1 /\ c[i] \in Hash
  <2>1. c \in Seq(Hash) /\ n = height(b) + 1 /\ \A i \in 1..n : height(c[i]) = i - 1
    BY BranchInOrder
  <2>2. height(b) \in Nat
    BY Constants
  <2> HIDE DEF c
  <2>3. \A i \in 1..n : c[i] \in Hash
    BY <2>1
  <2>4. n \in Nat
    BY <2>1, <2>2
  <2> QED BY <2>1, <2>2, <2>3, <2>4
<1> HIDE DEF c
<1>2. \A k \in 1 .. 2 * n : \E i \in 1..n :
        \/ k = 2 * i - 1 /\ (k + 1) \div 2 = i /\ 2 - (k % 2) = 1
        \/ k = 2 * i /\ (k + 1) \div 2 = i /\ 2 - (k % 2) = 2
  <2> SUFFICES ASSUME NEW k \in 1 .. 2 * n
               PROVE  \E i \in 1..n :
                        \/ k = 2 * i - 1 /\ (k + 1) \div 2 = i /\ 2 - (k % 2) = 1
                        \/ k = 2 * i /\ (k + 1) \div 2 = i /\ 2 - (k % 2) = 2
    OBVIOUS
  <2> DEFINE i == (k + 1) \div 2
  <2>1. i \in 1..n /\ (k = 2 * i - 1 \/ k = 2 * i)
    BY <1>1
  <2>2. k = 2 * i - 1 => k % 2 = 1
    BY <2>1
  <2>3. k = 2 * i => k % 2 = 0
    BY <2>1
  <2> QED BY <2>1, <2>2, <2>3
<1>3. /\ \A k \in 1 .. 2 * n : sc[k] = save_block(c[(k + 1) \div 2])[2 - (k % 2)]
      /\ sc = [k \in 1 .. 2 * n |-> sc[k]]
  BY DEF SaveChain
<1> HIDE DEF sc
<1>4. \A i \in 1..n : /\ save_block(c[i])[1] = <<"block", c[i]>>
                      /\ save_block(c[i])[2] = <<"height", c[i]>>
  BY DEF save_block
<1>5. \A k \in 1 .. 2 * n : \E i \in 1..n :
        \/ k = 2 * i - 1 /\ sc[k] = <<"block", c[i]>>
        \/ k = 2 * i /\ sc[k] = <<"height", c[i]>>
  <2> SUFFICES ASSUME NEW k \in 1 .. 2 * n
               PROVE  \E i \in 1..n :
                        \/ k = 2 * i - 1 /\ sc[k] = <<"block", c[i]>>
                        \/ k = 2 * i /\ sc[k] = <<"height", c[i]>>
    OBVIOUS
  <2>1. PICK i \in 1..n : \/ k = 2 * i - 1 /\ (k + 1) \div 2 = i /\ 2 - (k % 2) = 1
                          \/ k = 2 * i /\ (k + 1) \div 2 = i /\ 2 - (k % 2) = 2
    BY <1>2
  <2>2. sc[k] = save_block(c[(k + 1) \div 2])[2 - (k % 2)]
    BY <1>3
  <2> QED BY <1>4, <2>1, <2>2
<1>6. \A k \in 1 .. 2 * n : sc[k] \in Write
  <2>1. \A i \in 1..n : <<"block", c[i]>> \in Write /\ <<"height", c[i]>> \in Write
    BY <1>1 DEF Write
  <2> QED BY <1>5, <2>1
<1>7. sc \in Seq(Write) /\ Len(sc) = 2 * n
  <2> DEFINE m == 2 * n
  <2>1. m \in Nat
    BY <1>1
  <2> HIDE DEF m
  <2>2. sc = [k \in 1..m |-> sc[k]] /\ \A k \in 1..m : sc[k] \in Write
    BY <1>3, <1>6 DEF m
  <2>3. sc \in Seq(Write) /\ Len(sc) = m
    BY <2>1, <2>2, Listing
  <2> QED BY <2>3 DEF m
<1>8. ws = sc \o << <<"tip", b>> >> /\ <<"tip", b>> \in Write
  BY DEF save_tip, Write
<1> HIDE DEF ws
<1>9. /\ ws \in Seq(Write) /\ Len(ws) = 2 * n + 1
      /\ \A k \in 1 .. 2 * n : ws[k] = sc[k]
      /\ ws[2 * n + 1] = <<"tip", b>>
  <2> DEFINE m == 2 * n
             x == <<"tip", b>>
  <2>1. m \in Nat
    BY <1>1
  <2> HIDE DEF m, x
  <2>2. sc \in Seq(Write) /\ Len(sc) = m /\ x \in Write /\ ws = sc \o <<x>>
    BY <1>7, <1>8 DEF m, x
  <2>3. ws \in Seq(Write) /\ Len(ws) = m + 1 /\ (\A k \in 1..m : ws[k] = sc[k]) /\ ws[m + 1] = x
    BY <2>1, <2>2, OneMoreOf
  <2> QED BY <2>3 DEF m, x
<1> HIDE DEF n
<1>10. \A i \in 1..n : /\ 2 * i - 1 \in 1 .. 2 * n /\ 2 * i \in 1 .. 2 * n
                       /\ ws[2 * i - 1] = <<"block", c[i]>> /\ ws[2 * i] = <<"height", c[i]>>
  <2> SUFFICES ASSUME NEW i \in 1..n
               PROVE  /\ 2 * i - 1 \in 1 .. 2 * n /\ 2 * i \in 1 .. 2 * n
                      /\ ws[2 * i - 1] = <<"block", c[i]>> /\ ws[2 * i] = <<"height", c[i]>>
    OBVIOUS
  <2>1. 2 * i - 1 \in 1 .. 2 * n /\ 2 * i \in 1 .. 2 * n
    BY <1>1
  <2>2. sc[2 * i - 1] = <<"block", c[i]>>
    <3>1. PICK j \in 1..n : \/ 2 * i - 1 = 2 * j - 1 /\ sc[2 * i - 1] = <<"block", c[j]>>
                            \/ 2 * i - 1 = 2 * j
      BY <1>5, <2>1
    <3>2. j = i
      BY <1>1, <3>1
    <3>3. 2 * i - 1 # 2 * j
      BY <1>1
    <3> QED BY <3>1, <3>2, <3>3
  <2>3. sc[2 * i] = <<"height", c[i]>>
    <3>1. PICK j \in 1..n : \/ 2 * i = 2 * j - 1
                            \/ 2 * i = 2 * j /\ sc[2 * i] = <<"height", c[j]>>
      BY <1>5, <2>1
    <3>2. 2 * i # 2 * j - 1 /\ (2 * i = 2 * j => i = j)
      BY <1>1
    <3> QED BY <3>1, <3>2
  <2> QED BY <1>9, <2>1, <2>2, <2>3
<1>11. ASSUME NEW i \in 1..n PROVE PutSound(ws, 2 * i - 1, S, H) /\ PutSound(ws, 2 * i, S, H)
  <2>1. ws[2 * i - 1] = <<"block", c[i]>> /\ ws[2 * i] = <<"height", c[i]>>
    BY <1>10
  <2>2. 2 * i - 1 \in 1 .. (2 * i) - 1
    BY <1>1
  <2>3. 2 * i - 1 \in {j \in 1 .. (2 * i) - 1 : ws[j][1] = "block"} /\ ws[2 * i - 1][2] = c[i]
    BY <2>1, <2>2
  <2>4. c[i] \in StoredBefore(ws, 2 * i, S)
    BY <2>3 DEF StoredBefore
  <2> QED BY <2>1, <2>4 DEF PutSound
<1>12. PutSound(ws, 2 * n + 1, S, H)
  <2>1. b \in StoredBefore(ws, 2 * n + 1, S) /\ Genesis \in StoredBefore(ws, 2 * n + 1, S)
    BY DEF StoredBefore
  <2>2. \A h \in 0..height(b) : h \in IndexedBefore(ws, 2 * n + 1, H)
    <3> SUFFICES ASSUME NEW h \in 0..height(b) PROVE h \in IndexedBefore(ws, 2 * n + 1, H)
      OBVIOUS
    <3> DEFINE i == h + 1
    <3>1. i \in 1..n /\ i - 1 = h
      BY <1>1
    <3>2. ws[2 * i] = <<"height", c[i]>> /\ height(c[i]) = h /\ 2 * i \in 1 .. 2 * n
      BY <1>1, <1>10, <3>1
    <3>3. 2 * i \in 1 .. (2 * n + 1) - 1
      BY <1>1, <3>2
    <3>4. 2 * i \in {j \in 1 .. (2 * n + 1) - 1 : ws[j][1] = "height"} /\ height(ws[2 * i][2]) = h
      BY <3>2, <3>3
    <3> QED BY <3>4 DEF IndexedBefore
  <2> QED BY <1>9, <2>1, <2>2 DEF PutSound
<1>13. \A k \in 1..Len(ws) : k = 2 * n + 1 \/ \E i \in 1..n : k = 2 * i - 1 \/ k = 2 * i
  <2> SUFFICES ASSUME NEW k \in 1..Len(ws), k # 2 * n + 1
               PROVE  \E i \in 1..n : k = 2 * i - 1 \/ k = 2 * i
    OBVIOUS
  <2>1. k \in 1 .. 2 * n
    BY <1>1, <1>9
  <2> QED BY <1>2, <2>1
<1>14. PutsSound(ws, S, H)
  BY <1>11, <1>12, <1>13 DEF PutsSound
<1> QED BY <1>9, <1>14 DEF ws, sc, c

-----------------------------------------------------------------------------
LEMMA GenesisShape == BranchShape(Genesis)
<1>1. ancestry[Genesis] = {Genesis}
  BY Constants, AncestryUnfolds
<1> QED BY <1>1, Constants DEF BranchShape

LEMMA InitStoreInv == StoreInit => StoreInv
<1> SUFFICES ASSUME StoreInit PROVE StoreInv
  OBVIOUS
<1>1. /\ all_blocks = {Genesis} /\ phase = "down" /\ db_blocks = {} /\ db_height = <<>>
      /\ db_tip = NoBlock /\ stage = "idle" /\ writes = <<>> /\ reload = <<>>
  BY DEF StoreInit, Init
<1>2. DiskSound
  BY <1>1 DEF DiskSound
<1>3. MemorySound
  BY <1>1, Constants, GenesisShape DEF MemorySound
<1>4. CallSound
  BY <1>1 DEF CallSound
<1>5. PutsSound(writes, db_blocks, DOMAIN db_height)
  BY <1>1, NoPuts
<1> QED BY <1>2, <1>3, <1>4, <1>5 DEF StoreInv

(* With nothing left to put, what will be stored is stored. *)
LEMMA NothingLeft == writes = <<>> => WillStore = db_blocks
<1>1. Len(<<>>) + 1 = 1
  OBVIOUS
<1> QED BY <1>1, NoPuts DEF WillStore

(* A step that leaves the disk and the puts alone leaves them sound. *)
LEMMA DiskStays ==
  ASSUME StoreInv, UNCHANGED <<disk, writes>>
  PROVE  /\ DiskSound' /\ WillStore' = WillStore
         /\ PutsSound(writes', db_blocks', DOMAIN db_height')
<1>1. db_blocks' = db_blocks /\ db_height' = db_height /\ db_tip' = db_tip /\ writes' = writes
  BY DEF disk
<1> QED BY <1>1 DEF StoreInv, DiskSound, WillStore, height

LEMMA BeginAddInv ==
  ASSUME StoreInv, NEW b \in Hash, NEW now, BeginAdd(b, now),
         phase \in {"opening", "up"}, UNCHANGED phase, reload' \in Seq(Hash)
  PROVE  StoreInv'
<1>1. /\ Accepts(b, now) /\ adding' = b /\ stage' = "saving" /\ writes' = save_block(b)
      /\ all_blocks' = all_blocks
      /\ db_blocks' = db_blocks /\ db_height' = db_height /\ db_tip' = db_tip
  BY DEF BeginAdd, vars, disk
<1>2. BranchShape(b)
  <2>1. /\ prev(b) \in all_blocks /\ prev(b) \in Hash
        /\ height(b) = height(prev(b)) + 1
        /\ block[b].bits = next_bits[prev(b)]
    BY <1>1, AcceptedBlock, Constants
  <2>2. BranchShape(prev(b))
    BY <2>1 DEF StoreInv, MemorySound
  <2> QED BY <2>1, <2>2, BranchExtends
<1>3. /\ writes' \in Seq(Write)
      /\ PutsSound(writes', db_blocks', DOMAIN db_height')
      /\ b \in WillStore'
  BY <1>1, SaveBlockSound DEF WillStore
<1>4. DiskSound'
  BY <1>1 DEF StoreInv, DiskSound, height
<1>5. MemorySound'
  BY <1>1 DEF StoreInv, MemorySound, BranchShape, height, prev
<1>6. CallSound'
  BY <1>1, <1>2, <1>3 DEF StoreInv, CallSound, BranchShape, height, prev
<1> QED BY <1>3, <1>4, <1>5, <1>6 DEF StoreInv

LEMMA StoreBlockInv ==
  ASSUME StoreInv, StoreBlock
  PROVE  StoreInv'
<1>1. /\ stage = "saving" /\ writes = <<>> /\ stage' = "stored"
      /\ all_blocks' = all_blocks \cup {adding} /\ adding' = adding
      /\ phase' = phase /\ reload' = reload
      /\ db_blocks' = db_blocks /\ db_height' = db_height /\ db_tip' = db_tip
      /\ writes' = <<>> \/ writes' = SaveChain(chain_to_hash(adding)) \o save_tip(adding)
  BY DEF StoreBlock, disk
<1>2. phase \in {"opening", "up"} /\ adding \in Hash /\ BranchShape(adding)
  BY <1>1 DEF StoreInv, CallSound
<1>3. adding \in db_blocks /\ Genesis \in db_blocks
  BY <1>1, <1>2, NothingLeft DEF StoreInv, CallSound, MemorySound
<1>4. writes' \in Seq(Write) /\ PutsSound(writes', db_blocks', DOMAIN db_height')
  <2>1. CASE writes' = <<>>
    BY <2>1, NoPuts
  <2>2. CASE writes' = SaveChain(chain_to_hash(adding)) \o save_tip(adding)
    BY <1>1, <1>2, <1>3, <2>2, SaveChainSound
  <2> QED BY <1>1, <2>1, <2>2
<1>5. DiskSound'
  BY <1>1 DEF StoreInv, DiskSound, height
<1>6. MemorySound'
  BY <1>1, <1>2, <1>3 DEF StoreInv, MemorySound, BranchShape, height, prev
<1>7. CallSound'
  BY <1>1, <1>2, <1>4 DEF StoreInv, CallSound, BranchShape, height, prev
<1> QED BY <1>4, <1>5, <1>6, <1>7 DEF StoreInv

LEMMA FinishAddInv ==
  ASSUME StoreInv, FinishAdd
  PROVE  StoreInv'
<1>1. /\ stage' = "idle" /\ all_blocks' = Retained(all_blocks, tip, blocks)
      /\ UNCHANGED <<phase, disk, writes, reload>>
  BY DEF FinishAdd
<1>2. all_blocks' \subseteq all_blocks
  BY <1>1 DEF Retained
<1>3. DiskSound' /\ WillStore' = WillStore /\ PutsSound(writes', db_blocks', DOMAIN db_height')
  BY <1>1, DiskStays
<1>4. phase \in {"opening", "up"}
  BY DEF FinishAdd, StoreInv, CallSound
<1>5. MemorySound'
  BY <1>1, <1>2, <1>4 DEF StoreInv, MemorySound, BranchShape, height, prev, disk
<1>6. CallSound'
  BY <1>1 DEF StoreInv, CallSound
<1> QED BY <1>3, <1>5, <1>6 DEF StoreInv

(* A failed put ends the call, before or after the block entered memory. *)
LEMMA PutFailsInv ==
  ASSUME StoreInv, PutFails
  PROVE  StoreInv'
<1>1. /\ stage' = "idle" /\ writes' = <<>> /\ reload' = reload /\ all_blocks' = all_blocks
      /\ phase' = "failed" \/ (phase' = "up" /\ phase = "up")
      /\ db_blocks' = db_blocks /\ db_height' = db_height /\ db_tip' = db_tip
  BY DEF PutFails, disk, vars
<1>2. writes' \in Seq(Write) /\ PutsSound(writes', db_blocks', DOMAIN db_height')
  BY <1>1, NoPuts
<1>3. DiskSound'
  BY <1>1 DEF StoreInv, DiskSound, height
<1>4. MemorySound'
  BY <1>1 DEF StoreInv, MemorySound, BranchShape, height, prev
<1>5. CallSound'
  BY <1>1, <1>2 DEF StoreInv, CallSound
<1> QED BY <1>2, <1>3, <1>4, <1>5 DEF StoreInv

LEMMA OpenFreshInv ==
  ASSUME StoreInv, OpenFresh
  PROVE  StoreInv'
<1>1. /\ phase \in {"down", "failed"} /\ phase' = "creating" /\ all_blocks' = {Genesis}
      /\ writes' = save_block(Genesis) \o save_tip(Genesis)
      /\ db_blocks' = db_blocks /\ db_height' = db_height /\ db_tip' = db_tip
      /\ stage' = stage /\ reload' = reload
  BY DEF OpenFresh, FromGenesis, disk
<1>2. stage' = "idle"
  BY <1>1 DEF StoreInv, CallSound
<1>3. /\ writes' \in Seq(Write) /\ PutsSound(writes', db_blocks', DOMAIN db_height')
      /\ Genesis \in WillStore'
  BY <1>1, CreateSound DEF WillStore
<1>4. DiskSound'
  BY <1>1 DEF StoreInv, DiskSound, height
<1>5. MemorySound'
  BY <1>1, <1>3, Constants, GenesisShape DEF MemorySound, BranchShape, height, prev
<1>6. CallSound'
  BY <1>1, <1>2, <1>3 DEF StoreInv, CallSound
<1> QED BY <1>3, <1>4, <1>5, <1>6 DEF StoreInv

LEMMA OpenStoredInv ==
  ASSUME StoreInv, OpenStored
  PROVE  StoreInv'
<1>1. /\ phase \in {"down", "failed"} /\ db_tip # NoBlock /\ all_blocks' = {Genesis}
      /\ phase' \in {"opening", "failed"}
      /\ reload' = IF Loadable THEN [h \in 1..height(db_tip) |-> db_height[h]] ELSE <<>>
      /\ UNCHANGED <<disk, writes>> /\ stage' = stage /\ db_blocks' = db_blocks
  BY DEF OpenStored, FromGenesis, disk, call
<1>2. stage' = "idle"
  BY <1>1 DEF StoreInv, CallSound
<1>3. DiskSound' /\ PutsSound(writes', db_blocks', DOMAIN db_height')
  BY <1>1, DiskStays
<1>4. reload' \in Seq(Hash)
  <2>1. CASE Loadable
    <3>1. db_tip \in Hash /\ db_blocks \subseteq Hash
      BY <1>1 DEF StoreInv, DiskSound
    <3>2. height(db_tip) \in Nat
      BY <3>1, Constants
    <3>3. \A h \in 1..height(db_tip) : db_height[h] \in Hash
      BY <2>1, <3>1, <3>2 DEF Loadable
    <3> QED BY <1>1, <2>1, <3>2, <3>3
  <2>2. CASE ~ Loadable
    BY <1>1, <2>2
  <2> QED BY <2>1, <2>2
<1>5. MemorySound'
  <2>1. Genesis \in db_blocks'
    BY <1>1 DEF StoreInv, DiskSound
  <2> QED BY <1>1, <2>1, Constants, GenesisShape DEF MemorySound, BranchShape, height, prev
<1>6. CallSound'
  BY <1>1, <1>2, <1>4 DEF StoreInv, CallSound
<1> QED BY <1>3, <1>5, <1>6 DEF StoreInv

LEMMA CrashInv ==
  ASSUME StoreInv, Crash
  PROVE  StoreInv'
<1>1. /\ phase' = "down" /\ all_blocks' = {Genesis} /\ stage' = "idle" /\ writes' = <<>>
      /\ reload' = <<>>
      /\ db_blocks' = db_blocks /\ db_height' = db_height /\ db_tip' = db_tip
  BY DEF Crash, FromGenesis, disk
<1>2. writes' \in Seq(Write) /\ PutsSound(writes', db_blocks', DOMAIN db_height')
  BY <1>1, NoPuts
<1>3. DiskSound'
  BY <1>1 DEF StoreInv, DiskSound, height
<1>4. MemorySound'
  BY <1>1, Constants, GenesisShape DEF MemorySound, BranchShape, height, prev
<1>5. CallSound'
  BY <1>1, <1>2 DEF CallSound
<1> QED BY <1>2, <1>3, <1>4, <1>5 DEF StoreInv

(* The steps that touch neither the disk nor the known blocks nor the call. *)
LEMMA QuietInv ==
  ASSUME StoreInv, UNCHANGED <<all_blocks, disk, call, reload>>,
         \/ UNCHANGED phase
         \/ phase = "opening" /\ stage = "idle" /\ phase' \in {"failed", "up"}
         \/ phase = "creating" /\ writes = <<>> /\ phase' = "up"
  PROVE  StoreInv'
<1>1. /\ all_blocks' = all_blocks /\ stage' = stage /\ writes' = writes /\ adding' = adding
      /\ reload' = reload /\ db_blocks' = db_blocks
  BY DEF disk, call
<1>2. DiskSound' /\ WillStore' = WillStore /\ PutsSound(writes', db_blocks', DOMAIN db_height')
  BY <1>1, DiskStays
<1>3. phase = "creating" /\ writes = <<>> =>
        stage = "idle" /\ all_blocks \subseteq db_blocks /\ Genesis \in db_blocks
  BY NothingLeft DEF StoreInv, MemorySound, CallSound
<1>4. MemorySound'
  BY <1>1, <1>2, <1>3 DEF StoreInv, MemorySound, BranchShape, height, prev
<1>5. CallSound'
  BY <1>1, <1>2, <1>3 DEF StoreInv, CallSound, BranchShape, height, prev
<1> QED BY <1>2, <1>4, <1>5 DEF StoreInv

LEMMA NextStoreInv == StoreInv /\ [StoreNext]_storeVars => StoreInv'
<1> SUFFICES ASSUME StoreInv, [StoreNext]_storeVars PROVE StoreInv'
  OBVIOUS
<1>1. CASE Put
  BY <1>1, PutInv
<1>2. CASE PutFails
  BY <1>2, PutFailsInv
<1>3. CASE StoreBlock
  BY <1>3, StoreBlockInv
<1>4. CASE FinishAdd
  BY <1>4, FinishAddInv
<1>5. CASE OpenFresh
  BY <1>5, OpenFreshInv
<1>6. CASE Created
  BY <1>6, QuietInv DEF Created, vars
<1>7. CASE OpenStored
  BY <1>7, OpenStoredInv
<1>8. CASE Opened
  BY <1>8, QuietInv DEF Opened, Idle
<1>9. ASSUME NEW now \in Clock, ReloadBlock(now) PROVE StoreInv'
  <2>1. Head(reload) \in Hash /\ Tail(reload) \in Seq(Hash)
    BY <1>9 DEF ReloadBlock, StoreInv, CallSound
  <2> QED BY <1>9, <2>1, BeginAddInv DEF ReloadBlock
<1>10. ASSUME NEW now \in Clock, ReloadFails(now) PROVE StoreInv'
  BY <1>10, QuietInv DEF ReloadFails, Idle, vars
<1>11. CASE Crash
  BY <1>11, CrashInv
<1>12. ASSUME NEW b \in Hash, NEW now \in Clock, NodeAddBlock(b, now) PROVE StoreInv'
  <2>1. reload' \in Seq(Hash)
    BY <1>12 DEF NodeAddBlock, StoreInv, CallSound
  <2> QED BY <1>12, <2>1, BeginAddInv DEF NodeAddBlock
<1>13. ASSUME NEW t \in Txid, NodeSubmit(t) PROVE StoreInv'
  BY <1>13, QuietInv DEF NodeSubmit, SubmitTransaction
<1>14. CASE UNCHANGED storeVars
  BY <1>14, QuietInv DEF storeVars, vars
<1> QED BY <1>1, <1>2, <1>3, <1>4, <1>5, <1>6, <1>7, <1>8, <1>9, <1>10, <1>11, <1>12, <1>13,
           <1>14 DEF StoreNext

(* Wherever the process dies or a put fails, the stored tip and every height
   below it can be read back: open_for_network never meets a missing key.   *)
THEOREM DiskIsReadable == StoreSpec => []NoDanglingKeys
<1>1. StoreInv => NoDanglingKeys
  <2> SUFFICES ASSUME StoreInv, db_tip # NoBlock PROVE Loadable
    BY DEF NoDanglingKeys
  <2> QED BY DEF StoreInv, DiskSound, Loadable
<1> QED BY InitStoreInv, NextStoreInv, <1>1, PTL DEF StoreSpec

(* Every block a running node knows is on disk, whichever put failed. *)
THEOREM MemoryIsStored == StoreSpec => []KnownIsStored
<1>1. StoreInv => KnownIsStored
  BY DEF StoreInv, MemorySound, KnownIsStored
<1> QED BY InitStoreInv, NextStoreInv, <1>1, PTL DEF StoreSpec
=============================================================================
