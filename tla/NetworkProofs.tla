--------------------------- MODULE NetworkProofs ----------------------------
(***************************************************************************)
(* The network, for every network of nodes, every tree of blocks and all   *)
(* the limits.                                                             *)
(*                                                                         *)
(* Synchronisation (NodeSync): whatever a node is asked for it has, unless *)
(* it is a side block that it prunes.  The invariant says of each message  *)
(* under way, of each announcement that waits and of each batch of headers *)
(* what the sender of it had.                                              *)
(*                                                                         *)
(* The peer store (PeerManager): the counts of connections are exact, and  *)
(* no bucket of addresses outgrows its limit.                              *)
(*                                                                         *)
(* A connection (NoiseTransport): what is under way is the rest of what a  *)
(* side wrote, frame by frame, so the two sides stay in step.              *)
(***************************************************************************)
EXTENDS NodeSync, PeerManager, NoiseTransport, SumLemmas


LEMMA SyncConstants ==
  /\ Genesis \in Block
  /\ \A b \in Block : height[b] \in Nat
  /\ \A b \in Block \ {Genesis} : parent[b] \in Block
  /\ MAX_HEADERS \in Nat \ {0} /\ MAX_GETDATA_INFLIGHT \in Nat \ {0}
  /\ MAX_LOCATOR_HASHES \in Nat \ {0} /\ FINALITY_DEPTH \in Nat
  BY NodeSyncAssumption, TreeAssumption

LEMMA LinkEnds ==
  ASSUME NEW l \in Link
  PROVE  /\ l[1] \in Node /\ l[2] \in Node
         /\ Flip(l) \in Link /\ Flip(l)[1] = l[2] /\ Flip(l)[2] = l[1] /\ Flip(l) # l
<1>1. l[1] \in Node /\ l[2] \in Node /\ l[1] # l[2] /\ <<l[2], l[1]>> \in Link
  BY NodeSyncAssumption
<1>2. Flip(l) = <<l[2], l[1]>>
  BY DEF Flip
<1> QED BY <1>1, <1>2

-----------------------------------------------------------------------------
(* Sequences. *)

LEMMA Widen ==
  ASSUME NEW S, NEW T, S \subseteq T, NEW s \in Seq(S)
  PROVE  s \in Seq(T)
  OBVIOUS

LEMMA Joined ==
  ASSUME NEW X, NEW s \in Seq(X), NEW t \in Seq(X)
  PROVE  s \o t \in Seq(X)
  OBVIOUS

LEMMA Taken ==
  ASSUME NEW X, NEW s \in Seq(X), s # <<>>
  PROVE  Head(s) \in X /\ Tail(s) \in Seq(X)
  OBVIOUS

LEMMA Appended ==
  ASSUME NEW X, NEW s \in Seq(X), NEW x \in X
  PROVE  Append(s, x) \in Seq(X) /\ Append(s, x) # <<>>
<1> DEFINE t == Append(s, x)
<1>1. t \in Seq(X)
  OBVIOUS
<1>2. Len(t) = Len(s) + 1 /\ Len(s) \in Nat
  OBVIOUS
<1> HIDE DEF t
<1>3. t # <<>>
  BY <1>1, <1>2
<1> QED BY <1>1, <1>3 DEF t

LEMMA AtMostOne ==
  ASSUME NEW X, NEW x \in X
  PROVE  <<x>> \in Seq(X) /\ <<>> \in Seq(X)
  OBVIOUS

LEMMA OfItsElements ==
  ASSUME NEW S, NEW s \in Seq(S)
  PROVE  s \in Seq(ToSet(s)) /\ ToSet(s) \subseteq S
<1>1. \A i \in 1..Len(s) : s[i] \in ToSet(s)
  BY DEF ToSet
<1>2. s = [i \in 1..Len(s) |-> s[i]] /\ Len(s) \in Nat
  OBVIOUS
<1>3. ToSet(s) \subseteq S
  BY DEF ToSet
<1> QED BY <1>1, <1>2, <1>3

LEMMA Subsequence ==
  ASSUME NEW S, NEW s \in Seq(S), NEW m \in Nat \ {0}, NEW n \in Int, n <= Len(s)
  PROVE  SubSeq(s, m, n) \in Seq(S) /\ Len(SubSeq(s, m, n)) \in Nat
  OBVIOUS

-----------------------------------------------------------------------------
(* Paths. *)

(* The path of a block is a chain of blocks that ends in it and holds the path
   of each of its blocks.                                                   *)
PathShape(b) ==
  /\ path[b] \in Seq(Block)
  /\ b \in ToSet(path[b]) /\ Genesis \in ToSet(path[b])
  /\ \A c \in ToSet(path[b]) : ToSet(path[c]) \subseteq ToSet(path[b])

LEMMA PathExtends ==
  ASSUME NEW b \in Block \ {Genesis}, PathShape(parent[b])
  PROVE  /\ PathShape(b)
         /\ ToSet(path[b]) = ToSet(path[parent[b]]) \cup {b}
<1> DEFINE p == parent[b]
<1>1. p \in Block /\ path[p] \in Seq(Block) /\ path[b] = Append(path[p], b)
  BY SyncConstants, TreeAssumption DEF PathShape
<1>2. path[b] \in Seq(Block) /\ ToSet(path[b]) = ToSet(path[p]) \cup {b}
  <2> HIDE DEF p
  <2>1. Append(path[p], b) \in Seq(Block)
    BY <1>1
  <2>2. ToSet(Append(path[p], b)) = ToSet(path[p]) \cup {b}
    BY <1>1, AppendSet
  <2> QED BY <1>1, <2>1, <2>2
<1>3. \A c \in ToSet(path[p]) : ToSet(path[c]) \subseteq ToSet(path[p])
  BY DEF PathShape
<1> HIDE DEF p
<1>4. Genesis \in ToSet(path[p])
  BY DEF PathShape, p
<1>5. PathShape(b)
  BY <1>2, <1>3, <1>4 DEF PathShape
<1> QED BY <1>2, <1>5 DEF p

LEMMA AllPaths == \A b \in Block : PathShape(b)
<1> DEFINE Good == {h \in Nat : \A b \in Block : height[b] = h => PathShape(b)}
<1>1. \A b \in Block \ {Genesis} : parent[b] \in Block /\ height[b] = 1 + height[parent[b]]
  BY SyncConstants, TreeAssumption
<1>2. PathShape(Genesis)
  <2>1. path[Genesis] = <<Genesis>> /\ Genesis \in Block
    BY SyncConstants, TreeAssumption
  <2>2. ToSet(<<Genesis>>) = {Genesis}
    BY DEF ToSet
  <2> QED BY <2>1, <2>2 DEF PathShape
<1>3. 0 \in Good
  <2>1. \A b \in Block : height[b] = 0 => b = Genesis
    BY <1>1, SyncConstants
  <2> QED BY <1>2, <2>1
<1>4. ASSUME NEW h \in Nat, h \in Good PROVE h + 1 \in Good
  <2> SUFFICES ASSUME NEW b \in Block, height[b] = h + 1 PROVE PathShape(b)
    OBVIOUS
  <2>1. CASE b = Genesis
    BY <1>2, <2>1
  <2>2. CASE b # Genesis
    <3>1. parent[b] \in Block /\ height[parent[b]] = h
      BY <1>1, <2>2, SyncConstants
    <3>2. PathShape(parent[b])
      BY <1>4, <3>1
    <3> QED BY <2>2, <3>2, PathExtends
  <2> QED BY <2>1, <2>2
<1> HIDE DEF Good
<1>5. \A h \in Nat : h \in Good
  BY <1>3, <1>4, NatSetInduction
<1> QED BY <1>5, SyncConstants DEF Good

-----------------------------------------------------------------------------
(* What a task computes from its chain. *)

LEMMA LeastOf ==
  ASSUME NEW S, S \subseteq Nat, S # {}
  PROVE  Min(S) \in S /\ \A x \in S : Min(S) <= x
<1>1. \E x \in S : \A y \in S : x <= y
  BY LeastElement
<1> QED BY <1>1 DEF Min

(* A locator is a sequence. *)
LEMMA LocatorIndices ==
  ASSUME NEW t
  PROVE  DOMAIN block_locator(t) \subseteq Nat
<1> DEFINE gap(k) == IF k <= LOCATOR_DENSE + 1 THEN 1 ELSE 2 ^ (k - LOCATOR_DENSE - 1)
           at[k \in 1..MAX_LOCATOR_HASHES] ==
             IF k = 1 THEN height[t] ELSE Max({0, at[k - 1] - gap(k - 1)})
           used == {k \in 1..MAX_LOCATOR_HASHES : k = 1 \/ at[k - 1] > 0}
           hashes == [k \in 1..Cardinality(used) |-> path[t][at[k] + 1]]
<1>1. block_locator(t) = IF Last(hashes) = Genesis THEN hashes ELSE Append(hashes, Genesis)
  BY DEF block_locator
<1> HIDE DEF gap, at
<1>2. Cardinality(used) \in Nat
  <2>1. IsFiniteSet(1..MAX_LOCATOR_HASHES) /\ used \subseteq 1..MAX_LOCATOR_HASHES
    BY SyncConstants, FS_Interval
  <2> HIDE DEF used
  <2> QED BY <2>1, FS_Subset, FS_CardinalityType
<1> HIDE DEF used
<1> DEFINE n == Cardinality(used)
           X == {hashes[k] : k \in 1..n} \cup {Genesis}
<1>3. hashes = [k \in 1..n |-> hashes[k]]
  OBVIOUS
<1>4. n \in Nat /\ \A k \in 1..n : hashes[k] \in X
  BY <1>2
<1> HIDE DEF n, hashes
<1>5. hashes \in Seq(X) /\ Genesis \in X
  BY <1>3, <1>4
<1> HIDE DEF X
<1>6. DOMAIN hashes \subseteq Nat /\ DOMAIN Append(hashes, Genesis) \subseteq Nat
  BY <1>5
<1> QED BY <1>1, <1>6

(* The headers a node answers with are blocks of its own chain. *)
LEMMA HeadersOfPath ==
  ASSUME NEW t \in Block, NEW locator, DOMAIN locator \subseteq Nat
  PROVE  headers_after(t, locator) \in Seq(ToSet(path[t]))
<1> DEFINE S == ToSet(path[t])
           shared == {k \in DOMAIN locator : locator[k] \in ToSet(path[t])}
           from == IF shared = {} THEN 0 ELSE height[locator[Min(shared)]] + 1
           rest == SubSeq(path[t], from + 1, Len(path[t]))
<1>1. headers_after(t, locator) = SubSeq(rest, 1, Min({MAX_HEADERS, Len(rest)}))
  BY DEF headers_after
<1>2. path[t] \in Seq(Block)
  BY AllPaths DEF PathShape
<1>3. path[t] \in Seq(S) /\ S \subseteq Block /\ Len(path[t]) \in Nat
  BY <1>2, OfItsElements
<1>4. from \in Nat
  <2>1. CASE shared = {}
    BY <2>1
  <2>2. CASE shared # {}
    <3>1. Min(shared) \in shared
      <4> HIDE DEF shared
      <4>1. shared \subseteq Nat
        BY DEF shared
      <4> QED BY <2>2, <4>1, LeastOf
    <3>2. locator[Min(shared)] \in Block
      BY <1>3, <3>1
    <3> QED BY <2>2, <3>2, SyncConstants
  <2> QED BY <2>1, <2>2
<1> HIDE DEF S, from
<1>5. rest \in Seq(S) /\ Len(rest) \in Nat
  BY <1>3, <1>4, Subsequence
<1> HIDE DEF rest
<1>6. {MAX_HEADERS, Len(rest)} \subseteq Nat /\ {MAX_HEADERS, Len(rest)} # {}
  BY <1>5, SyncConstants
<1>7. Min({MAX_HEADERS, Len(rest)}) \in Nat /\ Min({MAX_HEADERS, Len(rest)}) <= Len(rest)
  BY <1>6, LeastOf
<1> DEFINE m == Min({MAX_HEADERS, Len(rest)})
<1>8. SubSeq(rest, 1, m) \in Seq(S)
  <2>1. 1 \in Nat \ {0} /\ m \in Int /\ m <= Len(rest)
    BY <1>7
  <2> HIDE DEF m
  <2> QED BY <1>5, <2>1, Subsequence
<1> QED BY <1>1, <1>8 DEF S

(* The requests for a list of blocks name blocks of the list. *)
LEMMA ChunksType ==
  ASSUME NEW X, NEW s \in Seq(X)
  PROVE  Chunks(s) \in Seq([kind : {"GetData"}, body : Seq(X)])
<1> DEFINE M == MAX_GETDATA_INFLIGHT
           n == (Len(s) + M - 1) \div M
           G == [kind : {"GetData"}, body : Seq(X)]
           c == Chunks(s)
<1>1. M \in Nat \ {0} /\ Len(s) \in Nat
  BY SyncConstants
<1>2. n \in Nat
  BY <1>1
<1>3. ASSUME NEW k \in 1..n PROVE c[k] \in G
  <2> DEFINE from == (k - 1) * M + 1
             to == Min({k * M, Len(s)})
  <2>1. k \in Nat /\ k - 1 \in Nat
    BY <1>2
  <2>2. from \in Nat \ {0} /\ k * M \in Nat
    <3>1. \A i, j \in Nat : i * j \in Nat
      OBVIOUS
    <3> QED BY <1>1, <2>1, <3>1
  <2>3. to \in Nat /\ to <= Len(s)
    <3>1. {k * M, Len(s)} \subseteq Nat /\ {k * M, Len(s)} # {}
      BY <1>1, <2>2
    <3> QED BY <3>1, LeastOf
  <2>4. c[k] = [kind |-> "GetData", body |-> SubSeq(s, from, to)]
    BY DEF Chunks, Message
  <2> HIDE DEF from, to
  <2>5. SubSeq(s, from, to) \in Seq(X)
    BY <2>2, <2>3, Subsequence
  <2> QED BY <2>4, <2>5
<1>4. c = [k \in 1..n |-> c[k]]
  BY DEF Chunks
<1> HIDE DEF n, c, G
<1>5. c \in Seq(G)
  BY <1>2, <1>3, <1>4
<1> QED BY <1>5 DEF c, G

-----------------------------------------------------------------------------
(* The messages that may be under way between nodes that had the blocks own
   and peer: a node announces and lists what it had, sends it, and asks for
   what the other side had.                                                 *)
Messages(own, peer) ==
       [kind : {"Version"}, body : [magic : {network_magic[n] : n \in Node}, best_height : Nat]]
  \cup [kind : {"Verack"}, body : {<<>>}]
  \cup [kind : {"GetHeaders"}, body : {block_locator(t) : t \in Block}]
  \cup [kind : {"Inv", "Headers"}, body : Seq(own)]
  \cup [kind : {"GetData"}, body : Seq(peer)]
  \cup [kind : {"Block"}, body : own]

Announcements(own) == [hash : own, source : Node \cup {"nobody"}]

Batches(peer) == [rest : Seq(peer), prev : Block, first : BOOLEAN, fetch : Seq(peer)]

(* By link. *)
Wire == [l \in Link |-> Messages(Had(l[1]), Had(l[2]))]
Relayed == [l \in Link |-> Announcements(Had(l[1]))]
Batched == [l \in Link |-> Batches(Had(l[2]))]

(* A node knows the path of its tip. *)
ChainsKnown ==
  /\ known \in [Node -> SUBSET Block] /\ tip \in [Node -> Block]
  /\ \A n \in Node : tip[n] \in known[n] /\ Genesis \in known[n]
  /\ \A n \in Node : ToSet(path[tip[n]]) \subseteq known[n]

(* Each of the functions f that belong to links holds sequences over M. *)
Holds(f, M) == DOMAIN f = Link /\ \A l \in Link : f[l] \in Seq(M[l])

SyncInv ==
  /\ ChainsKnown
  /\ Holds(chan, Wire)
  /\ Holds(relay, Relayed)
  /\ DOMAIN batch = Link /\ \A l \in Link : batch[l] \in Batched[l]

LEMMA InitSync == Init => SyncInv
<1> SUFFICES ASSUME Init PROVE SyncInv
  OBVIOUS
<1>1. \A n \in Node : start[n] \in Block /\ PathShape(start[n])
  BY NodeSyncAssumption, AllPaths
<1>2. \A n \in Node : known[n] = ToSet(path[start[n]]) /\ known[n] \subseteq Block
  <2>1. \A n \in Node : known[n] = ToSet(path[start[n]])
    BY DEF Init
  <2>2. \A b \in Block : PathShape(b) => ToSet(path[b]) \subseteq Block
    BY OfItsElements DEF PathShape
  <2> QED BY <1>1, <2>1, <2>2
<1>3. ChainsKnown
  <2>1. DOMAIN known = Node /\ tip = start
    BY DEF Init
  <2>2. known \in [Node -> SUBSET Block]
    BY <1>2, <2>1 DEF Init
  <2>3. \A n \in Node : tip[n] \in known[n] /\ Genesis \in known[n]
    BY <1>1, <1>2, <2>1 DEF PathShape
  <2>4. \A n \in Node : ToSet(path[tip[n]]) \subseteq known[n]
    BY <1>2, <2>1
  <2> QED BY <2>1, <2>2, <2>3, <2>4, NodeSyncAssumption DEF ChainsKnown
<1>4. Holds(chan, Wire) /\ Holds(relay, Relayed)
  BY DEF Init, Holds
<1>5. Genesis \in Block
  BY SyncConstants
<1>6. DOMAIN batch = Link /\ \A l \in Link : batch[l] \in Batched[l]
  BY <1>5 DEF Init, Batched, Batches, Idle, NewBatch
<1> QED BY <1>3, <1>4, <1>6 DEF SyncInv

-----------------------------------------------------------------------------
(* What is under way stays sound while nodes learn more. *)
LEMMA MessagesGrow ==
  ASSUME NEW A, NEW B, A \subseteq B, NEW C, NEW D, C \subseteq D
  PROVE  Messages(A, C) \subseteq Messages(B, D)
<1>1. Seq(A) \subseteq Seq(B) /\ Seq(C) \subseteq Seq(D)
  BY Widen
<1> DEFINE SA == Seq(A)
           SB == Seq(B)
           SC == Seq(C)
           SD == Seq(D)
<1>2. SA \subseteq SB /\ SC \subseteq SD
  BY <1>1
<1> HIDE DEF SA, SB, SC, SD
<1>3. /\ [kind : {"Inv", "Headers"}, body : SA] \subseteq [kind : {"Inv", "Headers"}, body : SB]
      /\ [kind : {"GetData"}, body : SC] \subseteq [kind : {"GetData"}, body : SD]
      /\ [kind : {"Block"}, body : A] \subseteq [kind : {"Block"}, body : B]
  BY <1>2
<1> QED BY <1>3 DEF Messages, SA, SB, SC, SD

(* The blocks too deep under t to survive beside its chain. *)
Deep(t) == {b \in Block : height[b] + FINALITY_DEPTH <= height[t]}

(* What a node had, when it knows the path of its tip. *)
LEMMA HadIs ==
  ASSUME NEW K, NEW t, ToSet(path[t]) \subseteq K
  PROVE  K \cup (Deep(t) \ ToSet(path[t])) = K \cup Deep(t)
  OBVIOUS

LEMMA HadInBlock ==
  ASSUME ChainsKnown, NEW n \in Node
  PROVE  Had(n) \subseteq Block /\ known[n] \subseteq Had(n)
  BY DEF ChainsKnown, Had, Pruned

(* Pruning takes away what is deep, and leaves the path of the tip. *)
LEMMA RetainedIs ==
  ASSUME NEW S \in SUBSET Block, NEW t \in Block, ToSet(path[t]) \subseteq S
  PROVE  /\ Retained(S, t) \subseteq S /\ ToSet(path[t]) \subseteq Retained(S, t)
         /\ S \subseteq Retained(S, t) \cup Deep(t)
<1>1. \A x \in Block : height[x] \in Nat
  BY SyncConstants
<1>2. FINALITY_DEPTH \in Nat
  BY SyncConstants
<1>3. Retained(S, t) \subseteq S /\ ToSet(path[t]) \subseteq Retained(S, t)
  BY DEF Retained
<1>4. ASSUME NEW x \in S, x \notin Retained(S, t) PROVE x \in Deep(t)
  <2>1. ~ (height[x] > height[t] - FINALITY_DEPTH) /\ x \in Block
    BY <1>4 DEF Retained
  <2> QED BY <1>1, <1>2, <2>1 DEF Deep
<1> QED BY <1>3, <1>4

(* After a step a node has, or has pruned, at least what it had. *)
Grows == \A n \in Node : Had(n) \subseteq Had(n)'

LEMMA StillSound ==
  ASSUME SyncInv, Grows
  PROVE  /\ Holds(chan, Wire') /\ Holds(relay, Relayed')
         /\ DOMAIN batch = Link /\ \A l \in Link : batch[l] \in Batched'[l]
<1>1. ASSUME NEW l \in Link
      PROVE  /\ chan[l] \in Seq(Wire'[l]) /\ relay[l] \in Seq(Relayed'[l])
             /\ batch[l] \in Batched'[l]
  <2>1. Had(l[1]) \subseteq Had(l[1])' /\ Had(l[2]) \subseteq Had(l[2])'
    BY LinkEnds DEF Grows
  <2>2. Wire[l] \subseteq Wire'[l]
    BY <2>1, MessagesGrow DEF Wire
  <2>3. Relayed[l] \subseteq Relayed'[l]
    BY <2>1 DEF Relayed, Announcements
  <2>4. Batched[l] \subseteq Batched'[l]
    <3>1. Seq(Had(l[2])) \subseteq Seq(Had(l[2])')
      BY <2>1, Widen
    <3> QED BY <3>1 DEF Batched, Batches
  <2>5. chan[l] \in Seq(Wire[l]) /\ relay[l] \in Seq(Relayed[l]) /\ batch[l] \in Batched[l]
    BY DEF SyncInv, Holds
  <2> QED BY <2>2, <2>3, <2>4, <2>5, Widen
<1> QED BY <1>1 DEF SyncInv, Holds

(* A task that answers, and one that ends. *)
LEMMA SentHolds ==
  ASSUME NEW M, Holds(chan, M), NEW l \in Link, NEW msgs \in Seq(M[l])
  PROVE  Sent(l, msgs) \in Seq(M[l])
<1>1. chan[l] \in Seq(M[l])
  BY DEF Holds
<1>2. chan[l] \o msgs \in Seq(M[l])
  BY <1>1, Joined
<1> QED BY <1>1, <1>2 DEF Sent

LEMMA AnswerHolds ==
  ASSUME NEW M, Holds(chan, M), NEW l \in Link, NEW msgs \in Seq(M[l]),
         chan[Flip(l)] # <<>>, Answer(l, msgs)
  PROVE  Holds(chan', M)
<1> DEFINE f == Flip(l)
           s == Sent(l, msgs)
<1>1. s \in Seq(M[l]) /\ f \in Link /\ chan[f] \in Seq(M[f]) /\ chan[f] # <<>>
  BY SentHolds, LinkEnds DEF Holds
<1>2. Tail(chan[f]) \in Seq(M[f])
  BY <1>1, Taken
<1>3. chan' = [chan EXCEPT ![f] = Tail(@), ![l] = s]
  BY DEF Answer
<1> HIDE DEF f, s
<1> QED BY <1>1, <1>2, <1>3 DEF Holds

LEMMA SendHolds ==
  ASSUME NEW M, Holds(chan, M), NEW l \in Link, NEW msgs \in Seq(M[l]),
         chan' = [chan EXCEPT ![l] = Sent(l, msgs)]
  PROVE  Holds(chan', M)
<1> DEFINE s == Sent(l, msgs)
<1>1. s \in Seq(M[l])
  BY SentHolds
<1>2. chan' = [chan EXCEPT ![l] = s]
  OBVIOUS
<1> HIDE DEF s
<1> QED BY <1>1, <1>2 DEF Holds

LEMMA BatchEnds == \A l \in Link : Idle \in Batched[l]
  BY SyncConstants DEF Batched, Batches, Idle, NewBatch

LEMMA BailSound ==
  ASSUME SyncInv, NEW l \in Link, Bail(l), UNCHANGED <<known, tip>>
  PROVE  SyncInv'
<1>1. Wire' = Wire /\ Relayed' = Relayed /\ Batched' = Batched
  BY DEF Wire, Relayed, Batched, Had, Pruned
<1>2. ChainsKnown'
  BY DEF SyncInv, ChainsKnown
<1>3. Holds(chan', Wire) /\ Holds(relay', Relayed)
  <2>1. \A k \in Link : <<>> \in Seq(Wire[k]) /\ <<>> \in Seq(Relayed[k])
    OBVIOUS
  <2>2. /\ DOMAIN chan' = DOMAIN chan /\ \A k \in DOMAIN chan : chan'[k] = <<>> \/ chan'[k] = chan[k]
        /\ DOMAIN relay' = DOMAIN relay
        /\ \A k \in DOMAIN relay : relay'[k] = <<>> \/ relay'[k] = relay[k]
    BY DEF Bail
  <2> QED BY <2>1, <2>2 DEF SyncInv, Holds
<1>4. DOMAIN batch' = Link /\ \A k \in Link : batch'[k] \in Batched[k]
  BY BatchEnds DEF SyncInv, Bail
<1> QED BY <1>1, <1>2, <1>3, <1>4 DEF SyncInv, Holds

(* A step that changes only the messages under way and the announcements. *)
LEMMA WireSound ==
  ASSUME SyncInv, UNCHANGED <<known, tip, batch>>,
         Holds(chan', Wire), Holds(relay', Relayed)
  PROVE  SyncInv'
<1>1. Wire' = Wire /\ Relayed' = Relayed /\ Batched' = Batched
  BY DEF Wire, Relayed, Batched, Had, Pruned
<1>2. ChainsKnown'
  BY DEF SyncInv, ChainsKnown
<1> QED BY <1>1, <1>2 DEF SyncInv, Holds

-----------------------------------------------------------------------------
(* add_block, of a valid block that is known or whose branch is known. *)
LEMMA AddBlockSound ==
  ASSUME SyncInv, NEW n \in Node, NEW b \in Block, AddOk(n, b), AddBlock(n, b)
  PROVE  /\ Grows /\ ChainsKnown' /\ b \in Had(n)'
<1> DEFINE K == known[n]
           t == tip[n]
           u == tip'[n]
<1>1. /\ known \in [Node -> SUBSET Block] /\ tip \in [Node -> Block]
      /\ K \subseteq Block /\ Genesis \in K /\ t \in K /\ ToSet(path[t]) \subseteq K
  BY DEF SyncInv, ChainsKnown
<1>2. CASE b \in K
  <2>1. known' = known /\ tip' = tip
    BY <1>2 DEF AddBlock
  <2> QED BY <1>2, <2>1 DEF SyncInv, ChainsKnown, Grows, Had, Pruned
<1>3. CASE b \notin K
  <2>1. b \in Block \ {Genesis} /\ ToSet(path[parent[b]]) \subseteq K
    BY <1>1, <1>3 DEF AddOk
  <2>2. ToSet(path[b]) = ToSet(path[parent[b]]) \cup {b} /\ b \in ToSet(path[b])
    <3>1. PathShape(parent[b]) /\ PathShape(b)
      BY <2>1, SyncConstants, AllPaths
    <3> QED BY <2>1, <3>1, PathExtends DEF PathShape
  <2>3. /\ tip' = IF height[b] > height[t] THEN [tip EXCEPT ![n] = b] ELSE tip
        /\ known' = [known EXCEPT ![n] = Retained(K \cup {b}, u)]
    BY <1>3 DEF AddBlock
  <2>4. /\ u = b \/ u = t
        /\ tip' \in [Node -> Block] /\ \A m \in Node \ {n} : tip'[m] = tip[m]
    BY <1>1, <2>3
  <2>5. height[t] \in Nat /\ height[b] \in Nat /\ height[u] \in Nat /\ height[t] <= height[u]
    <3>1. height[t] \in Nat /\ height[b] \in Nat
      BY <1>1, SyncConstants
    <3> QED BY <1>1, <2>3, <3>1
  <2>6. u \in Block /\ K \cup {b} \in SUBSET Block /\ ToSet(path[u]) \subseteq K \cup {b}
    BY <1>1, <2>1, <2>2, <2>4
  <2> DEFINE R == Retained(K \cup {b}, u)
  <2>7. R \subseteq K \cup {b} /\ ToSet(path[u]) \subseteq R /\ K \cup {b} \subseteq R \cup Deep(u)
    BY <2>6, RetainedIs
  <2> HIDE DEF u
  <2>8. known'[n] = R /\ \A m \in Node \ {n} : known'[m] = known[m]
    <3> HIDE DEF R
    <3>1. known' = [known EXCEPT ![n] = R]
      BY <2>3 DEF R
    <3> QED BY <1>1, <3>1
  <2>9. known' \in [Node -> SUBSET Block]
    <3> HIDE DEF R
    <3>1. known' = [known EXCEPT ![n] = R] /\ R \in SUBSET Block
      BY <2>3, <2>6, <2>7 DEF R
    <3> QED BY <1>1, <3>1
  <2> HIDE DEF R
  <2>10. Had(n) = K \cup Deep(t) /\ Had(n)' = R \cup Deep(u)
    <3>1. Had(n) = K \cup (Deep(t) \ ToSet(path[t]))
      BY DEF Had, Pruned, Deep
    <3>2. Had(n)' = R \cup (Deep(u) \ ToSet(path[u]))
      BY <2>8 DEF Had, Pruned, Deep, u
    <3> QED BY <1>1, <2>7, <3>1, <3>2, HadIs
  <2>11. Deep(t) \subseteq Deep(u)
    BY <2>5, SyncConstants DEF Deep
  <2>12. \A m \in Node \ {n} : Had(m)' = Had(m)
    BY <2>4, <2>8 DEF Had, Pruned
  <2>13. Grows /\ b \in Had(n)'
    BY <2>7, <2>10, <2>11, <2>12 DEF Grows
  <2>14. PathShape(u)
    BY <2>6, AllPaths
  <2>15. ASSUME NEW m \in Node
         PROVE  /\ tip'[m] \in known'[m] /\ Genesis \in known'[m]
                /\ ToSet(path[tip'[m]]) \subseteq known'[m]
    <3>1. CASE m = n
      BY <2>7, <2>8, <2>14, <3>1 DEF PathShape, u
    <3>2. CASE m # n
      BY <2>4, <2>8, <3>2 DEF SyncInv, ChainsKnown
    <3> QED BY <3>1, <3>2
  <2>16. ChainsKnown'
    BY <2>4, <2>9, <2>15 DEF ChainsKnown
  <2> QED BY <2>13, <2>16
<1> QED BY <1>2, <1>3

(* An announcement of a block the node accepted. *)
LEMMA AnnounceHolds ==
  ASSUME NEW M, Holds(relay, M), NEW n, NEW b, NEW source, Announce(n, b, source),
         \A l \in Link : l[1] = n => [hash |-> b, source |-> source] \in M[l]
  PROVE  Holds(relay', M)
<1> DEFINE e == [hash |-> b, source |-> source]
<1>1. ASSUME NEW l \in Link PROVE relay'[l] \in Seq(M[l])
  <2> DEFINE r == relay[l]
             q == Append(r, e)
  <2>1. r \in Seq(M[l])
    BY DEF Holds
  <2>2. \/ relay'[l] = r
        \/ l[1] = n /\ (relay'[l] = q \/ relay'[l] = Tail(q))
    BY DEF Announce
  <2>3. l[1] = n => e \in M[l]
    OBVIOUS
  <2> HIDE DEF r, e
  <2>4. l[1] = n => q \in Seq(M[l]) /\ q # <<>>
    BY <2>1, <2>3, Appended
  <2>5. l[1] = n => Tail(q) \in Seq(M[l])
    <3> HIDE DEF q
    <3> QED BY <2>4, Taken
  <2> QED BY <2>1, <2>2, <2>4, <2>5
<1>2. DOMAIN relay' = Link
  BY DEF Announce
<1> QED BY <1>1, <1>2 DEF Holds

LEMMA MineSound ==
  ASSUME SyncInv, NEW n \in Node, NEW b \in Block, Mine(n, b)
  PROVE  SyncInv'
<1>1. AddOk(n, b) /\ AddBlock(n, b) /\ Announce(n, b, "nobody") /\ UNCHANGED <<chan, batch>>
  BY DEF Mine, AddOk, SyncInv, ChainsKnown
<1>2. Grows /\ ChainsKnown' /\ b \in Had(n)'
  BY <1>1, AddBlockSound
<1>3. /\ Holds(chan, Wire') /\ Holds(relay, Relayed')
      /\ DOMAIN batch = Link /\ \A l \in Link : batch[l] \in Batched'[l]
  BY <1>2, StillSound
<1>4. \A l \in Link : l[1] = n => [hash |-> b, source |-> "nobody"] \in Relayed'[l]
  BY <1>2 DEF Relayed, Announcements
<1>5. Holds(relay', Relayed')
  BY <1>1, <1>3, <1>4, AnnounceHolds
<1> QED BY <1>1, <1>2, <1>3, <1>5 DEF SyncInv, Holds

LEMMA SubmitSound ==
  ASSUME SyncInv, NEW n \in Node, NEW b \in Block, SubmitBlock(n, b)
  PROVE  SyncInv'
<1>1. AddOk(n, b) /\ AddBlock(n, b) /\ UNCHANGED <<chan, relay, batch>>
  BY DEF SubmitBlock, conn
<1>2. Grows /\ ChainsKnown'
  BY <1>1, AddBlockSound
<1>3. /\ Holds(chan, Wire') /\ Holds(relay, Relayed')
      /\ DOMAIN batch = Link /\ \A l \in Link : batch[l] \in Batched'[l]
  BY <1>2, StillSound
<1> QED BY <1>1, <1>2, <1>3 DEF SyncInv, Holds

-----------------------------------------------------------------------------
(* The message at hand comes from a node that had what is in it. *)
LEMMA HeadOfQueue ==
  ASSUME SyncInv, NEW l \in Link, NEW kind, Incoming(l, kind)
  PROVE  LET m == Head(chan[Flip(l)])
         IN  /\ chan[Flip(l)] # <<>>
             /\ kind \in {"Inv", "Headers"} => m.body \in Seq(Had(l[2]))
             /\ kind = "GetData" => m.body \in Seq(Had(l[1]))
             /\ kind = "Block" => m.body \in Had(l[2])
             /\ kind = "GetHeaders" => \E t \in Block : m.body = block_locator(t)
<1> DEFINE m == Head(chan[Flip(l)])
           own == Had(l[2])
           peer == Had(l[1])
<1>1. Flip(l) \in Link /\ Flip(l)[1] = l[2] /\ Flip(l)[2] = l[1]
  BY LinkEnds
<1>2. chan[Flip(l)] # <<>> /\ m.kind = kind
  BY DEF Incoming
<1>3. chan[Flip(l)] \in Seq(Wire[Flip(l)]) /\ Wire[Flip(l)] = Messages(own, peer)
  BY <1>1 DEF SyncInv, Holds, Wire
<1>4. m \in Messages(own, peer)
  BY <1>2, <1>3, Taken
<1> HIDE DEF m, own, peer
<1>5. /\ m.kind \in {"Inv", "Headers"} => m.body \in Seq(own)
      /\ m.kind = "GetData" => m.body \in Seq(peer)
      /\ m.kind = "Block" => m.body \in own
      /\ m.kind = "GetHeaders" => m.body \in {block_locator(t) : t \in Block}
  <2> DEFINE SO == Seq(own)
             SP == Seq(peer)
             L == {block_locator(t) : t \in Block}
             V == [magic : {network_magic[n] : n \in Node}, best_height : Nat]
  <2>1. \/ m \in [kind : {"Version"}, body : V] \/ m \in [kind : {"Verack"}, body : {<<>>}]
        \/ m \in [kind : {"GetHeaders"}, body : L]
        \/ m \in [kind : {"Inv", "Headers"}, body : SO]
        \/ m \in [kind : {"GetData"}, body : SP] \/ m \in [kind : {"Block"}, body : own]
    BY <1>4 DEF Messages
  <2> HIDE DEF SO, SP, L, V
  <2>2. /\ m.kind \in {"Inv", "Headers"} => m.body \in SO
        /\ m.kind = "GetData" => m.body \in SP
        /\ m.kind = "Block" => m.body \in own
        /\ m.kind = "GetHeaders" => m.body \in L
    BY <2>1
  <2> QED BY <2>2 DEF SO, SP, L
<1> QED BY <1>2, <1>5 DEF m, own, peer

(* What a task may say on its link. *)
LEMMA MayBeSent ==
  ASSUME SyncInv, NEW l \in Link
  PROVE  /\ \A n \in Node : \A h \in Nat :
              Message("Version", [magic |-> network_magic[n], best_height |-> h]) \in Wire[l]
         /\ Message("Verack", <<>>) \in Wire[l]
         /\ \A t \in Block : Message("GetHeaders", block_locator(t)) \in Wire[l]
         /\ \A s \in Seq(Had(l[1])) :
              Message("Inv", s) \in Wire[l] /\ Message("Headers", s) \in Wire[l]
         /\ \A s \in Seq(Had(l[2])) : Message("GetData", s) \in Wire[l]
         /\ \A b \in Had(l[1]) : Message("Block", b) \in Wire[l]
<1>1. Wire[l] = Messages(Had(l[1]), Had(l[2]))
  BY DEF Wire
<1>2. \A n \in Node : \A h \in Nat :
        Message("Version", [magic |-> network_magic[n], best_height |-> h]) \in Wire[l]
  BY <1>1 DEF Messages, Message
<1>3. Message("Verack", <<>>) \in Wire[l]
  BY <1>1 DEF Messages, Message
<1>4. \A t \in Block : Message("GetHeaders", block_locator(t)) \in Wire[l]
  BY <1>1 DEF Messages, Message
<1>5. \A s \in Seq(Had(l[1])) : Message("Inv", s) \in Wire[l] /\ Message("Headers", s) \in Wire[l]
  BY <1>1 DEF Messages, Message
<1>6. \A s \in Seq(Had(l[2])) : Message("GetData", s) \in Wire[l]
  BY <1>1 DEF Messages, Message
<1>7. \A b \in Had(l[1]) : Message("Block", b) \in Wire[l]
  BY <1>1 DEF Messages, Message
<1> QED BY <1>2, <1>3, <1>4, <1>5, <1>6, <1>7

(* The answer to one message. *)
LEMMA AnswerSound ==
  ASSUME SyncInv, NEW l \in Link, chan[Flip(l)] # <<>>, NEW msgs \in Seq(Wire[l]),
         Answer(l, msgs), UNCHANGED <<known, tip, relay, batch>>
  PROVE  SyncInv'
<1>1. Holds(chan', Wire)
  BY AnswerHolds DEF SyncInv
<1> QED BY <1>1, WireSound DEF SyncInv

LEMMA RecvVersionSound ==
  ASSUME SyncInv, NEW l \in Link, RecvVersion(l)
  PROVE  SyncInv'
<1> DEFINE body == Head(chan[Flip(l)]).body
           behind == body.best_height > height[tip[l[1]]]
           first == <<Message("Verack", <<>>)>>
           more == IF behind THEN <<Message("GetHeaders", block_locator(tip[l[1]]))>> ELSE <<>>
<1>1. CASE ~ SameNetwork(l[1], body)
  BY <1>1, BailSound DEF RecvVersion
<1>2. CASE SameNetwork(l[1], body)
  <2>1. Incoming(l, "Version") /\ Answer(l, first \o more) /\ UNCHANGED <<known, tip, relay, batch>>
    BY <1>2 DEF RecvVersion
  <2>2. chan[Flip(l)] # <<>>
    BY <2>1 DEF Incoming
  <2>3. tip[l[1]] \in Block
    BY LinkEnds DEF SyncInv, ChainsKnown
  <2>4. first \in Seq(Wire[l]) /\ more \in Seq(Wire[l])
    <3> DEFINE v == Message("Verack", <<>>)
               g == Message("GetHeaders", block_locator(tip[l[1]]))
    <3>1. v \in Wire[l] /\ g \in Wire[l]
      BY <2>3, MayBeSent
    <3> HIDE DEF v, g
    <3>2. <<v>> \in Seq(Wire[l]) /\ <<g>> \in Seq(Wire[l]) /\ <<>> \in Seq(Wire[l])
      BY <3>1, AtMostOne
    <3> QED BY <3>2 DEF v, g
  <2> HIDE DEF first, more
  <2>5. first \o more \in Seq(Wire[l])
    BY <2>4, Joined
  <2> QED BY <2>1, <2>2, <2>5, AnswerSound
<1> QED BY <1>1, <1>2

LEMMA RecvVerackSound ==
  ASSUME SyncInv, NEW l \in Link, RecvVerack(l)
  PROVE  SyncInv'
<1>1. <<>> \in Seq(Wire[l]) /\ chan[Flip(l)] # <<>>
  BY DEF RecvVerack, Incoming
<1> QED BY <1>1, AnswerSound DEF RecvVerack

LEMMA RecvGetHeadersSound ==
  ASSUME SyncInv, NEW l \in Link, RecvGetHeaders(l)
  PROVE  SyncInv'
<1> DEFINE locator == Head(chan[Flip(l)]).body
           headers == headers_after(tip[l[1]], locator)
           msgs == IF headers = <<>> THEN <<>> ELSE <<Message("Headers", headers)>>
<1>1. Incoming(l, "GetHeaders") /\ Answer(l, msgs) /\ UNCHANGED <<known, tip, relay, batch>>
  BY DEF RecvGetHeaders
<1>2. chan[Flip(l)] # <<>> /\ \E t \in Block : locator = block_locator(t)
  BY <1>1, HeadOfQueue
<1>3. DOMAIN locator \subseteq Nat
  BY <1>2, LocatorIndices
<1> HIDE DEF locator
<1>4. tip[l[1]] \in Block /\ ToSet(path[tip[l[1]]]) \subseteq Had(l[1])
  BY LinkEnds, HadInBlock DEF SyncInv, ChainsKnown
<1>5. headers \in Seq(Had(l[1]))
  <2>1. headers \in Seq(ToSet(path[tip[l[1]]]))
    BY <1>3, <1>4, HeadersOfPath
  <2> QED BY <1>4, <2>1, Widen
<1> HIDE DEF headers
<1>6. msgs \in Seq(Wire[l])
  <2> DEFINE m == Message("Headers", headers)
  <2>1. m \in Wire[l]
    BY <1>5, MayBeSent
  <2> HIDE DEF m
  <2>2. <<m>> \in Seq(Wire[l]) /\ <<>> \in Seq(Wire[l])
    BY <2>1, AtMostOne
  <2> QED BY <2>2 DEF m
<1> HIDE DEF msgs
<1> QED BY <1>1, <1>2, <1>6, AnswerSound

LEMMA RecvInvSound ==
  ASSUME SyncInv, NEW l \in Link, RecvInv(l)
  PROVE  SyncInv'
<1> DEFINE body == Head(chan[Flip(l)]).body
           items == needed(l[1], body)
           msgs == IF items = <<>> THEN <<>> ELSE <<Message("GetData", items)>>
<1>1. Incoming(l, "Inv") /\ Answer(l, msgs) /\ UNCHANGED <<known, tip, relay, batch>>
  BY DEF RecvInv
<1>2. chan[Flip(l)] # <<>> /\ body \in Seq(Had(l[2]))
  BY <1>1, HeadOfQueue
<1> HIDE DEF body
<1>3. items \in Seq(Had(l[2]))
  BY <1>2, KeptType DEF needed
<1> HIDE DEF items
<1>4. msgs \in Seq(Wire[l])
  <2> DEFINE m == Message("GetData", items)
  <2>1. m \in Wire[l]
    BY <1>3, MayBeSent
  <2> HIDE DEF m
  <2>2. <<m>> \in Seq(Wire[l]) /\ <<>> \in Seq(Wire[l])
    BY <2>1, AtMostOne
  <2> QED BY <2>2 DEF m
<1> HIDE DEF msgs
<1> QED BY <1>1, <1>2, <1>4, AnswerSound

LEMMA RecvGetDataSound ==
  ASSUME SyncInv, NEW l \in Link, RecvGetData(l)
  PROVE  SyncInv'
<1> DEFINE body == Head(chan[Flip(l)]).body
           items == Kept(body, known[l[1]])
           msgs == [i \in DOMAIN items |-> Message("Block", items[i])]
<1>1. Incoming(l, "GetData") /\ Answer(l, msgs) /\ UNCHANGED <<known, tip, relay, batch>>
  BY DEF RecvGetData
<1>2. chan[Flip(l)] # <<>> /\ body \in Seq(Had(l[1]))
  BY <1>1, HeadOfQueue
<1> HIDE DEF body
<1>3. items \in Seq(Had(l[1]))
  BY <1>2, KeptType
<1> HIDE DEF items
<1>4. DOMAIN items = 1..Len(items) /\ Len(items) \in Nat
      /\ \A i \in 1..Len(items) : items[i] \in Had(l[1])
  BY <1>3
<1>5. \A i \in 1..Len(items) : msgs[i] \in Wire[l]
  BY <1>4, MayBeSent
<1>6. msgs = [i \in 1..Len(items) |-> msgs[i]]
  BY <1>4
<1> HIDE DEF msgs
<1>7. msgs \in Seq(Wire[l])
  BY <1>4, <1>5, <1>6
<1> QED BY <1>1, <1>2, <1>7, AnswerSound

LEMMA RecvHeadersSound ==
  ASSUME SyncInv, NEW l \in Link, RecvHeaders(l)
  PROVE  SyncInv'
<1> DEFINE body == Head(chan[Flip(l)]).body
<1>1. /\ Incoming(l, "Headers") /\ Answer(l, <<>>) /\ UNCHANGED <<known, tip, relay>>
      /\ batch' = [batch EXCEPT ![l] = NewBatch(body)]
  BY DEF RecvHeaders
<1>2. chan[Flip(l)] # <<>> /\ body \in Seq(Had(l[2]))
  BY <1>1, HeadOfQueue
<1> HIDE DEF body
<1>3. NewBatch(body) \in Batched[l]
  BY <1>2, SyncConstants DEF NewBatch, Batched, Batches
<1>4. DOMAIN batch' = Link /\ \A k \in Link : batch'[k] \in Batched[k]
  BY <1>1, <1>3 DEF SyncInv
<1>5. <<>> \in Seq(Wire[l])
  OBVIOUS
<1>6. Holds(chan', Wire)
  BY <1>1, <1>2, <1>5, AnswerHolds DEF SyncInv
<1>7. Wire' = Wire /\ Relayed' = Relayed /\ Batched' = Batched /\ ChainsKnown'
  BY <1>1 DEF Wire, Relayed, Batched, Had, Pruned, SyncInv, ChainsKnown
<1> QED BY <1>1, <1>4, <1>6, <1>7 DEF SyncInv, Holds

(* One header of a batch: its sender had it. *)
LEMMA HeaderStepSound ==
  ASSUME SyncInv, NEW l \in Link, HeaderStep(l)
  PROVE  SyncInv'
<1> DEFINE b == batch[l]
           X == Had(l[2])
           header == Head(b.rest)
           next == [rest |-> Tail(b.rest), prev |-> header, first |-> FALSE,
                    fetch |-> Fetch(b, header, l[1])]
<1>1. /\ b.rest # <<>> /\ UNCHANGED <<known, tip, relay>>
      /\ \/ batch' = [batch EXCEPT ![l] = Idle] /\ chan' = [chan EXCEPT ![l] = Sent(l, Chunks(b.fetch))]
         \/ batch' = [batch EXCEPT ![l] = Idle] /\ chan' = [chan EXCEPT ![l] = Sent(l, Chunks(next.fetch))]
         \/ batch' = [batch EXCEPT ![l] = next] /\ chan' = chan
  BY DEF HeaderStep
<1>2. b.rest \in Seq(X) /\ b.fetch \in Seq(X) /\ X \subseteq Block
  <2>1. b \in Batches(X)
    BY DEF SyncInv, Batched
  <2> QED BY <2>1, LinkEnds, HadInBlock DEF Batches, SyncInv
<1>3. header \in X /\ Tail(b.rest) \in Seq(X)
  BY <1>1, <1>2, Taken
<1> HIDE DEF header
<1>4. Fetch(b, header, l[1]) \in Seq(X)
  <2>1. Append(b.fetch, header) \in Seq(X)
    <3> DEFINE f == b.fetch
    <3>1. f \in Seq(X)
      BY <1>2
    <3> HIDE DEF f, X
    <3>2. Append(f, header) \in Seq(X)
      BY <1>3, <3>1
    <3> QED BY <3>2 DEF f
  <2> QED BY <1>2, <2>1 DEF Fetch
<1>5. next \in Batched[l] /\ Idle \in Batched[l]
  BY <1>2, <1>3, <1>4, BatchEnds DEF Batched, Batches
<1>6. DOMAIN batch' = Link /\ \A k \in Link : batch'[k] \in Batched[k]
  <2> HIDE DEF next
  <2> QED BY <1>1, <1>5 DEF SyncInv
<1>7. Holds(chan', Wire)
  <2>1. ASSUME NEW s \in Seq(X), chan' = [chan EXCEPT ![l] = Sent(l, Chunks(s))]
        PROVE  Holds(chan', Wire)
    <3>1. [kind : {"GetData"}, body : Seq(X)] \subseteq Wire[l]
      BY DEF Wire, Messages
    <3>2. Chunks(s) \in Seq([kind : {"GetData"}, body : Seq(X)])
      BY ChunksType
    <3> DEFINE G == [kind : {"GetData"}, body : Seq(X)]
               c == Chunks(s)
    <3>3. c \in Seq(G) /\ G \subseteq Wire[l]
      BY <3>1, <3>2
    <3> HIDE DEF G, c
    <3>4. c \in Seq(Wire[l])
      BY <3>3, Widen
    <3>5. chan' = [chan EXCEPT ![l] = Sent(l, c)]
      BY <2>1 DEF c
    <3> QED BY <3>4, <3>5, SendHolds DEF SyncInv
  <2>2. next.fetch \in Seq(X)
    BY <1>4
  <2> HIDE DEF X, next
  <2>3. CASE chan' = [chan EXCEPT ![l] = Sent(l, Chunks(b.fetch))]
    BY <1>2, <2>1, <2>3
  <2>4. CASE chan' = [chan EXCEPT ![l] = Sent(l, Chunks(next.fetch))]
    BY <2>1, <2>2, <2>4
  <2>5. CASE chan' = chan
    BY <2>5 DEF SyncInv
  <2> QED BY <1>1, <2>3, <2>4, <2>5
<1>8. Wire' = Wire /\ Relayed' = Relayed /\ Batched' = Batched /\ ChainsKnown'
  BY <1>1 DEF Wire, Relayed, Batched, Had, Pruned, SyncInv, ChainsKnown
<1> QED BY <1>1, <1>6, <1>7, <1>8 DEF SyncInv, Holds

(* A block arrives from a node that had it. *)
LEMMA RecvBlockSound ==
  ASSUME SyncInv, NEW l \in Link, RecvBlock(l)
  PROVE  SyncInv'
<1> DEFINE b == Head(chan[Flip(l)]).body
           n == l[1]
<1>1. n \in Node /\ l[2] \in Node
  BY LinkEnds
<1>2. Incoming(l, "Block")
  BY DEF RecvBlock
<1>3. chan[Flip(l)] # <<>> /\ b \in Block
  BY <1>1, <1>2, HeadOfQueue, HadInBlock DEF SyncInv
<1>4. CASE received[l] >= BLOCKS_PER_MINUTE
  <2>1. Bail(l) /\ UNCHANGED <<known, tip>>
    BY <1>4 DEF RecvBlock
  <2> QED BY <2>1, BailSound
<1>5. CASE ~ (received[l] >= BLOCKS_PER_MINUTE)
  <2>1. /\ Answer(l, <<>>) /\ UNCHANGED batch
        /\ IF AddOk(n, b) THEN AddBlock(n, b) /\ Announce(n, b, l[2])
           ELSE UNCHANGED <<known, tip, relay>>
    BY <1>5 DEF RecvBlock, Relays
  <2> HIDE DEF b, n
  <2>2. CASE ~ AddOk(n, b)
    <3>1. <<>> \in Seq(Wire[l])
      OBVIOUS
    <3> QED BY <1>3, <2>1, <2>2, <3>1, AnswerSound
  <2>3. CASE AddOk(n, b)
    <3>1. AddBlock(n, b) /\ Announce(n, b, l[2])
      BY <2>1, <2>3
    <3>2. Grows /\ ChainsKnown' /\ b \in Had(n)'
      BY <1>1, <1>3, <2>3, <3>1, AddBlockSound
    <3>3. /\ Holds(chan, Wire') /\ Holds(relay, Relayed')
          /\ DOMAIN batch = Link /\ \A k \in Link : batch[k] \in Batched'[k]
      BY <3>2, StillSound
    <3>4. \A k \in Link : k[1] = n => [hash |-> b, source |-> l[2]] \in Relayed'[k]
      BY <1>1, <3>2 DEF Relayed, Announcements
    <3>5. Holds(relay', Relayed')
      BY <3>1, <3>3, <3>4, AnnounceHolds
    <3>6. <<>> \in Seq(Wire'[l])
      OBVIOUS
    <3>7. Holds(chan', Wire')
      BY <1>3, <2>1, <3>3, <3>6, AnswerHolds
    <3> QED BY <2>1, <3>2, <3>3, <3>5, <3>7 DEF SyncInv, Holds
  <2> QED BY <2>2, <2>3
<1> QED BY <1>4, <1>5

(* A waiting announcement goes out. *)
LEMMA RelaySendSound ==
  ASSUME SyncInv, NEW l \in Link, RelaySend(l)
  PROVE  SyncInv'
<1> DEFINE r == relay[l]
           msgs == <<Message("Inv", <<Head(r).hash>>)>>
<1>1. /\ r # <<>> /\ relay' = [relay EXCEPT ![l] = Tail(r)]
      /\ UNCHANGED <<known, tip, batch>>
      /\ chan' = chan \/ (chan' = [chan EXCEPT ![l] = Sent(l, msgs)])
  BY DEF RelaySend
<1>2. r \in Seq(Relayed[l])
  BY DEF SyncInv, Holds
<1>3. Head(r) \in Relayed[l] /\ Tail(r) \in Seq(Relayed[l])
  BY <1>1, <1>2, Taken
<1>4. Holds(relay', Relayed)
  <2> HIDE DEF r
  <2> QED BY <1>1, <1>3 DEF SyncInv, Holds
<1>5. msgs \in Seq(Wire[l])
  <2> DEFINE h == Head(r).hash
             X == Had(l[1])
  <2>1. h \in X
    BY <1>3 DEF Relayed, Announcements
  <2> HIDE DEF h, X
  <2>2. <<h>> \in Seq(X)
    BY <2>1, AtMostOne
  <2> DEFINE m == Message("Inv", <<h>>)
  <2>3. m \in Wire[l]
    BY <2>2, MayBeSent DEF X
  <2> HIDE DEF m
  <2>4. <<m>> \in Seq(Wire[l])
    BY <2>3, AtMostOne
  <2> QED BY <2>4 DEF m, h
<1> HIDE DEF msgs
<1>6. Holds(chan', Wire)
  <2>1. CASE chan' = chan
    BY <2>1 DEF SyncInv
  <2>2. CASE chan' = [chan EXCEPT ![l] = Sent(l, msgs)]
    BY <1>5, <2>2, SendHolds DEF SyncInv
  <2> QED BY <1>1, <2>1, <2>2
<1> QED BY <1>1, <1>4, <1>6, WireSound

LEMMA SetUpSound ==
  ASSUME SyncInv, NEW l \in Link, SetUp(l)
  PROVE  SyncInv'
<1>1. CASE Connect(l)
  <2>1. /\ DOMAIN chan' = DOMAIN chan
        /\ \A k \in DOMAIN chan : chan'[k] = <<>> \/ chan'[k] = chan[k]
    BY <1>1 DEF Connect
  <2>2. \A k \in Link : <<>> \in Seq(Wire[k])
    OBVIOUS
  <2>3. Holds(chan', Wire)
    BY <2>1, <2>2 DEF SyncInv, Holds
  <2> QED BY <1>1, <2>3, WireSound DEF Connect, SyncInv
<1>2. CASE Greet(l)
  <2> DEFINE m == Message("Version", [magic |-> network_magic[l[1]], best_height |-> height[tip[l[1]]]])
  <2>1. /\ chan' = [chan EXCEPT ![l] = Sent(l, <<m>>)]
        /\ UNCHANGED <<known, tip, relay, batch>>
    BY <1>2 DEF Greet
  <2>2. l[1] \in Node /\ height[tip[l[1]]] \in Nat
    BY LinkEnds, SyncConstants DEF SyncInv, ChainsKnown
  <2>3. m \in Wire[l]
    BY <2>2, MayBeSent
  <2> HIDE DEF m
  <2>4. <<m>> \in Seq(Wire[l])
    BY <2>3, AtMostOne
  <2> DEFINE msgs == <<m>>
  <2>5. msgs \in Seq(Wire[l]) /\ chan' = [chan EXCEPT ![l] = Sent(l, msgs)]
    BY <2>1, <2>4
  <2> HIDE DEF msgs
  <2>6. Holds(chan', Wire)
    BY <2>5, SendHolds DEF SyncInv
  <2> QED BY <2>1, <2>6, WireSound DEF SyncInv
<1>3. CASE Subscribe(l)
  BY <1>3, WireSound DEF Subscribe, SyncInv, Holds
<1>4. CASE PeerGone(l)
  BY <1>4, BailSound DEF PeerGone
<1> QED BY <1>1, <1>2, <1>3, <1>4 DEF SetUp

LEMMA BreakSound ==
  ASSUME SyncInv, NEW l \in Link, Break(l)
  PROVE  SyncInv'
<1>1. /\ DOMAIN chan' = DOMAIN chan /\ \A k \in DOMAIN chan : chan'[k] = <<>> \/ chan'[k] = chan[k]
      /\ DOMAIN relay' = DOMAIN relay
      /\ \A k \in DOMAIN relay : relay'[k] = <<>> \/ relay'[k] = relay[k]
      /\ DOMAIN batch' = DOMAIN batch
      /\ \A k \in DOMAIN batch : batch'[k] = Idle \/ batch'[k] = batch[k]
      /\ UNCHANGED <<known, tip>>
  BY DEF Break
<1>2. \A k \in Link : <<>> \in Seq(Wire[k]) /\ <<>> \in Seq(Relayed[k])
  OBVIOUS
<1>3. Holds(chan', Wire) /\ Holds(relay', Relayed)
  BY <1>1, <1>2 DEF SyncInv, Holds
<1>4. DOMAIN batch' = Link /\ \A k \in Link : batch'[k] \in Batched[k]
  BY <1>1, BatchEnds DEF SyncInv
<1>5. Wire' = Wire /\ Relayed' = Relayed /\ Batched' = Batched /\ ChainsKnown'
  BY <1>1 DEF Wire, Relayed, Batched, Had, Pruned, SyncInv, ChainsKnown
<1> QED BY <1>3, <1>4, <1>5 DEF SyncInv, Holds

LEMMA NextSync == SyncInv /\ [Next]_vars => SyncInv'
<1> SUFFICES ASSUME SyncInv, [Next]_vars PROVE SyncInv'
  OBVIOUS
<1>1. ASSUME NEW l \in Link, SetUp(l) PROVE SyncInv'
  BY <1>1, SetUpSound
<1>2. ASSUME NEW l \in Link, Break(l) PROVE SyncInv'
  BY <1>2, BreakSound
<1>3. ASSUME NEW l \in Link, RelaySend(l) PROVE SyncInv'
  BY <1>3, RelaySendSound
<1>4. ASSUME NEW l \in Link, Receive(l) PROVE SyncInv'
  BY <1>4, RecvVersionSound, RecvVerackSound, RecvGetHeadersSound, RecvHeadersSound,
     RecvInvSound, RecvGetDataSound, RecvBlockSound DEF Receive
<1>5. ASSUME NEW l \in Link, HeaderStep(l) PROVE SyncInv'
  BY <1>5, HeaderStepSound
<1>6. ASSUME NEW n \in Node, NEW b \in Mined[n], Mine(n, b) PROVE SyncInv'
  <2>1. b \in Block
    BY <1>6, NodeSyncAssumption
  <2> QED BY <1>6, <2>1, MineSound
<1>7. ASSUME NEW n \in Node, NEW b \in Submitted[n], SubmitBlock(n, b) PROVE SyncInv'
  <2>1. b \in Block
    BY <1>7, NodeSyncAssumption
  <2> QED BY <1>7, <2>1, SubmitSound
<1>8. CASE UNCHANGED <<known, tip, chan, relay, batch>>
  BY <1>8, WireSound DEF SyncInv, Holds
<1>9. CASE MinutePasses
  BY <1>8, <1>9 DEF MinutePasses, conn
<1>10. CASE UNCHANGED vars
  BY <1>8, <1>10 DEF vars
<1> QED BY <1>1, <1>2, <1>3, <1>4, <1>5, <1>6, <1>7, <1>9, <1>10 DEF Next

(* A node is only ever asked for blocks it has, or side blocks FINALITY_DEPTH
   or more below its tip, in every network, through broken connections,
   overflowing relays, reorganisations, pruning, and batches that other tasks
   overtake (handle_peer, relay_tx, headers_after, prune_stale_orphans).    *)
THEOREM RequestsAreAnswerable == Spec => []RequestsAnswerable
<1>1. SyncInv => RequestsAnswerable
  <2> SUFFICES ASSUME SyncInv, NEW l \in Link, NEW k \in DOMAIN chan[l],
                      chan[l][k].kind = "GetData"
               PROVE  ToSet(chan[l][k].body) \subseteq Had(l[2])
    BY DEF RequestsAnswerable
  <2> DEFINE m == chan[l][k]
             own == Had(l[1])
             peer == Had(l[2])
  <2>1. chan[l] \in Seq(Messages(own, peer))
    BY DEF SyncInv, Holds, Wire
  <2>2. m \in Messages(own, peer)
    <3> DEFINE c == chan[l]
               M == Messages(own, peer)
    <3>1. c \in Seq(M) /\ k \in DOMAIN c
      BY <2>1
    <3> HIDE DEF c, M
    <3>2. c[k] \in M
      BY <3>1
    <3> QED BY <3>2 DEF c, M
  <2> HIDE DEF m, own, peer
  <2>3. m.kind = "GetData"
    BY DEF m
  <2>4. m.body \in Seq(peer)
    BY <2>2, <2>3 DEF Messages
  <2>5. ToSet(m.body) \subseteq peer
    BY <2>4, OfItsElements
  <2> QED BY <2>5 DEF m, peer
<1> QED BY InitSync, NextSync, <1>1, PTL DEF Spec

-----------------------------------------------------------------------------
(* The peer store: what every address list a task may hold keeps. *)
Fine(addrs) ==
  /\ addrs \subseteq Addr /\ IsFiniteSet(addrs)
  /\ \A a \in addrs : Cardinality(Bucket(addrs, a)) <= BUCKET_LIMIT

Places == {"sleep", "candidates", "deficit", "dial"}

PeerTypes ==
  /\ outbound \subseteq Listen /\ inbound \subseteq Ephemeral /\ anchors \subseteq Listen
  /\ up \subseteq Listen
  /\ booting \in Seq(Listen)
  /\ phase \in {"peers", "anchors", "running"}
  /\ maintenance \in [at : Places, holds : SUBSET Addr]
  /\ tasks \in [Listen -> Int]

(* Only one task dials at a time: start-up until it has no address left, then
   the maintenance task, which holds addresses that are not connected.      *)
OneDialler ==
  /\ phase = "running" => booting = <<>>
  /\ phase # "running" => maintenance = Asleep
  /\ maintenance.holds \cap outbound = {}

PeerInv == Fine(known_peers) /\ PeerTypes /\ OneDialler /\ OutboundExact

-----------------------------------------------------------------------------
(* A set grows by one at most. *)
LEMMA OneMore ==
  ASSUME NEW S, IsFiniteSet(S), NEW x
  PROVE  Cardinality(S) \in Nat /\ Cardinality(S \cup {x}) <= Cardinality(S) + 1
<1>1. Cardinality(S) \in Nat
  BY FS_CardinalityType
<1>2. CASE x \in S
  <2>1. S \cup {x} = S
    BY <1>2
  <2>2. Cardinality(S \cup {x}) = Cardinality(S)
    BY <2>1
  <2> QED BY <1>1, <2>2
<1>3. CASE x \notin S
  <2>1. Cardinality(S \cup {x}) = Cardinality(S) + 1
    BY <1>3, FS_AddElement
  <2> QED BY <1>1, <2>1
<1> QED BY <1>2, <1>3

(* add_known keeps a list fine. *)
LEMMA AddKnownFine ==
  ASSUME NEW addrs, Fine(addrs), NEW a \in Addr
  PROVE  Fine(add_known(addrs, a))
<1>1. CASE Cardinality(Bucket(addrs, a)) >= BUCKET_LIMIT
  BY <1>1 DEF add_known
<1>2. CASE ~ (Cardinality(Bucket(addrs, a)) >= BUCKET_LIMIT)
  <2> DEFINE more == addrs \cup {a}
  <2>1. add_known(addrs, a) = more
    BY <1>2 DEF add_known
  <2>2. IsFiniteSet(addrs) /\ IsFiniteSet(more) /\ more \subseteq Addr
    BY FS_AddElement DEF Fine
  <2>3. BUCKET_LIMIT \in Nat
    BY PeerManagerAssumption
  <2>4. ASSUME NEW b \in more PROVE Cardinality(Bucket(more, b)) <= BUCKET_LIMIT
    <3>1. CASE Subnet[b] = Subnet[a]
      <4>1. Bucket(addrs, a) \subseteq addrs /\ IsFiniteSet(Bucket(addrs, a))
        BY <2>2, FS_Subset DEF Bucket
      <4>2. Bucket(more, b) = Bucket(addrs, a) \cup {a}
        BY <3>1 DEF Bucket
      <4> DEFINE was == Bucket(addrs, a)
      <4> HIDE DEF was
      <4>3. Cardinality(was) \in Nat /\ Cardinality(was \cup {a}) <= Cardinality(was) + 1
        BY <4>1, OneMore DEF was
      <4>4. Cardinality(was \cup {a}) \in Nat
        BY <4>1, FS_AddElement, FS_CardinalityType DEF was
      <4>5. ~ (Cardinality(was) >= BUCKET_LIMIT)
        BY <1>2 DEF was
      <4>6. Cardinality(was \cup {a}) <= BUCKET_LIMIT
        BY <2>3, <4>3, <4>4, <4>5
      <4> QED BY <4>2, <4>6 DEF was
    <3>2. CASE Subnet[b] # Subnet[a]
      <4>1. b \in addrs /\ Bucket(more, b) = Bucket(addrs, b)
        BY <3>2 DEF Bucket
      <4> QED BY <4>1 DEF Fine
    <3> QED BY <3>1, <3>2
  <2> QED BY <2>1, <2>2, <2>4 DEF Fine
<1> QED BY <1>1, <1>2

(* So does an Addr message, address by address. *)
AddrSteps(before, addrs, f) ==
  /\ add_addrs(before, addrs) = f[Len(addrs)] /\ f[0] = before
  /\ \A i \in 1..Len(addrs) :
       f[i] = IF Cardinality(f[i - 1]) >= MAX_KNOWN_PEERS THEN f[i - 1]
              ELSE add_known(f[i - 1], addrs[i])

LEMMA AddrTable ==
  ASSUME NEW before, NEW X, NEW addrs \in Seq(X)
  PROVE  \E f : AddrSteps(before, addrs, f)
<1> DEFINE n == Len(addrs)
           After(k, i) == IF Cardinality(k) >= MAX_KNOWN_PEERS THEN k ELSE add_known(k, addrs[i])
           Table(f, m) == f = [i \in 0..m |->
             IF i = 0 THEN before
             ELSE IF Cardinality(f[i - 1]) >= MAX_KNOWN_PEERS THEN f[i - 1]
             ELSE add_known(f[i - 1], addrs[i])]
           Good == {m \in 0..n : \E f : Table(f, m)}
<1>0. n \in Nat
  OBVIOUS
<1>1. 0 \in Good
  <2>1. Table([i \in 0..0 |-> before], 0)
    OBVIOUS
  <2>2. \E f : Table(f, 0)
    BY <2>1
  <2> QED BY <1>0, <2>2
<1>2. ASSUME NEW m \in 0 .. n - 1, m \in Good PROVE m + 1 \in Good
  <2>1. PICK f : Table(f, m)
    BY <1>2
  <2>2. \A i \in 0..m : f[i] = IF i = 0 THEN before ELSE After(f[i - 1], i)
    BY <2>1
  <2> HIDE DEF Table
  <2> DEFINE g == [i \in 0 .. m + 1 |-> IF i = m + 1 THEN After(f[m], i) ELSE f[i]]
  <2>3. ASSUME NEW i \in 0 .. m + 1
        PROVE  g[i] = IF i = 0 THEN before ELSE After(g[i - 1], i)
    <3> HIDE DEF After
    <3>1. CASE i = m + 1
      <4>1. i # 0 /\ i - 1 = m /\ m \in 0 .. m + 1 /\ m # m + 1
        BY <1>0, <3>1
      <4>2. g[m] = f[m]
        BY <4>1
      <4> QED BY <3>1, <4>1, <4>2
    <3>2. CASE i # m + 1
      <4>1. i \in 0..m /\ (i # 0 => i - 1 \in 0 .. m + 1 /\ i - 1 # m + 1)
        BY <1>0, <3>2
      <4>2. g[i] = f[i] /\ (i # 0 => g[i - 1] = f[i - 1])
        BY <3>2, <4>1
      <4> QED BY <2>2, <4>1, <4>2
    <3> QED BY <3>1, <3>2
  <2>4. g = [i \in 0 .. m + 1 |-> g[i]]
    OBVIOUS
  <2> HIDE DEF g
  <2>5. Table(g, m + 1)
    BY <2>3, <2>4 DEF Table
  <2>6. m + 1 \in 0..n /\ \E h : Table(h, m + 1)
    BY <1>0, <2>5
  <2> QED BY <2>6
<1> HIDE DEF Good
<1>3. \A m \in 0..n : m \in Good
  BY <1>0, <1>1, <1>2, RangeInduction
<1>4. \E f : Table(f, n)
  <2>1. n \in Good
    BY <1>0, <1>3
  <2> HIDE DEF Table, n
  <2> QED BY <2>1 DEF Good
<1> DEFINE upto == CHOOSE f : Table(f, n)
<1>5. Table(upto, n)
  BY <1>4
<1>6. add_addrs(before, addrs) = upto[n]
  BY DEF add_addrs
<1>7. \A i \in 0..n : upto[i] = IF i = 0 THEN before ELSE After(upto[i - 1], i)
  BY <1>5
<1> HIDE DEF upto
<1>8. upto[0] = before
  BY <1>0, <1>7
<1>9. ASSUME NEW i \in 1..n
      PROVE  upto[i] = After(upto[i - 1], i)
  <2>1. i \in 0..n /\ i # 0
    BY <1>0
  <2> QED BY <1>7, <2>1
<1>10. AddrSteps(before, addrs, upto)
  BY <1>6, <1>8, <1>9 DEF AddrSteps
<1> QED BY <1>10

LEMMA AddAddrsFine ==
  ASSUME NEW before, Fine(before), NEW addrs \in Seq(Addr)
  PROVE  Fine(add_addrs(before, addrs))
<1> DEFINE n == Len(addrs)
<1>0. n \in Nat /\ \A i \in 1..n : addrs[i] \in Addr
  OBVIOUS
<1>1. PICK f : AddrSteps(before, addrs, f)
  BY AddrTable
<1> DEFINE Good == {i \in 0..n : Fine(f[i])}
<1>2. 0 \in Good
  BY <1>0, <1>1 DEF AddrSteps
<1>3. ASSUME NEW m \in 0 .. n - 1, m \in Good PROVE m + 1 \in Good
  <2>1. m + 1 \in 1..n /\ (m + 1) - 1 = m /\ m + 1 \in 0..n /\ Fine(f[m])
    BY <1>0, <1>3
  <2>2. f[m + 1] = IF Cardinality(f[m]) >= MAX_KNOWN_PEERS THEN f[m]
                   ELSE add_known(f[m], addrs[m + 1])
    BY <1>1, <2>1 DEF AddrSteps
  <2>3. Fine(add_known(f[m], addrs[m + 1]))
    BY <1>0, <2>1, AddKnownFine
  <2>4. Fine(f[m + 1])
    BY <2>1, <2>2, <2>3
  <2> QED BY <2>1, <2>4
<1> HIDE DEF Good
<1>4. \A m \in 0..n : m \in Good
  BY <1>0, <1>2, <1>3, RangeInduction
<1>5. n \in Good
  BY <1>0, <1>4
<1> QED BY <1>1, <1>5 DEF Good, AddrSteps
-----------------------------------------------------------------------------
LEMMA AllPeersType == all_peers \in Seq(Listen)
<1> DEFINE s == cli_peers \o bootstrap_peers
           S == {i \in 1..Len(s) : i = 1 \/ s[i] # s[i - 1]}
           id == [i \in 1..Len(s) |-> i]
           places == Kept(id, S)
<1>1. s \in Seq(Listen) /\ Len(s) \in Nat
  BY PeerManagerAssumption
<1>2. id \in Seq(1..Len(s))
  BY <1>1
<1>3. places \in Seq(1..Len(s))
  <2> HIDE DEF id, S
  <2> QED BY <1>2, KeptType
<1>4. all_peers = [k \in 1..Len(places) |-> s[places[k]]]
  BY DEF all_peers, dedup
<1> HIDE DEF places, s
<1>5. \A k \in 1..Len(places) : places[k] \in 1..Len(s)
  BY <1>3
<1>6. \A k \in 1..Len(places) : s[places[k]] \in Listen
  BY <1>1, <1>5
<1>7. Len(places) \in Nat
  BY <1>3
<1> QED BY <1>4, <1>6, <1>7

LEMMA InitPeers == PeerInit => PeerInv
<1> SUFFICES ASSUME PeerInit PROVE PeerInv
  OBVIOUS
<1>1. Fine(known_peers)
  BY FS_EmptySet DEF PeerInit, Fine
<1>2. PeerTypes
  BY AllPeersType DEF PeerInit, PeerTypes, Asleep, Places
<1>3. OneDialler /\ OutboundExact
  BY DEF PeerInit, OneDialler, OutboundExact, Asleep
<1> QED BY <1>1, <1>2, <1>3 DEF PeerInv

(* Fewer addresses are fine too. *)
LEMMA FewerFine ==
  ASSUME NEW addrs, Fine(addrs), NEW fewer \in SUBSET addrs
  PROVE  Fine(fewer)
<1>1. IsFiniteSet(addrs) /\ IsFiniteSet(fewer) /\ fewer \subseteq Addr
  BY FS_Subset DEF Fine
<1>2. BUCKET_LIMIT \in Nat
  BY PeerManagerAssumption
<1>3. ASSUME NEW a \in fewer PROVE Cardinality(Bucket(fewer, a)) <= BUCKET_LIMIT
  <2> DEFINE now_in == Bucket(fewer, a)
             was_in == Bucket(addrs, a)
  <2>1. now_in \subseteq was_in /\ was_in \subseteq addrs
    BY DEF Bucket
  <2>2. Cardinality(was_in) <= BUCKET_LIMIT
    BY DEF Fine
  <2> HIDE DEF now_in, was_in
  <2>3. IsFiniteSet(was_in)
    BY <1>1, <2>1, FS_Subset
  <2>4. IsFiniteSet(now_in) /\ Cardinality(now_in) <= Cardinality(was_in)
    BY <2>1, <2>3, FS_Subset
  <2>5. Cardinality(was_in) \in Nat /\ Cardinality(now_in) \in Nat
    BY <2>3, <2>4, FS_CardinalityType
  <2>6. Cardinality(now_in) <= BUCKET_LIMIT
    BY <1>2, <2>2, <2>4, <2>5
  <2> QED BY <2>6 DEF now_in
<1> QED BY <1>1, <1>3 DEF Fine

LEMMA BootDialKeeps == ASSUME PeerInv, BootDial PROVE PeerInv'
<1> DEFINE h == Head(booting)
<1>1. h \in Listen /\ Tail(booting) \in Seq(Listen) /\ h \in Addr
  BY DEF PeerInv, PeerTypes, BootDial, Addr
<1>2. phase # "running" /\ maintenance = Asleep
  BY DEF PeerInv, OneDialler, BootDial
<1>3. Fine(known_peers')
  <2>1. Fine(known_peers)
    BY DEF PeerInv
  <2>2. Fine(add_known(known_peers, h))
    BY <1>1, <2>1, AddKnownFine
  <2>3. known_peers' = known_peers \/ known_peers' = add_known(known_peers, h)
    BY DEF BootDial
  <2> QED BY <2>1, <2>2, <2>3
<1>4. PeerTypes'
  BY <1>1 DEF PeerInv, PeerTypes, BootDial
<1>5. OneDialler'
  BY <1>2 DEF OneDialler, BootDial, Asleep
<1>6. OutboundExact'
  <2> SUFFICES ASSUME NEW a \in Listen, a \notin redialled'
               PROVE  tasks'[a] = IF a \in outbound' THEN 1 ELSE 0
    BY DEF OutboundExact
  <2>1. tasks \in [Listen -> Int]
    BY DEF PeerInv, PeerTypes
  <2>2. CASE h \in up
    <3>1. /\ outbound' = outbound \cup {h} /\ tasks' = [tasks EXCEPT ![h] = @ + 1]
          /\ redialled' = redialled \cup (outbound \cap {h})
      BY <2>2 DEF BootDial
    <3>2. tasks[a] = IF a \in outbound THEN 1 ELSE 0
      BY <3>1 DEF PeerInv, OutboundExact
    <3> QED BY <1>1, <2>1, <3>1, <3>2
  <2>3. CASE h \notin up
    BY <2>3 DEF BootDial, PeerInv, OutboundExact
  <2> QED BY <2>2, <2>3
<1> QED BY <1>3, <1>4, <1>5, <1>6 DEF PeerInv

(* A list of the addresses of a set is a list of addresses. *)
LEMMA SetToSeqsType ==
  ASSUME NEW S \in SUBSET Listen, NEW addrs \in SetToSeqs(S)
  PROVE  addrs \in Seq(Listen) /\ addrs \in Seq(Addr)
<1>1. addrs \in [1..Cardinality(S) -> S]
  BY DEF SetToSeqs
<1>2. Cardinality(S) \in Nat
  BY PeerManagerAssumption, FS_Subset, FS_CardinalityType
<1>3. addrs \in Seq(S)
  BY <1>1, <1>2
<1> QED BY <1>3 DEF Addr

LEMMA LoadAnchorsKeeps == ASSUME PeerInv, LoadAnchors PROVE PeerInv'
<1>1. booting' \in Seq(Listen)
  <2>1. anchors \in SUBSET Listen /\ booting' \in SetToSeqs(anchors)
    BY DEF PeerInv, PeerTypes, LoadAnchors
  <2> QED BY <2>1, SetToSeqsType
<1>2. /\ known_peers' = known_peers /\ tasks' = tasks /\ outbound' = outbound
      /\ redialled' = redialled /\ maintenance' = maintenance
      /\ inbound' = inbound /\ anchors' = anchors /\ up' = up /\ phase' = "anchors"
      /\ phase = "peers"
  BY DEF LoadAnchors, store
<1>3. Fine(known_peers')
  BY <1>2 DEF PeerInv
<1>4. PeerTypes'
  BY <1>1, <1>2 DEF PeerInv, PeerTypes
<1>5. OneDialler' /\ OutboundExact'
  BY <1>2 DEF PeerInv, OneDialler, OutboundExact
<1> QED BY <1>3, <1>4, <1>5 DEF PeerInv

LEMMA StartTasksKeeps == ASSUME PeerInv, StartTasks PROVE PeerInv'
<1>1. /\ known_peers' = known_peers /\ tasks' = tasks /\ outbound' = outbound
      /\ redialled' = redialled /\ maintenance' = maintenance /\ booting' = booting
      /\ inbound' = inbound /\ anchors' = anchors /\ up' = up /\ phase' = "running"
      /\ phase = "anchors" /\ booting = <<>>
  BY DEF StartTasks, store
<1>2. Fine(known_peers')
  BY <1>1 DEF PeerInv
<1>3. PeerTypes'
  BY <1>1 DEF PeerInv, PeerTypes
<1>4. OneDialler' /\ OutboundExact'
  BY <1>1 DEF PeerInv, OneDialler, OutboundExact
<1> QED BY <1>2, <1>3, <1>4 DEF PeerInv

(* What start-up, the dials and their counts are, apart from the addresses known. *)
dialling == <<outbound, anchors, booting, phase, maintenance, tasks, redialled, up>>

LEMMA KnownChanges ==
  ASSUME PeerInv, Fine(known_peers'), inbound' \subseteq Ephemeral, UNCHANGED dialling
  PROVE  PeerInv'
<1>1. /\ outbound' = outbound /\ anchors' = anchors /\ booting' = booting /\ phase' = phase
      /\ maintenance' = maintenance /\ tasks' = tasks /\ redialled' = redialled /\ up' = up
  BY DEF dialling
<1>2. PeerTypes'
  BY <1>1 DEF PeerInv, PeerTypes
<1>3. OneDialler' /\ OutboundExact'
  BY <1>1 DEF PeerInv, OneDialler, OutboundExact
<1> QED BY <1>2, <1>3 DEF PeerInv

LEMMA FeelerKeeps == ASSUME PeerInv, FeelerPick \/ FeelerDial PROVE PeerInv'
<1>1. UNCHANGED dialling /\ inbound' = inbound /\ known_peers' \in SUBSET known_peers
  BY DEF FeelerPick, FeelerDial, dialling, store
<1>2. Fine(known_peers) /\ inbound \subseteq Ephemeral
  BY DEF PeerInv, PeerTypes
<1>3. Fine(known_peers')
  BY <1>1, <1>2, FewerFine
<1> QED BY <1>1, <1>2, <1>3, KnownChanges

LEMMA AcceptKeeps == ASSUME PeerInv, NEW a \in Ephemeral, Accept(a) PROVE PeerInv'
<1>1. UNCHANGED dialling /\ inbound' = inbound \cup {a}
      /\ known_peers' = add_known(known_peers, a)
  BY DEF Accept, dialling
<1>2. Fine(known_peers) /\ inbound \subseteq Ephemeral /\ a \in Addr
  BY DEF PeerInv, PeerTypes, Addr
<1>3. Fine(known_peers')
  BY <1>1, <1>2, AddKnownFine
<1>4. inbound' \subseteq Ephemeral
  BY <1>1, <1>2
<1> QED BY <1>1, <1>3, <1>4, KnownChanges

LEMMA AddrMessageKeeps ==
  ASSUME PeerInv, NEW S \in SUBSET Listen, NEW addrs \in SetToSeqs(S), AddrMessage(addrs)
  PROVE  PeerInv'
<1>1. UNCHANGED dialling /\ inbound' = inbound /\ known_peers' = add_addrs(known_peers, addrs)
  BY DEF AddrMessage, dialling
<1>2. Fine(known_peers) /\ inbound \subseteq Ephemeral /\ addrs \in Seq(Addr)
  BY SetToSeqsType DEF PeerInv, PeerTypes
<1>3. Fine(known_peers')
  BY <1>1, <1>2, AddAddrsFine
<1> QED BY <1>1, <1>2, <1>3, KnownChanges

-----------------------------------------------------------------------------
(* A step of the maintenance task that dials nobody. *)
LEMMA MaintenanceMoves ==
  ASSUME PeerInv, UNCHANGED <<store, booting, phase, tasks, redialled, up>>,
         anchors' \subseteq Listen, phase = "running",
         maintenance' \in [at : Places, holds : SUBSET Addr],
         maintenance'.holds \cap outbound = {}
  PROVE  PeerInv'
<1>1. /\ known_peers' = known_peers /\ outbound' = outbound /\ inbound' = inbound
      /\ booting' = booting /\ phase' = phase /\ tasks' = tasks
      /\ redialled' = redialled /\ up' = up
  BY DEF store
<1>2. Fine(known_peers')
  BY <1>1 DEF PeerInv
<1>3. PeerTypes'
  BY <1>1 DEF PeerInv, PeerTypes
<1>4. OneDialler' /\ OutboundExact'
  BY <1>1 DEF PeerInv, OneDialler, OutboundExact
<1> QED BY <1>2, <1>3, <1>4 DEF PeerInv

LEMMA SavedAnchors ==
  ASSUME NEW o \in SUBSET Listen, SaveAnchors(o)
  PROVE  anchors' \subseteq Listen
  BY DEF SaveAnchors, kSubset

LEMMA AwakeIsRunning ==
  ASSUME PeerInv, maintenance.at # "sleep"
  PROVE  phase = "running"
  BY DEF PeerInv, OneDialler, Asleep

LEMMA MaintCheckKeeps == ASSUME PeerInv, MaintCheck PROVE PeerInv'
<1>1. outbound \in SUBSET Listen /\ SaveAnchors(outbound)
  BY DEF PeerInv, PeerTypes, MaintCheck
<1>2. anchors' \subseteq Listen
  BY <1>1, SavedAnchors
<1>3. maintenance' = [at |-> "candidates", holds |-> {}] \/ maintenance' = Asleep
  BY DEF MaintCheck
<1>4. maintenance' \in [at : Places, holds : SUBSET Addr] /\ maintenance'.holds \cap outbound = {}
  BY <1>3 DEF Asleep, Places
<1>5. UNCHANGED <<store, booting, phase, tasks, redialled, up>> /\ phase = "running"
  BY DEF MaintCheck
<1> QED BY <1>2, <1>4, <1>5, MaintenanceMoves

LEMMA MaintCandidatesKeeps == ASSUME PeerInv, MaintCandidates PROVE PeerInv'
<1>1. maintenance.at = "candidates"
  BY DEF MaintCandidates
<1>2. phase = "running"
  BY <1>1, AwakeIsRunning
<1>3. Unconnected \subseteq Addr /\ Unconnected \cap outbound = {}
  BY DEF PeerInv, Fine, Unconnected
<1>4. maintenance' = Asleep \/ maintenance' = [at |-> "deficit", holds |-> Unconnected]
  BY DEF MaintCandidates
<1>5. maintenance' \in [at : Places, holds : SUBSET Addr] /\ maintenance'.holds \cap outbound = {}
  BY <1>3, <1>4 DEF Asleep, Places
<1>6. UNCHANGED <<store, booting, phase, tasks, redialled, up>> /\ anchors' = anchors
  BY DEF MaintCandidates
<1>7. anchors' \subseteq Listen
  BY <1>6 DEF PeerInv, PeerTypes
<1> QED BY <1>2, <1>5, <1>6, <1>7, MaintenanceMoves

LEMMA MaintDeficitKeeps == ASSUME PeerInv, MaintDeficit PROVE PeerInv'
<1>1. maintenance.at = "deficit"
  BY DEF MaintDeficit
<1>2. phase = "running"
  BY <1>1, AwakeIsRunning
<1>3. PICK S \in SUBSET maintenance.holds :
        maintenance' = IF S = {} THEN Asleep ELSE [at |-> "dial", holds |-> S]
  BY DEF MaintDeficit, kSubset
<1>4. maintenance.holds \in SUBSET Addr /\ maintenance.holds \cap outbound = {}
  BY DEF PeerInv, PeerTypes, OneDialler
<1>5. maintenance' \in [at : Places, holds : SUBSET Addr] /\ maintenance'.holds \cap outbound = {}
  BY <1>3, <1>4 DEF Asleep, Places
<1>6. UNCHANGED <<store, booting, phase, tasks, redialled, up>> /\ anchors' = anchors
  BY DEF MaintDeficit
<1>7. anchors' \subseteq Listen
  BY <1>6 DEF PeerInv, PeerTypes
<1> QED BY <1>2, <1>5, <1>6, <1>7, MaintenanceMoves

LEMMA MaintDialKeeps == ASSUME PeerInv, NEW a \in Addr, MaintDial(a) PROVE PeerInv'
<1>1. maintenance.at = "dial" /\ a \in maintenance.holds
  BY DEF MaintDial
<1>2. phase = "running"
  BY <1>1, AwakeIsRunning
<1>3. /\ known_peers' = known_peers /\ inbound' = inbound /\ anchors' = anchors
      /\ booting' = booting /\ phase' = phase /\ redialled' = redialled /\ up' = up
  BY DEF MaintDial
<1>4. maintenance \in [at : Places, holds : SUBSET Addr] /\ maintenance.holds \cap outbound = {}
  BY DEF PeerInv, PeerTypes, OneDialler
<1>5. /\ maintenance' \in [at : Places, holds : SUBSET Addr]
      /\ maintenance'.holds \subseteq maintenance.holds \ {a}
  <2>1. CASE maintenance.holds = {a}
    <3>1. maintenance' = Asleep
      BY <2>1 DEF MaintDial
    <3> QED BY <3>1 DEF Asleep, Places
  <2>2. CASE maintenance.holds # {a}
    <3>1. maintenance' = [maintenance EXCEPT !.holds = @ \ {a}]
      BY <2>2 DEF MaintDial
    <3> QED BY <1>4, <3>1
  <2> QED BY <2>1, <2>2
<1>6. tasks \in [Listen -> Int] /\ outbound \subseteq Listen /\ up \subseteq Listen
  BY DEF PeerInv, PeerTypes
<1>7. /\ a \in up => outbound' = outbound \cup {a} /\ tasks' = [tasks EXCEPT ![a] = @ + 1]
      /\ a \notin up => outbound' = outbound /\ tasks' = tasks
  BY DEF MaintDial
<1>8. Fine(known_peers')
  BY <1>3 DEF PeerInv
<1>9. PeerTypes'
  <2>1. outbound' \subseteq Listen /\ tasks' \in [Listen -> Int]
    BY <1>6, <1>7
  <2> QED BY <1>3, <1>5, <2>1 DEF PeerInv, PeerTypes
<1>10. OneDialler'
  <2>1. maintenance'.holds \cap outbound' = {}
    BY <1>4, <1>5, <1>7
  <2> QED BY <1>2, <1>3, <2>1 DEF PeerInv, OneDialler
<1>11. OutboundExact'
  <2> SUFFICES ASSUME NEW b \in Listen, b \notin redialled
               PROVE  tasks'[b] = IF b \in outbound' THEN 1 ELSE 0
    BY <1>3 DEF OutboundExact
  <2>1. tasks[b] = IF b \in outbound THEN 1 ELSE 0
    BY DEF PeerInv, OutboundExact
  <2>2. a \notin outbound
    BY <1>1, <1>4
  <2> QED BY <1>6, <1>7, <2>1, <2>2
<1> QED BY <1>8, <1>9, <1>10, <1>11 DEF PeerInv

-----------------------------------------------------------------------------
LEMMA OutboundEndsKeeps == ASSUME PeerInv, NEW a \in Listen, OutboundEnds(a) PROVE PeerInv'
<1>1. /\ known_peers' = known_peers /\ inbound' = inbound
      /\ booting' = booting /\ phase' = phase /\ redialled' = redialled /\ up' = up
      /\ maintenance' = maintenance
      /\ tasks[a] > 0 /\ tasks' = [tasks EXCEPT ![a] = @ - 1] /\ outbound' = outbound \ {a}
  BY DEF OutboundEnds
<1>2. tasks \in [Listen -> Int] /\ outbound \subseteq Listen
  BY DEF PeerInv, PeerTypes
<1>3. anchors' \subseteq Listen
  <2>1. SaveAnchors(outbound') /\ outbound' \in SUBSET Listen
    BY <1>1, <1>2 DEF OutboundEnds
  <2> QED BY <2>1 DEF SaveAnchors, kSubset
<1>4. Fine(known_peers')
  BY <1>1 DEF PeerInv
<1>5. PeerTypes'
  BY <1>1, <1>2, <1>3 DEF PeerInv, PeerTypes
<1>6. OneDialler'
  BY <1>1 DEF PeerInv, OneDialler
<1>7. OutboundExact'
  <2> SUFFICES ASSUME NEW b \in Listen, b \notin redialled
               PROVE  tasks'[b] = IF b \in outbound' THEN 1 ELSE 0
    BY <1>1 DEF OutboundExact
  <2>1. tasks[b] = IF b \in outbound THEN 1 ELSE 0
    BY DEF PeerInv, OutboundExact
  <2> QED BY <1>1, <1>2, <2>1
<1> QED BY <1>4, <1>5, <1>6, <1>7 DEF PeerInv

LEMMA InboundEndsKeeps == ASSUME PeerInv, NEW a \in Ephemeral, InboundEnds(a) PROVE PeerInv'
<1>1. /\ known_peers' = known_peers /\ inbound' = inbound \ {a} /\ outbound' = outbound
      /\ booting' = booting /\ phase' = phase /\ redialled' = redialled /\ up' = up
      /\ maintenance' = maintenance /\ tasks' = tasks
  BY DEF InboundEnds
<1>2. anchors' \subseteq Listen
  <2>1. SaveAnchors(outbound) /\ outbound \in SUBSET Listen
    BY DEF InboundEnds, PeerInv, PeerTypes
  <2> QED BY <2>1, SavedAnchors
<1>3. Fine(known_peers')
  BY <1>1 DEF PeerInv
<1>4. PeerTypes'
  BY <1>1, <1>2 DEF PeerInv, PeerTypes
<1>5. OneDialler' /\ OutboundExact'
  BY <1>1 DEF PeerInv, OneDialler, OutboundExact
<1> QED BY <1>3, <1>4, <1>5 DEF PeerInv

LEMMA RestartKeeps == ASSUME PeerInv, Restart PROVE PeerInv'
<1>1. Fine(known_peers')
  BY FS_EmptySet DEF Restart, Fine
<1>2. PeerTypes'
  BY AllPeersType DEF Restart, PeerInv, PeerTypes, Asleep, Places
<1>3. OneDialler' /\ OutboundExact'
  BY DEF Restart, OneDialler, OutboundExact, Asleep
<1> QED BY <1>1, <1>2, <1>3 DEF PeerInv

LEMMA OutageKeeps == ASSUME PeerInv, NEW a \in Listen, Outage(a) PROVE PeerInv'
<1>1. /\ known_peers' = known_peers /\ inbound' = inbound /\ outbound' = outbound
      /\ booting' = booting /\ phase' = phase /\ redialled' = redialled
      /\ maintenance' = maintenance /\ tasks' = tasks /\ anchors' = anchors
      /\ up' \subseteq up \cup {a}
  BY DEF Outage, store
<1>2. Fine(known_peers')
  BY <1>1 DEF PeerInv
<1>3. PeerTypes'
  BY <1>1 DEF PeerInv, PeerTypes
<1>4. OneDialler' /\ OutboundExact'
  BY <1>1 DEF PeerInv, OneDialler, OutboundExact
<1> QED BY <1>2, <1>3, <1>4 DEF PeerInv

LEMMA NextPeers == PeerInv /\ [PeerNext]_peerVars => PeerInv'
<1> SUFFICES ASSUME PeerInv, [PeerNext]_peerVars PROVE PeerInv'
  OBVIOUS
<1>1. CASE BootDial \/ LoadAnchors \/ StartTasks
  BY <1>1, BootDialKeeps, LoadAnchorsKeeps, StartTasksKeeps
<1>2. CASE FeelerPick \/ FeelerDial
  BY <1>2, FeelerKeeps
<1>3. CASE Maintenance
  BY <1>3, MaintCheckKeeps, MaintCandidatesKeeps, MaintDeficitKeeps, MaintDialKeeps DEF Maintenance
<1>4. CASE \E a \in Ephemeral : Accept(a) \/ InboundEnds(a)
  BY <1>4, AcceptKeeps, InboundEndsKeeps
<1>5. CASE \E a \in Listen : OutboundEnds(a) \/ Outage(a)
  BY <1>5, OutboundEndsKeeps, OutageKeeps
<1>6. CASE \E S \in SUBSET Listen : \E addrs \in SetToSeqs(S) : AddrMessage(addrs)
  BY <1>6, AddrMessageKeeps
<1>7. CASE Restart
  BY <1>7, RestartKeeps
<1>8. CASE UNCHANGED peerVars
  <2>1. UNCHANGED dialling /\ inbound' = inbound /\ known_peers' = known_peers
    BY <1>8 DEF peerVars, dialling, store
  <2>2. Fine(known_peers') /\ inbound' \subseteq Ephemeral
    BY <2>1 DEF PeerInv, PeerTypes
  <2> QED BY <2>1, <2>2, KnownChanges
<1> QED BY <1>1, <1>2, <1>3, <1>4, <1>5, <1>6, <1>7, <1>8 DEF PeerNext

(* For every set of addresses and subnets, every list of peers to start with,
   every limit, and any number of disconnects, restarts and outages: no subnet
   holds more than BUCKET_LIMIT addresses, and the addresses counted as
   outbound are those with one live connection dialled to them.             *)
THEOREM PeersAreExact == PeerSpec => []PeersExact
<1>1. PeerInv => PeersExact
  BY DEF PeerInv, Fine, PeersExact, BucketsBounded
<1> QED BY InitPeers, NextPeers, <1>1, PTL DEF PeerSpec

-----------------------------------------------------------------------------
(* The counts of a side: the handshake messages it has to send, those it wrote
   before it came to a place of the script, and those it read by then.      *)
Hellos(s) == IF s = "I" THEN 3 ELSE 2

Written(s, n) == IF s = "I" THEN (IF n = 1 THEN 0 ELSE IF n <= 3 THEN 1 ELSE IF n = 4 THEN 2 ELSE 3)
                 ELSE (IF n <= 2 THEN 0 ELSE IF n <= 5 THEN 1 ELSE 2)

HellosRead(s, n) == IF s = "I" THEN (IF n <= 2 THEN 0 ELSE IF n <= 5 THEN 1 ELSE 2)
               ELSE (IF n = 1 THEN 0 ELSE IF n <= 3 THEN 1 ELSE IF n = 4 THEN 2 ELSE 3)

(* Handshake messages and frames that a side began to write; frames it has read,
   and halves of frames.                                                    *)
HellosBegun(s) == Written(s, stage[s]) + (IF stage[s] < Open /\ out[s] # <<>> THEN 1 ELSE 0)

Begun(s) == HellosBegun(s) + pq[s].send

HalvesRead(s) == 2 * (HellosRead(s, stage[s]) + pq[s].recv) + (IF reading[s] = "body" THEN 1 ELSE 0)

Hello(s, k) == IF k = 1 THEN "write e"
               ELSE IF s = "R" THEN "write ct" ELSE IF k = 2 THEN "write s" ELSE "write ek"

(* The first n of some messages need a frame each. *)
Whole(msgs, n) == \A i \in DOMAIN msgs : i <= n => msgs[i] <= CHUNK

(* What the n-th frame after the handshake holds.  Sizes are known as long as
   every message before took one frame.                                     *)
DataFrame(msgs, n, held) ==
  /\ held.counter = n - 1 /\ held.key = "shared"
  /\ Whole(msgs, n - 1) => /\ n <= Len(msgs)
                           /\ held.size = msgs[n] /\ held.chunk = Chunk(msgs[n])

(* The body of the k-th frame that s writes when it has msgs to send. *)
Body(s, msgs, k, half) ==
  /\ k <= Hellos(s) => half.nonce = 0 /\ half.holds = Hello(s, k)
  /\ k > Hellos(s) => half.nonce = k - Hellos(s) /\ DataFrame(msgs, k - Hellos(s), half.holds)

(* The j-th half of a frame that s writes, and those from the j-th on. *)
Half(s, msgs, j, half) ==
  /\ \A k \in Nat : j = 2 * k - 1 => half.part = "len"
  /\ \A k \in Nat : j = 2 * k => Body(s, msgs, k, half)

Halves(s, msgs, j, halves) == \A i \in 1..Len(halves) : Half(s, msgs, j + i, halves[i])

Content == Writes \cup [counter : Nat, key : {"none", "shared"}, size : Nat, chunk : Nat]

Piece == [part : {"len"}] \cup [part : {"body"}, nonce : Nat, holds : Content]

Counters == [send : Nat, recv : Nat]

Verdicts == {"none", "closed", "size", "parse", "framing", "noise", "pq"}

TransportTypes ==
  /\ payloads \in [Side -> Seq(Nat)]
  /\ stage \in [Side -> 1..Open]
  /\ out \in [Side -> Seq(Piece)] /\ wire \in [Side -> Seq(Piece)]
  /\ reading \in [Side -> {"len", "body"}]
  /\ noise \in [Side -> Counters] /\ pq \in [Side -> Counters]
  /\ pq_key \in [Side -> {"none", "shared"}]
  /\ todo \in [Side -> Seq(Nat)] /\ got \in [Side -> Seq(Nat)]
  /\ error \in [Side -> Verdicts]

(* A side's own counters agree with its place in the script. *)
Placed(s) ==
  /\ Len(out[s]) <= 2
  /\ stage[s] < Open => /\ pq[s].send = 0 /\ pq[s].recv = 0
                        /\ out[s] # <<>> => Step(s) \in Writes
  /\ noise[s].send = (IF HellosBegun(s) = Hellos(s) THEN 1 ELSE 0) + pq[s].send
  /\ noise[s].recv = (IF HellosRead(s, stage[s]) = Hellos(Other(s)) THEN 1 ELSE 0) + pq[s].recv
  /\ stage[s] = Open \/ (s = "R" /\ HellosBegun(s) = Hellos(s)) => pq_key[s] = "shared"

(* What a side has left to send, as long as every message took one frame. *)
Left(s) ==
  /\ Len(todo[s]) <= Len(payloads[s])
  /\ Whole(payloads[s], pq[s].send) =>
       /\ pq[s].send + Len(todo[s]) = Len(payloads[s])
       /\ \A i \in 1..Len(todo[s]) : todo[s][i] = payloads[s][pq[s].send + i]

(* What s wrote and the other side did not read: the halves of its frames that
   come next, none lost, none twice, each what it was when it was sealed.   *)
Stream(s) ==
  /\ HalvesRead(Other(s)) + Len(wire[Other(s)]) + Len(out[s]) = 2 * Begun(s)
  /\ Halves(s, payloads[s], HalvesRead(Other(s)), wire[Other(s)])
  /\ Halves(s, payloads[s], 2 * Begun(s) - Len(out[s]), out[s])

(* What s parsed, and while it lives nothing it read is missing. *)
Parsed(s) ==
  /\ Len(got[s]) <= Len(payloads[Other(s)])
  /\ \A i \in 1..Len(got[s]) : got[s][i] = payloads[Other(s)][i]
  /\ Live(s) => Len(got[s]) = pq[s].recv /\ Whole(payloads[Other(s)], pq[s].recv)

TransportInv ==
  /\ TransportTypes /\ InStep
  /\ \A s \in Side : Placed(s) /\ Left(s) /\ Stream(s) /\ Parsed(s)

-----------------------------------------------------------------------------
LEMMA Sides ==
  ASSUME NEW s \in Side
  PROVE  /\ Other(s) \in Side /\ Other(s) # s /\ Other(Other(s)) = s
         /\ \A x \in Side : x = s \/ x = Other(s)
  BY DEF Side, Other

LEMMA TailElements ==
  ASSUME NEW X, NEW q \in Seq(X), q # <<>>
  PROVE  /\ Head(q) = q[1] /\ Head(q) \in X /\ Tail(q) \in Seq(X)
         /\ Len(q) \in Nat /\ Len(q) >= 1 /\ Len(Tail(q)) = Len(q) - 1
         /\ \A i \in 1..Len(Tail(q)) : Tail(q)[i] = q[i + 1]
  OBVIOUS

LEMMA HalvesTail ==
  ASSUME NEW s, NEW msgs, NEW j \in Int, NEW X, NEW q \in Seq(X), q # <<>>, Halves(s, msgs, j, q)
  PROVE  Half(s, msgs, j + 1, Head(q)) /\ Halves(s, msgs, j + 1, Tail(q))
<1>1. Half(s, msgs, j + 1, Head(q))
  BY TailElements DEF Halves
<1>2. ASSUME NEW i \in 1..Len(Tail(q)) PROVE Half(s, msgs, (j + 1) + i, Tail(q)[i])
  <2>1. i \in Int /\ i + 1 \in 1..Len(q) /\ Tail(q)[i] = q[i + 1]
    BY TailElements
  <2>2. Half(s, msgs, j + (i + 1), q[i + 1])
    BY <2>1 DEF Halves
  <2>3. j + (i + 1) = (j + 1) + i
    BY <2>1
  <2> QED BY <2>1, <2>2, <2>3
<1> QED BY <1>1, <1>2 DEF Halves

LEMMA HalvesAppend ==
  ASSUME NEW s, NEW msgs, NEW j \in Int, NEW X, NEW q \in Seq(X), NEW half \in X,
         Halves(s, msgs, j, q), Half(s, msgs, j + Len(q) + 1, half)
  PROVE  Halves(s, msgs, j, Append(q, half))
<1>1. /\ Len(q) \in Nat /\ Len(Append(q, half)) = Len(q) + 1
      /\ Append(q, half)[Len(q) + 1] = half /\ \A k \in 1..Len(q) : Append(q, half)[k] = q[k]
  BY AppendElements
<1>2. ASSUME NEW i \in 1..Len(Append(q, half)) PROVE Half(s, msgs, j + i, Append(q, half)[i])
  <2>1. CASE i = Len(q) + 1
    <3>1. j + i = j + Len(q) + 1
      BY <1>1, <2>1
    <3> QED BY <1>1, <2>1, <3>1
  <2>2. CASE i # Len(q) + 1
    <3>1. i \in 1..Len(q)
      BY <1>1, <2>2
    <3> QED BY <1>1, <3>1 DEF Halves
  <2> QED BY <2>1, <2>2
<1> QED BY <1>2 DEF Halves

LEMMA SendUp ==
  ASSUME NEW f \in [Side -> Counters], NEW s \in Side, NEW g, g = [f EXCEPT ![s].send = @ + 1]
  PROVE  /\ g \in [Side -> Counters] /\ g[s].send = f[s].send + 1 /\ g[s].recv = f[s].recv
         /\ \A x \in Side : x # s => g[x] = f[x]
  BY DEF Counters

LEMMA RecvUp ==
  ASSUME NEW f \in [Side -> Counters], NEW s \in Side, NEW g, g = [f EXCEPT ![s].recv = @ + 1]
  PROVE  /\ g \in [Side -> Counters] /\ g[s].recv = f[s].recv + 1 /\ g[s].send = f[s].send
         /\ \A x \in Side : x # s => g[x] = f[x]
  BY DEF Counters

LEMMA CountedUp ==
  ASSUME NEW f \in [Side -> Counters], NEW s \in Side, NEW g, g = [f EXCEPT ![s] = counted(@)]
  PROVE  /\ g \in [Side -> Counters] /\ g[s].recv = f[s].recv + 1 /\ g[s].send = f[s].send
         /\ \A x \in Side : x # s => g[x] = f[x]
  BY DEF Counters, counted

(* The counts are numbers. *)
LEMMA CountsType ==
  ASSUME TransportTypes, NEW s \in Side
  PROVE  /\ stage[s] \in 1..6 /\ Written(s, stage[s]) \in Nat /\ HellosRead(s, stage[s]) \in Nat
         /\ Hellos(s) \in Nat /\ HellosBegun(s) \in Nat
         /\ pq[s].send \in Nat /\ pq[s].recv \in Nat /\ noise[s].send \in Nat /\ noise[s].recv \in Nat
         /\ Begun(s) \in Nat /\ HalvesRead(s) \in Nat
         /\ Len(out[s]) \in Nat /\ Len(wire[s]) \in Nat
<1>1. stage[s] \in 1..6 /\ pq[s] \in Counters /\ noise[s] \in Counters
      /\ out[s] \in Seq(Piece) /\ wire[s] \in Seq(Piece)
  BY DEF TransportTypes, Open
<1>2. /\ Written(s, stage[s]) \in Nat /\ HellosRead(s, stage[s]) \in Nat /\ Hellos(s) \in Nat
  BY DEF Written, HellosRead, Hellos
<1>3. /\ pq[s].send \in Nat /\ pq[s].recv \in Nat /\ noise[s].send \in Nat /\ noise[s].recv \in Nat
  BY <1>1 DEF Counters
<1>4. HellosBegun(s) \in Nat
  BY <1>2 DEF HellosBegun
<1>5. Begun(s) \in Nat /\ HalvesRead(s) \in Nat
  BY <1>2, <1>3, <1>4 DEF Begun, HalvesRead
<1> QED BY <1>1, <1>2, <1>3, <1>4, <1>5

LEMMA InitTransport == ConnectionInit => TransportInv
<1> SUFFICES ASSUME ConnectionInit PROVE TransportInv
  OBVIOUS
<1>1. TransportTypes
  <2>1. payloads \in [Side -> Seq(Nat)]
    BY TransportAssumption DEF ConnectionInit
  <2> QED BY <2>1 DEF ConnectionInit, TransportTypes, Open, Counters, Verdicts
<1>2. InStep
  BY DEF ConnectionInit, InStep
<1>3. ASSUME NEW s \in Side PROVE Placed(s) /\ Left(s) /\ Stream(s) /\ Parsed(s)
  <2>0. Other(s) \in Side /\ payloads[s] \in Seq(Nat) /\ payloads[Other(s)] \in Seq(Nat)
    BY <1>1, Sides DEF TransportTypes
  <2>1. /\ stage[s] = 1 /\ out[s] = <<>> /\ pq[s].send = 0 /\ pq[s].recv = 0
        /\ noise[s].send = 0 /\ noise[s].recv = 0 /\ todo[s] = payloads[s] /\ got[s] = <<>>
        /\ stage[Other(s)] = 1 /\ wire[Other(s)] = <<>> /\ reading[Other(s)] = "len"
        /\ pq[Other(s)].recv = 0
    BY <2>0 DEF ConnectionInit
  <2>2. Placed(s)
    BY <2>1 DEF Placed, HellosBegun, Written, HellosRead, Hellos, Open, Side, Other
  <2>3. Left(s)
    BY <2>0, <2>1 DEF Left
  <2>4. Stream(s)
    <3>1. HalvesRead(Other(s)) = 0 /\ Begun(s) = 0
      BY <2>1 DEF HalvesRead, Begun, HellosBegun, Written, HellosRead
    <3>2. Len(wire[Other(s)]) = 0 /\ Len(out[s]) = 0
      BY <2>1
    <3> QED BY <3>1, <3>2 DEF Stream, Halves
  <2>5. Parsed(s)
    BY <2>0, <2>1 DEF Parsed, Whole
  <2> QED BY <2>2, <2>3, <2>4, <2>5
<1> QED BY <1>1, <1>2, <1>3 DEF TransportInv

-----------------------------------------------------------------------------
(* The invariant of a side that a step does not touch. *)
Untouched(x) ==
  /\ stage'[x] = stage[x] /\ out'[x] = out[x] /\ reading'[x] = reading[x]
  /\ noise'[x] = noise[x] /\ pq'[x] = pq[x] /\ pq_key'[x] = pq_key[x]
  /\ todo'[x] = todo[x] /\ got'[x] = got[x] /\ error'[x] = error[x]

LEMMA UntouchedKeeps ==
  ASSUME TransportInv, NEW x \in Side, Untouched(x), payloads' = payloads
  PROVE  /\ Placed(x)' /\ Left(x)' /\ Parsed(x)'
         /\ Begun(x)' = Begun(x) /\ HalvesRead(x)' = HalvesRead(x)
<1>1. Placed(x) /\ Left(x) /\ Parsed(x)
  BY DEF TransportInv
<1>2. HellosBegun(x)' = HellosBegun(x) /\ Begun(x)' = Begun(x) /\ HalvesRead(x)' = HalvesRead(x)
  BY DEF Untouched, HellosBegun, Begun, HalvesRead
<1>3. Placed(x)'
  BY <1>1, <1>2 DEF Untouched, Placed, Step
<1>4. Left(x)'
  BY <1>1 DEF Untouched, Left
<1>5. Parsed(x)'
  BY <1>1 DEF Untouched, Parsed, Live
<1> QED BY <1>2, <1>3, <1>4, <1>5

(* What a step does to the stream of s to o: nothing, one half is read, one half
   is written, or a frame begins.                                           *)
LEMMA StreamSame ==
  ASSUME TransportInv, NEW s \in Side, payloads' = payloads,
         wire'[Other(s)] = wire[Other(s)], out'[s] = out[s],
         HalvesRead(Other(s))' = HalvesRead(Other(s)), Begun(s)' = Begun(s)
  PROVE  Stream(s)'
<1>1. Stream(s)
  BY DEF TransportInv
<1> QED BY <1>1 DEF Stream

LEMMA StreamReads ==
  ASSUME TransportInv, NEW s \in Side, payloads' = payloads,
         wire[Other(s)] # <<>>, wire'[Other(s)] = Tail(wire[Other(s)]), out'[s] = out[s],
         HalvesRead(Other(s))' = HalvesRead(Other(s)) + 1, Begun(s)' = Begun(s)
  PROVE  Stream(s)'
<1> DEFINE q == wire[Other(s)]
           h == HalvesRead(Other(s))
<1>1. Stream(s) /\ TransportTypes /\ Other(s) \in Side
  BY Sides DEF TransportInv
<1>2. q \in Seq(Piece) /\ q # <<>> /\ h \in Nat /\ Len(out[s]) \in Nat /\ Begun(s) \in Nat
  BY <1>1, CountsType DEF TransportTypes
<1>3. h + Len(q) + Len(out[s]) = 2 * Begun(s) /\ Halves(s, payloads[s], h, q)
      /\ Halves(s, payloads[s], 2 * Begun(s) - Len(out[s]), out[s])
  BY <1>1 DEF Stream
<1> HIDE DEF q, h
<1>4. Halves(s, payloads[s], h + 1, Tail(q))
  BY <1>2, <1>3, HalvesTail
<1>5. Len(q) \in Nat /\ Len(Tail(q)) = Len(q) - 1
  BY <1>2, TailElements
<1>6. (h + 1) + Len(Tail(q)) + Len(out[s]) = 2 * Begun(s)
  <2>1. Len(Tail(q)) = Len(q) - 1
    BY <1>5
  <2> DEFINE m == Len(Tail(q))
             n == Len(q)
             w == Len(out[s])
             b == Begun(s)
  <2>2. h \in Nat /\ n \in Nat /\ w \in Nat /\ b \in Nat /\ h + n + w = 2 * b /\ m = n - 1
    BY <1>2, <1>3, <1>5, <2>1
  <2> HIDE DEF m, n, w, b
  <2>3. (h + 1) + m + w = 2 * b
    BY <2>2
  <2> QED BY <2>3 DEF m, w, b
<1> QED BY <1>3, <1>4, <1>6 DEF Stream, q, h

LEMMA StreamWrites ==
  ASSUME TransportInv, NEW s \in Side, payloads' = payloads,
         out[s] # <<>>, out'[s] = Tail(out[s]),
         wire'[Other(s)] = Append(wire[Other(s)], Head(out[s])),
         HalvesRead(Other(s))' = HalvesRead(Other(s)), Begun(s)' = Begun(s)
  PROVE  Stream(s)'
<1> DEFINE q == wire[Other(s)]
           w == out[s]
           h == HalvesRead(Other(s))
           b == 2 * Begun(s)
           msgs == payloads[s]
<1>1. Stream(s) /\ TransportTypes /\ Other(s) \in Side
  BY Sides DEF TransportInv
<1>2. q \in Seq(Piece) /\ w \in Seq(Piece) /\ w # <<>> /\ h \in Nat /\ b \in Nat
  <2>1. h \in Nat /\ Begun(s) \in Nat
    BY <1>1, CountsType
  <2>2. b \in Nat
    BY <2>1
  <2> QED BY <1>1, <2>1, <2>2 DEF TransportTypes
<1>3. h + Len(q) + Len(w) = b /\ Halves(s, msgs, h, q) /\ Halves(s, msgs, b - Len(w), w)
  BY <1>1 DEF Stream
<1> HIDE DEF q, w, h, b, msgs
<1>4. /\ Len(w) \in Nat /\ Len(q) \in Nat /\ Len(w) >= 1 /\ Len(Tail(w)) = Len(w) - 1
      /\ Head(w) \in Piece
  BY <1>2, TailElements
<1>5. b - Len(w) \in Int /\ b - Len(w) = h + Len(q) /\ (b - Len(w)) + 1 = b - Len(Tail(w))
  BY <1>2, <1>3, <1>4
<1>6. Half(s, msgs, (b - Len(w)) + 1, Head(w)) /\ Halves(s, msgs, (b - Len(w)) + 1, Tail(w))
  BY <1>2, <1>3, <1>5, HalvesTail
<1>7. Half(s, msgs, h + Len(q) + 1, Head(w)) /\ Halves(s, msgs, b - Len(Tail(w)), Tail(w))
  BY <1>5, <1>6
<1>8. Halves(s, msgs, h, Append(q, Head(w)))
  BY <1>2, <1>3, <1>4, <1>7, HalvesAppend
<1>9. h + Len(Append(q, Head(w))) + Len(Tail(w)) = b
  <2>1. Len(Append(q, Head(w))) = Len(q) + 1
    BY <1>2, <1>4, AppendElements
  <2> DEFINE m == Len(Append(q, Head(w)))
             n == Len(Tail(w))
             i == Len(q)
             j == Len(w)
  <2>2. /\ h \in Nat /\ b \in Nat /\ i \in Nat /\ j \in Nat /\ h + i + j = b
        /\ m = i + 1 /\ n = j - 1
    BY <1>2, <1>3, <1>4, <2>1
  <2> HIDE DEF m, n, i, j
  <2>3. h + m + n = b
    BY <2>2
  <2> QED BY <2>3 DEF m, n
<1> QED BY <1>7, <1>8, <1>9 DEF Stream, q, w, h, b, msgs

LEMMA FrameType ==
  ASSUME NEW n \in Nat, NEW c \in Content
  PROVE  /\ Frame(n, c) \in Seq(Piece) /\ Len(Frame(n, c)) = 2
         /\ Frame(n, c)[1].part = "len"
         /\ Frame(n, c)[2].nonce = n /\ Frame(n, c)[2].holds = c
<1>1. [part |-> "len"] \in Piece /\ [part |-> "body", nonce |-> n, holds |-> c] \in Piece
  BY DEF Piece
<1> QED BY <1>1 DEF Frame

LEMMA StreamBegins ==
  ASSUME TransportInv, NEW s \in Side, payloads' = payloads,
         NEW n \in Nat, NEW c \in Content,
         out[s] = <<>>, out'[s] = Frame(n, c), wire'[Other(s)] = wire[Other(s)],
         HalvesRead(Other(s))' = HalvesRead(Other(s)), Begun(s)' = Begun(s) + 1,
         Body(s, payloads[s], Begun(s) + 1, Frame(n, c)[2])
  PROVE  Stream(s)'
<1> DEFINE q == wire[Other(s)]
           w == Frame(n, c)
           h == HalvesRead(Other(s))
           b == Begun(s)
           msgs == payloads[s]
<1>1. Stream(s) /\ TransportTypes /\ Other(s) \in Side
  BY Sides DEF TransportInv
<1>2. h \in Nat /\ b \in Nat /\ Len(q) \in Nat /\ Len(out[s]) = 0
  BY <1>1, CountsType
<1>3. h + Len(q) + Len(out[s]) = 2 * b /\ Halves(s, msgs, h, q)
  BY <1>1 DEF Stream
<1>4. Len(w) = 2 /\ w[1].part = "len" /\ Body(s, msgs, b + 1, w[2])
  BY FrameType
<1> HIDE DEF q, w, h, b, msgs
<1>5. h + Len(q) + Len(w) = 2 * (b + 1) /\ 2 * (b + 1) - Len(w) = 2 * b
  BY <1>2, <1>3, <1>4
<1>6. Half(s, msgs, 2 * b + 1, w[1])
  BY <1>2, <1>4 DEF Half
<1>7. Half(s, msgs, 2 * b + 2, w[2])
  <2>1. ASSUME NEW k \in Nat, 2 * b + 2 = 2 * k PROVE k = b + 1
    BY <1>2, <2>1
  <2>2. ASSUME NEW k \in Nat PROVE 2 * b + 2 # 2 * k - 1
    BY <1>2
  <2> QED BY <1>4, <2>1, <2>2 DEF Half
<1>8. Halves(s, msgs, 2 * b, w)
  <2> SUFFICES ASSUME NEW i \in 1..Len(w) PROVE Half(s, msgs, 2 * b + i, w[i])
    BY DEF Halves
  <2>1. i = 1 \/ i = 2
    BY <1>4
  <2> QED BY <1>6, <1>7, <2>1
<1> QED BY <1>3, <1>5, <1>8 DEF Stream, q, w, h, b, msgs

-----------------------------------------------------------------------------
(* The script, step by step: what a step writes, and the counts it moves. *)
LEMMA InitiatorSteps ==
  ASSUME NEW n \in 1..5, NEW step, step = Script["I"][n]
  PROVE  /\ n = 1 => step = "write e"
         /\ n = 2 => step = "read"
         /\ n = 3 => step = "write s"
         /\ n = 4 => step = "write ek"
         /\ n = 5 => step = "read"
<1> DEFINE t == <<"write e", "read", "write s", "write ek", "read">>
<1>1. Script["I"] = t
  BY DEF Script
<1>2. t[1] = "write e" /\ t[2] = "read" /\ t[3] = "write s" /\ t[4] = "write ek" /\ t[5] = "read"
  OBVIOUS
<1>3. step = t[n]
  BY <1>1
<1> HIDE DEF t
<1> QED BY <1>2, <1>3

LEMMA ResponderSteps ==
  ASSUME NEW n \in 1..5, NEW step, step = Script["R"][n]
  PROVE  /\ n = 1 => step = "read"
         /\ n = 2 => step = "write e"
         /\ n = 3 => step = "read"
         /\ n = 4 => step = "read"
         /\ n = 5 => step = "write ct"
<1> DEFINE t == <<"read", "write e", "read", "read", "write ct">>
<1>1. Script["R"] = t
  BY DEF Script
<1>2. t[1] = "read" /\ t[2] = "write e" /\ t[3] = "read" /\ t[4] = "read" /\ t[5] = "write ct"
  OBVIOUS
<1>3. step = t[n]
  BY <1>1
<1> HIDE DEF t
<1> QED BY <1>2, <1>3

LEMMA ReadSteps ==
  ASSUME NEW s \in Side, NEW n \in 1..5, NEW step, step = Script[s][n], step = "read"
  PROVE  /\ HellosRead(s, n + 1) = HellosRead(s, n) + 1 /\ Written(s, n + 1) = Written(s, n)
         /\ HellosRead(s, n) + 1 <= Hellos(Other(s)) /\ HellosRead(s, n) # Hellos(Other(s))
         /\ HellosRead(s, n + 1) = Hellos(Other(s)) <=> Sealed(Hello(Other(s), HellosRead(s, n) + 1))
         /\ n + 1 = 6 => Hello(Other(s), HellosRead(s, n) + 1) = "write ct"
         /\ s = "R" => Written(s, n + 1) # Hellos(s)
<1>0. n = 1 \/ n = 2 \/ n = 3 \/ n = 4 \/ n = 5
  OBVIOUS
<1>1. CASE s = "I"
  <2>1. step = Script["I"][n]
    BY <1>1
  <2>2. n = 2 \/ n = 5
    BY <1>0, <2>1, InitiatorSteps
  <2> QED BY <1>1, <2>2 DEF HellosRead, Written, Hellos, Other, Sealed, Hello
<1>2. CASE s = "R"
  <2>1. step = Script["R"][n]
    BY <1>2
  <2>2. n = 1 \/ n = 3 \/ n = 4
    BY <1>0, <2>1, ResponderSteps
  <2> QED BY <1>2, <2>2 DEF HellosRead, Written, Hellos, Other, Sealed, Hello
<1> QED BY <1>1, <1>2 DEF Side

LEMMA WriteSteps ==
  ASSUME NEW s \in Side, NEW n \in 1..5, NEW step, step = Script[s][n], step \in Writes
  PROVE  /\ Written(s, n + 1) = Written(s, n) + 1 /\ HellosRead(s, n + 1) = HellosRead(s, n)
         /\ Written(s, n) + 1 <= Hellos(s) /\ Written(s, n) # Hellos(s)
         /\ step = Hello(s, Written(s, n) + 1)
         /\ Sealed(step) <=> Written(s, n) + 1 = Hellos(s)
         /\ step = "write ct" <=> s = "R" /\ Written(s, n) + 1 = Hellos(s)
         /\ n + 1 = 6 => s = "R"
<1>0. n = 1 \/ n = 2 \/ n = 3 \/ n = 4 \/ n = 5
  OBVIOUS
<1>1. CASE s = "I"
  <2>1. step = Script["I"][n]
    BY <1>1
  <2>2. \/ n = 1 /\ step = "write e"
        \/ n = 3 /\ step = "write s"
        \/ n = 4 /\ step = "write ek"
    BY <1>0, <2>1, InitiatorSteps DEF Writes
  <2>3. CASE n = 1 /\ step = "write e"
    <3>1. Written("I", 1) = 0 /\ Written("I", 1 + 1) = 0 + 1 /\ Hellos("I") = 3
      BY DEF Written, Hellos
    <3>2. HellosRead("I", 1 + 1) = HellosRead("I", 1)
      BY DEF HellosRead
    <3>3. Hello("I", 0 + 1) = "write e"
      BY DEF Hello
    <3>4. /\ Written(s, n) = 0 /\ Written(s, n + 1) = 0 + 1 /\ Hellos(s) = 3
          /\ HellosRead(s, n + 1) = HellosRead(s, n) /\ Hello(s, Written(s, n) + 1) = step
      BY <1>1, <2>3, <3>1, <3>2, <3>3
    <3>5. ~Sealed(step)
      BY <2>3 DEF Sealed
    <3>6. step # "write ct"
      BY <2>3
    <3>7. n = 1
      BY <2>3
    <3>8. n + 1 # 6
      BY <3>7
    <3>9. Written(s, n) + 1 <= Hellos(s) /\ Written(s, n) # Hellos(s) /\ Written(s, n) + 1 # Hellos(s)
      BY <3>4
    <3>10. s # "R"
      BY <1>1
    <3> QED BY <3>4, <3>5, <3>6, <3>8, <3>9, <3>10, Zenon
  <2>4. CASE n = 3 /\ step = "write s"
    <3>1. Written("I", 3) = 1 /\ Written("I", 3 + 1) = 1 + 1 /\ Hellos("I") = 3
      BY DEF Written, Hellos
    <3>2. HellosRead("I", 3 + 1) = HellosRead("I", 3)
      BY DEF HellosRead
    <3>3. Hello("I", 1 + 1) = "write s"
      BY DEF Hello
    <3>4. /\ Written(s, n) = 1 /\ Written(s, n + 1) = 1 + 1 /\ Hellos(s) = 3
          /\ HellosRead(s, n + 1) = HellosRead(s, n) /\ Hello(s, Written(s, n) + 1) = step
      BY <1>1, <2>4, <3>1, <3>2, <3>3
    <3>5. ~Sealed(step)
      BY <2>4 DEF Sealed
    <3>6. step # "write ct"
      BY <2>4
    <3>7. n = 3
      BY <2>4
    <3>8. n + 1 # 6
      BY <3>7
    <3>9. Written(s, n) + 1 <= Hellos(s) /\ Written(s, n) # Hellos(s) /\ Written(s, n) + 1 # Hellos(s)
      BY <3>4
    <3>10. s # "R"
      BY <1>1
    <3> QED BY <3>4, <3>5, <3>6, <3>8, <3>9, <3>10, Zenon
  <2>5. CASE n = 4 /\ step = "write ek"
    <3>1. Written("I", 4) = 2 /\ Written("I", 4 + 1) = 2 + 1 /\ Hellos("I") = 3
      BY DEF Written, Hellos
    <3>2. HellosRead("I", 4 + 1) = HellosRead("I", 4)
      BY DEF HellosRead
    <3>3. Hello("I", 2 + 1) = "write ek"
      BY DEF Hello
    <3>4. /\ Written(s, n) = 2 /\ Written(s, n + 1) = 2 + 1 /\ Hellos(s) = 3
          /\ HellosRead(s, n + 1) = HellosRead(s, n) /\ Hello(s, Written(s, n) + 1) = step
      BY <1>1, <2>5, <3>1, <3>2, <3>3
    <3>5. Sealed(step)
      BY <2>5 DEF Sealed
    <3>6. step # "write ct"
      BY <2>5
    <3>7. n = 4
      BY <2>5
    <3>8. n + 1 # 6
      BY <3>7
    <3>9. Written(s, n) + 1 <= Hellos(s) /\ Written(s, n) # Hellos(s) /\ Written(s, n) + 1 = Hellos(s)
      BY <3>4
    <3>10. s # "R"
      BY <1>1
    <3> QED BY <3>4, <3>5, <3>6, <3>8, <3>9, <3>10, Zenon
  <2> QED BY <2>2, <2>3, <2>4, <2>5
<1>2. CASE s = "R"
  <2>1. step = Script["R"][n]
    BY <1>2
  <2>2. (n = 2 /\ step = "write e") \/ (n = 5 /\ step = "write ct")
    BY <1>0, <2>1, ResponderSteps DEF Writes
  <2>3. CASE n = 2 /\ step = "write e"
    <3>1. Written("R", 2) = 0 /\ Written("R", 2 + 1) = 0 + 1 /\ Hellos("R") = 2
      BY DEF Written, Hellos
    <3>2. HellosRead("R", 2 + 1) = HellosRead("R", 2)
      BY DEF HellosRead
    <3>3. Hello("R", 0 + 1) = "write e"
      BY DEF Hello
    <3>4. /\ Written(s, n) = 0 /\ Written(s, n + 1) = 0 + 1 /\ Hellos(s) = 2
          /\ HellosRead(s, n + 1) = HellosRead(s, n) /\ Hello(s, Written(s, n) + 1) = step
      BY <1>2, <2>3, <3>1, <3>2, <3>3
    <3>5. ~Sealed(step)
      BY <2>3 DEF Sealed
    <3>6. step # "write ct"
      BY <2>3
    <3>8. s = "R"
      BY <1>2
    <3>9. Written(s, n) + 1 <= Hellos(s) /\ Written(s, n) # Hellos(s) /\ Written(s, n) + 1 # Hellos(s)
      BY <3>4
    <3> QED BY <3>4, <3>5, <3>6, <3>8, <3>9, Zenon
  <2>4. CASE n = 5 /\ step = "write ct"
    <3>1. Written("R", 5) = 1 /\ Written("R", 5 + 1) = 1 + 1 /\ Hellos("R") = 2
      BY DEF Written, Hellos
    <3>2. HellosRead("R", 5 + 1) = HellosRead("R", 5)
      BY DEF HellosRead
    <3>3. Hello("R", 1 + 1) = "write ct"
      BY DEF Hello
    <3>4. /\ Written(s, n) = 1 /\ Written(s, n + 1) = 1 + 1 /\ Hellos(s) = 2
          /\ HellosRead(s, n + 1) = HellosRead(s, n) /\ Hello(s, Written(s, n) + 1) = step
      BY <1>2, <2>4, <3>1, <3>2, <3>3
    <3>5. Sealed(step)
      BY <2>4 DEF Sealed
    <3>6. step = "write ct"
      BY <2>4
    <3>8. s = "R"
      BY <1>2
    <3>9. Written(s, n) + 1 <= Hellos(s) /\ Written(s, n) # Hellos(s) /\ Written(s, n) + 1 = Hellos(s)
      BY <3>4
    <3> QED BY <3>4, <3>5, <3>6, <3>8, <3>9, Zenon
  <2> QED BY <2>2, <2>3, <2>4
<1> QED BY <1>1, <1>2 DEF Side

(* The half that a side reads next is the next one of the other's frames. *)
LEMMA NextHalf ==
  ASSUME TransportInv, NEW s \in Side, wire[s] # <<>>
  PROVE  /\ Head(wire[s]) \in Piece /\ Tail(wire[s]) \in Seq(Piece)
         /\ reading[s] = "len" => Head(wire[s]).part = "len"
         /\ reading[s] = "body" =>
              Body(Other(s), payloads[Other(s)], HellosRead(s, stage[s]) + pq[s].recv + 1, Head(wire[s]))
<1> DEFINE o == Other(s)
           q == wire[s]
           h == HalvesRead(s)
           k == HellosRead(s, stage[s]) + pq[s].recv + 1
<1>1. o \in Side /\ Other(o) = s /\ TransportTypes /\ Stream(o)
  BY Sides DEF TransportInv
<1>2. h \in Nat /\ k \in Nat /\ q \in Seq(Piece)
  <2>1. h \in Nat /\ HellosRead(s, stage[s]) \in Nat /\ pq[s].recv \in Nat
    BY <1>1, CountsType
  <2>2. k \in Nat
    BY <2>1
  <2>3. q \in Seq(Piece)
    BY <1>1 DEF TransportTypes
  <2> QED BY <2>1, <2>2, <2>3
<1>3. Halves(o, payloads[o], h, q)
  BY <1>1 DEF Stream
<1>4. Half(o, payloads[o], h + 1, Head(q))
  <2> HIDE DEF h, q, o
  <2> QED BY <1>2, <1>3, HalvesTail DEF q
<1>5. Head(q) \in Piece /\ Tail(q) \in Seq(Piece)
  BY <1>2, TailElements
<1>6. /\ reading[s] = "len" => h + 1 = 2 * k - 1
      /\ reading[s] = "body" => h + 1 = 2 * k
  <2>1. HellosRead(s, stage[s]) \in Nat /\ pq[s].recv \in Nat
    BY <1>1, CountsType
  <2> QED BY <2>1 DEF HalvesRead
<1> HIDE DEF h, k
<1>7. reading[s] = "len" => Head(q).part = "len"
  BY <1>2, <1>4, <1>6 DEF Half
<1>8. reading[s] = "body" => Body(o, payloads[o], k, Head(q))
  BY <1>2, <1>4, <1>6 DEF Half
<1> QED BY <1>5, <1>7, <1>8 DEF k

-----------------------------------------------------------------------------
(* A step of s leaves the other side alone, and the invariant is one part for
   each of them.                                                            *)
LEMMA BothSides ==
  ASSUME NEW s \in Side, TransportTypes', InStep',
         Placed(s)', Left(s)', Stream(s)', Parsed(s)',
         Placed(Other(s))', Left(Other(s))', Stream(Other(s))', Parsed(Other(s))'
  PROVE  TransportInv'
  BY Sides DEF TransportInv

LEMMA ClosedKeeps == ASSUME TransportInv, NEW s \in Side, Closed(s) PROVE TransportInv'
<1> DEFINE o == Other(s)
<1>1. o \in Side /\ o # s /\ Other(o) = s /\ TransportTypes /\ InStep
  BY Sides DEF TransportInv
<1>2. /\ payloads' = payloads /\ stage' = stage /\ out' = out /\ wire' = wire /\ reading' = reading
      /\ noise' = noise /\ pq' = pq /\ pq_key' = pq_key /\ todo' = todo /\ got' = got
      /\ error' = [error EXCEPT ![s] = "closed"]
  BY DEF Closed
<1>3. TransportTypes'
  BY <1>1, <1>2 DEF TransportTypes, Verdicts
<1>4. error'[s] = "closed" /\ error'[o] = error[o]
  BY <1>1, <1>2 DEF TransportTypes
<1>5. InStep'
  BY <1>1, <1>2, <1>4, Sides DEF InStep, Fits
<1>6. Untouched(o)
  BY <1>2, <1>4 DEF Untouched
<1>7. /\ Placed(o)' /\ Left(o)' /\ Parsed(o)' /\ Begun(o)' = Begun(o)
      /\ HalvesRead(o)' = HalvesRead(o)
  BY <1>1, <1>2, <1>6, UntouchedKeeps
<1>8. Begun(s)' = Begun(s) /\ HalvesRead(s)' = HalvesRead(s) /\ HellosBegun(s)' = HellosBegun(s)
  BY <1>2 DEF Begun, HalvesRead, HellosBegun
<1>9. Placed(s)' /\ Left(s)'
  <2>1. Placed(s) /\ Left(s)
    BY DEF TransportInv
  <2> QED BY <1>2, <1>8, <2>1 DEF Placed, Left, Step
<1>10. Parsed(s)'
  <2>1. Parsed(s)
    BY DEF TransportInv
  <2> QED BY <1>2, <1>4, <2>1 DEF Parsed, Live
<1>11. Stream(s)'
  BY <1>2, <1>7, <1>8, StreamSame
<1>12. Stream(o)'
  BY <1>1, <1>2, <1>7, <1>8, StreamSame
<1> QED BY <1>3, <1>5, <1>7, <1>9, <1>10, <1>11, <1>12, BothSides

LEMMA ReadLenKeeps == ASSUME TransportInv, NEW s \in Side, ReadLen(s) PROVE TransportInv'
<1> DEFINE o == Other(s)
<1>1. o \in Side /\ o # s /\ Other(o) = s /\ TransportTypes /\ InStep
  BY Sides DEF TransportInv
<1>2. wire[s] # <<>> /\ reading[s] = "len"
  BY DEF ReadLen, Reads
<1>3. Head(wire[s]).part = "len" /\ Tail(wire[s]) \in Seq(Piece)
  BY <1>2, NextHalf
<1>4. /\ payloads' = payloads /\ stage' = stage /\ out' = out /\ wire' = [wire EXCEPT ![s] = Tail(@)]
      /\ reading' = [reading EXCEPT ![s] = "body"]
      /\ noise' = noise /\ pq' = pq /\ pq_key' = pq_key /\ todo' = todo /\ got' = got
      /\ error' = error
  BY <1>3 DEF ReadLen
<1>5. TransportTypes'
  BY <1>1, <1>3, <1>4 DEF TransportTypes
<1>6. /\ wire'[s] = Tail(wire[s]) /\ wire'[o] = wire[o]
      /\ reading'[s] = "body" /\ reading'[o] = reading[o]
  BY <1>1, <1>4 DEF TransportTypes
<1>7. InStep'
  BY <1>1, <1>4 DEF InStep, Fits
<1>8. Untouched(o)
  BY <1>4, <1>6 DEF Untouched
<1>9. /\ Placed(o)' /\ Left(o)' /\ Parsed(o)' /\ Begun(o)' = Begun(o)
      /\ HalvesRead(o)' = HalvesRead(o)
  BY <1>1, <1>4, <1>8, UntouchedKeeps
<1>10. Begun(s)' = Begun(s) /\ HellosBegun(s)' = HellosBegun(s)
  BY <1>4 DEF Begun, HellosBegun
<1>11. HalvesRead(s)' = HalvesRead(s) + 1
  <2>1. HellosRead(s, stage[s]) \in Nat /\ pq[s].recv \in Nat
    BY <1>1, CountsType
  <2> QED BY <1>2, <1>4, <1>6, <2>1 DEF HalvesRead
<1>12. Placed(s)' /\ Left(s)' /\ Parsed(s)'
  <2>1. Placed(s) /\ Left(s) /\ Parsed(s)
    BY DEF TransportInv
  <2> QED BY <1>4, <1>10, <2>1 DEF Placed, Left, Parsed, Live, Step
<1>13. Stream(s)'
  BY <1>4, <1>6, <1>9, <1>10, StreamSame
<1>14. Stream(o)'
  BY <1>1, <1>2, <1>4, <1>6, <1>9, <1>11, StreamReads
<1> QED BY <1>5, <1>7, <1>9, <1>12, <1>13, <1>14, BothSides

-----------------------------------------------------------------------------
LEMMA HandshakeWriteKeeps ==
  ASSUME TransportInv, NEW s \in Side, HandshakeWrite(s)
  PROVE  TransportInv'
<1> DEFINE o == Other(s)
           n == stage[s]
           step == Step(s)
           frame == Frame(0, step)
<1>1. o \in Side /\ o # s /\ Other(o) = s /\ TransportTypes /\ InStep /\ Placed(s)
  BY Sides DEF TransportInv
<1>2. /\ n \in 1..5 /\ step = Script[s][n] /\ step \in Writes /\ out[s] = <<>> /\ stage[s] < Open
      /\ stage[s] # Open
  <2>1. stage[s] \in 1..6
    BY <1>1, CountsType
  <2>2. stage[s] < Open /\ step \in Writes /\ out[s] = <<>>
    BY DEF HandshakeWrite
  <2>3. stage[s] \in 1..5 /\ stage[s] # Open
    BY <2>1, <2>2 DEF Open
  <2> QED BY <2>2, <2>3 DEF Step
<1>3. /\ Written(s, n) \in Nat /\ Hellos(s) \in Nat /\ pq[s].send \in Nat /\ noise[s].send \in Nat
      /\ Begun(s) \in Nat
  BY <1>1, CountsType
<1>4. /\ Written(s, n) + 1 <= Hellos(s) /\ Written(s, n) # Hellos(s)
      /\ step = Hello(s, Written(s, n) + 1)
      /\ Sealed(step) <=> Written(s, n) + 1 = Hellos(s)
      /\ step = "write ct" <=> s = "R" /\ Written(s, n) + 1 = Hellos(s)
  <2> HIDE DEF n, step
  <2> QED BY <1>2, WriteSteps
<1>5. HellosBegun(s) = Written(s, n) /\ pq[s].send = 0 /\ pq[s].recv = 0
  BY <1>1, <1>2, <1>3 DEF HellosBegun, Placed
<1>6. noise[s].send = 0 /\ Begun(s) = Written(s, n)
  <2>1. noise[s].send = (IF HellosBegun(s) = Hellos(s) THEN 1 ELSE 0) + pq[s].send
    BY <1>1 DEF Placed
  <2>2. (IF HellosBegun(s) = Hellos(s) THEN 1 ELSE 0) = 0
    BY <1>4, <1>5
  <2>3. Begun(s) = Written(s, n) + pq[s].send
    BY <1>5 DEF Begun
  <2> HIDE DEF n
  <2> QED BY <1>3, <1>5, <2>1, <2>2, <2>3
<1>7. /\ payloads' = payloads /\ stage' = stage /\ wire' = wire /\ reading' = reading
      /\ pq' = pq /\ todo' = todo /\ got' = got /\ error' = error
      /\ out' = [out EXCEPT ![s] = frame]
      /\ noise' = IF Sealed(step) THEN [noise EXCEPT ![s].send = @ + 1] ELSE noise
      /\ pq_key' = IF step = "write ct" THEN [pq_key EXCEPT ![s] = "shared"] ELSE pq_key
  BY <1>6 DEF HandshakeWrite
<1>8. step \in Content /\ frame \in Seq(Piece) /\ Len(frame) = 2 /\ frame # <<>>
      /\ frame[2].nonce = 0 /\ frame[2].holds = step
  <2>1. step \in Content
    BY <1>2 DEF Content
  <2>2. frame \in Seq(Piece) /\ Len(frame) = 2 /\ frame[2].nonce = 0 /\ frame[2].holds = step
    BY <2>1, FrameType
  <2>3. frame # <<>>
    BY DEF Frame
  <2> QED BY <2>1, <2>2, <2>3
<1> HIDE DEF frame, step, n
<1>9. /\ noise' \in [Side -> Counters] /\ noise'[o] = noise[o] /\ noise'[s].recv = noise[s].recv
      /\ noise'[s].send = IF Sealed(step) THEN 1 ELSE 0
  <2>1. noise \in [Side -> Counters]
    BY <1>1 DEF TransportTypes
  <2>2. CASE Sealed(step)
    <3>1. noise' = [noise EXCEPT ![s].send = @ + 1]
      BY <1>7, <2>2
    <3>2. /\ noise' \in [Side -> Counters] /\ noise'[s].send = noise[s].send + 1
          /\ noise'[s].recv = noise[s].recv /\ noise'[o] = noise[o]
      BY <1>1, <2>1, <3>1, SendUp
    <3> QED BY <1>6, <2>2, <3>2
  <2>3. CASE ~Sealed(step)
    <3>1. noise' = noise
      BY <1>7, <2>3
    <3> QED BY <1>6, <2>1, <2>3, <3>1
  <2> QED BY <2>2, <2>3
<1>10. /\ pq_key' \in [Side -> {"none", "shared"}] /\ pq_key'[o] = pq_key[o]
       /\ step = "write ct" => pq_key'[s] = "shared"
  BY <1>1, <1>7 DEF TransportTypes
<1>11. out'[s] = frame /\ out'[o] = out[o] /\ out' \in [Side -> Seq(Piece)]
  BY <1>1, <1>7, <1>8 DEF TransportTypes
<1>12. TransportTypes'
  BY <1>1, <1>7, <1>9, <1>10, <1>11 DEF TransportTypes
<1>13. InStep'
  BY <1>1, <1>7 DEF InStep, Fits
<1>14. Untouched(o)
  BY <1>7, <1>9, <1>10, <1>11 DEF Untouched
<1>15. /\ Placed(o)' /\ Left(o)' /\ Parsed(o)' /\ Begun(o)' = Begun(o)
       /\ HalvesRead(o)' = HalvesRead(o)
  BY <1>1, <1>7, <1>14, UntouchedKeeps
<1>16. HellosBegun(s)' = Written(s, n) + 1
  BY <1>2, <1>7, <1>8, <1>11 DEF HellosBegun, n
<1>17. Begun(s)' = Begun(s) + 1 /\ HalvesRead(s)' = HalvesRead(s)
  <2>1. Begun(s)' = HellosBegun(s)' + pq[s].send
    BY <1>7 DEF Begun
  <2>2. HalvesRead(s)' = HalvesRead(s)
    BY <1>7 DEF HalvesRead
  <2> QED BY <1>3, <1>5, <1>6, <1>16, <2>1, <2>2
<1>18. Placed(s)'
  <2>1. Len(out'[s]) <= 2
    <3>1. Len(out'[s]) = 2
      BY <1>8, <1>11, Zenon
    <3> QED BY <3>1
  <2>2. pq'[s].send = 0 /\ pq'[s].recv = 0 /\ Step(s)' \in Writes
    BY <1>2, <1>5, <1>7 DEF Step, step
  <2>3. noise'[s].send = (IF HellosBegun(s)' = Hellos(s) THEN 1 ELSE 0) + pq'[s].send
    <3> DEFINE bit == IF HellosBegun(s)' = Hellos(s) THEN 1 ELSE 0
    <3>3. HellosBegun(s)' = Hellos(s) <=> Sealed(step)
      BY <1>4, <1>16, Zenon
    <3>4. bit = IF Sealed(step) THEN 1 ELSE 0
      BY <3>3
    <3>1. noise'[s].send = bit /\ bit \in Int
      BY <1>9, <3>4
    <3> HIDE DEF bit
    <3>2. noise'[s].send = bit + pq'[s].send
      BY <2>2, <3>1
    <3> QED BY <3>2 DEF bit
  <2>4. noise'[s].recv = (IF HellosRead(s, stage'[s]) = Hellos(o) THEN 1 ELSE 0) + pq'[s].recv
    BY <1>1, <1>7, <1>9 DEF Placed
  <2>5. s = "R" /\ HellosBegun(s)' = Hellos(s) => pq_key'[s] = "shared"
    BY <1>4, <1>10, <1>16
  <2>6. stage'[s] # Open
    BY <1>2, <1>7
  <2> QED BY <2>1, <2>2, <2>3, <2>4, <2>5, <2>6 DEF Placed
<1>19. Left(s)' /\ Parsed(s)'
  <2>1. Left(s) /\ Parsed(s)
    BY DEF TransportInv
  <2> QED BY <1>7, <2>1 DEF Left, Parsed, Live
<1>20. Stream(s)'
  <2>1. Body(s, payloads[s], Begun(s) + 1, frame[2])
    <3> DEFINE k == Begun(s) + 1
    <3>0. k = Written(s, n) + 1
      BY <1>6
    <3> HIDE DEF k
    <3>1. k \in Nat /\ k <= Hellos(s) /\ Hellos(s) \in Nat
      <4>1. /\ Written(s, n) \in Nat /\ Hellos(s) \in Nat /\ Written(s, n) + 1 <= Hellos(s)
        BY <1>3, <1>4, Zenon
      <4> QED BY <3>0, <4>1
    <3>4. frame[2].holds = Hello(s, k)
      BY <1>4, <1>8, <3>0
    <3> HIDE DEF k
    <3>2. ~(k > Hellos(s))
      BY <3>1
    <3>3. Body(s, payloads[s], k, frame[2])
      BY <1>8, <3>1, <3>2, <3>4 DEF Body
    <3> QED BY <3>3 DEF k
  <2>2. out'[s] = Frame(0, step) /\ Body(s, payloads[s], Begun(s) + 1, Frame(0, step)[2])
    BY <1>11, <2>1 DEF frame
  <2>3. wire'[Other(s)] = wire[Other(s)] /\ 0 \in Nat
    BY <1>7
  <2> QED BY <1>2, <1>7, <1>8, <1>15, <1>17, <2>2, <2>3, StreamBegins
<1>21. Stream(o)'
  BY <1>1, <1>7, <1>11, <1>15, <1>17, StreamSame
<1> QED BY <1>12, <1>13, <1>15, <1>18, <1>19, <1>20, <1>21, BothSides

LEMMA WriteKeeps == ASSUME TransportInv, NEW s \in Side, Write(s) PROVE TransportInv'
<1> DEFINE o == Other(s)
           n == stage[s]
           w == out[s]
           last == stage[s] < Open /\ Len(out[s]) = 1
<1>1. o \in Side /\ o # s /\ Other(o) = s /\ TransportTypes /\ InStep /\ Placed(s)
  BY Sides DEF TransportInv
<1>2. w # <<>> /\ w \in Seq(Piece) /\ n \in 1..6
  BY <1>1 DEF Write, TransportTypes, Open
<1>3. /\ Head(w) \in Piece /\ Tail(w) \in Seq(Piece) /\ Len(w) \in Nat /\ Len(w) >= 1 /\ Len(w) <= 2
      /\ Len(Tail(w)) = Len(w) - 1
  <2>1. /\ Head(w) \in Piece /\ Tail(w) \in Seq(Piece) /\ Len(w) \in Nat /\ Len(w) >= 1
        /\ Len(Tail(w)) = Len(w) - 1
    BY <1>2, TailElements
  <2> QED BY <1>1, <2>1 DEF Placed
<1>4. /\ payloads' = payloads /\ reading' = reading /\ noise' = noise /\ pq' = pq /\ pq_key' = pq_key
      /\ todo' = todo /\ got' = got /\ error' = error
      /\ wire' = [wire EXCEPT ![o] = Append(@, Head(w))]
      /\ out' = [out EXCEPT ![s] = Tail(@)]
      /\ stage' = IF last THEN [stage EXCEPT ![s] = @ + 1] ELSE stage
  BY DEF Write
<1>5. /\ wire' \in [Side -> Seq(Piece)] /\ wire'[o] = Append(wire[o], Head(w)) /\ wire'[s] = wire[s]
      /\ out' \in [Side -> Seq(Piece)] /\ out'[s] = Tail(w) /\ out'[o] = out[o]
  <2>1. Append(wire[o], Head(w)) \in Seq(Piece)
    BY <1>1, <1>3, AppendElements DEF TransportTypes
  <2> QED BY <1>1, <1>3, <1>4, <2>1 DEF TransportTypes
<1>6. /\ stage' \in [Side -> 1..Open] /\ stage'[o] = stage[o]
      /\ stage'[s] = IF last THEN n + 1 ELSE n
  <2>0. stage \in [Side -> 1..Open]
    BY <1>1 DEF TransportTypes
  <2>1. CASE last
    <3>1. n + 1 \in 1..Open
      BY <1>2, <2>1 DEF Open
    <3>2. stage' = [stage EXCEPT ![s] = n + 1]
      BY <1>4, <2>1
    <3> HIDE DEF n
    <3> QED BY <1>1, <2>0, <2>1, <3>1, <3>2
  <2>2. CASE ~last
    BY <1>4, <2>0, <2>2
  <2> QED BY <2>1, <2>2
<1>7. TransportTypes'
  BY <1>1, <1>4, <1>5, <1>6 DEF TransportTypes
<1>8. InStep'
  BY <1>1, <1>4 DEF InStep, Fits
<1>9. Untouched(o)
  BY <1>4, <1>5, <1>6 DEF Untouched
<1>10. /\ Placed(o)' /\ Left(o)' /\ Parsed(o)' /\ Begun(o)' = Begun(o)
       /\ HalvesRead(o)' = HalvesRead(o)
  BY <1>1, <1>4, <1>9, UntouchedKeeps
<1>11. Written(s, n) \in Nat /\ Hellos(s) \in Nat
  BY <1>1, CountsType
<1>12. /\ HellosBegun(s)' = HellosBegun(s) /\ HellosRead(s, stage'[s]) = HellosRead(s, n)
       /\ stage'[s] = Open => stage[s] = Open \/ (s = "R" /\ HellosBegun(s) = Hellos(s))
       /\ stage'[s] < Open /\ out'[s] # <<>> => stage[s] < Open /\ stage'[s] = stage[s]
       /\ stage'[s] < Open => stage[s] < Open
  <2>1. CASE last
    <3>0. Len(Tail(w)) = 0 /\ Tail(w) \in Seq(Piece)
      <4>1. Len(w) = 1
        BY <2>1
      <4> HIDE DEF w
      <4> QED BY <1>3, <4>1
    <3>8. Tail(w) = <<>>
      <4> DEFINE t == Tail(w)
      <4> HIDE DEF t
      <4>1. t \in Seq(Piece) /\ Len(t) = 0
        BY <3>0 DEF t
      <4>2. t = <<>>
        BY <4>1
      <4> QED BY <4>2 DEF t
    <3>9. n \in 1..5 /\ n < Open
      BY <1>2, <2>1 DEF Open
    <3>1. n \in 1..5 /\ n < Open /\ stage'[s] = n + 1 /\ Tail(w) = <<>> /\ w # <<>>
      BY <1>2, <1>6, <2>1, <3>8, <3>9
    <3>2. Step(s) = Script[s][n] /\ Step(s) \in Writes
      BY <1>1, <3>1 DEF Placed, Step
    <3>3. /\ Written(s, n + 1) = Written(s, n) + 1 /\ HellosRead(s, n + 1) = HellosRead(s, n)
          /\ n + 1 = 6 => s = "R"
      <4> DEFINE step == Step(s)
      <4>1. n \in 1..5 /\ step = Script[s][n] /\ step \in Writes
        BY <3>1, <3>2
      <4> HIDE DEF n, step
      <4> QED BY <4>1, WriteSteps
    <3>4. HellosBegun(s) = Written(s, n) + 1
      BY <3>1 DEF HellosBegun
    <3>5. HellosBegun(s)' = Written(s, n) + 1
      <4>1. out'[s] = <<>>
        BY <1>5, <3>1
      <4>2. HellosBegun(s)' = Written(s, stage'[s]) + 0
        BY <4>1 DEF HellosBegun
      <4> QED BY <1>11, <3>1, <3>3, <4>2
    <3>6. n + 1 = 6 => s = "R" /\ HellosBegun(s) = Hellos(s)
      <4> SUFFICES ASSUME n + 1 = 6 PROVE s = "R" /\ HellosBegun(s) = Hellos(s)
        OBVIOUS
      <4>1. s = "R" /\ n = 5
        BY <3>1, <3>3
      <4>2. Written("R", 5) = 1 /\ Hellos("R") = 2
        BY DEF Written, Hellos
      <4> QED BY <3>4, <4>1, <4>2
    <3>7. out'[s] = <<>> /\ stage[s] < Open
      BY <1>5, <3>1
    <3> QED BY <3>1, <3>3, <3>4, <3>5, <3>6, <3>7 DEF Open
  <2>2. CASE ~last
    <3>1. stage'[s] = n
      BY <1>6, <2>2
    <3>2. stage[s] < Open => out'[s] # <<>>
      <4> SUFFICES ASSUME stage[s] < Open PROVE out'[s] # <<>>
        OBVIOUS
      <4>0. Len(w) # 1
        BY <2>2
      <4> DEFINE t == Tail(w)
      <4>2. out'[s] = t
        BY <1>5
      <4> HIDE DEF w
      <4>1. Len(t) = 1
        BY <1>3, <4>0
      <4> HIDE DEF t
      <4>3. t # <<>>
        <5>1. Len(<<>>) = 0
          OBVIOUS
        <5> QED BY <4>1, <5>1
      <4> QED BY <4>2, <4>3
    <3>3. HellosBegun(s)' = HellosBegun(s)
      <4>1. stage'[s] = stage[s] /\ out[s] # <<>>
        BY <1>2, <3>1
      <4>2. (stage'[s] < Open /\ out'[s] # <<>>) <=> (stage[s] < Open /\ out[s] # <<>>)
        BY <3>2, <4>1, Zenon
      <4> QED BY <4>1, <4>2, Zenon DEF HellosBegun
    <3> QED BY <3>1, <3>3
  <2> QED BY <2>1, <2>2
<1>13. Begun(s)' = Begun(s) /\ HalvesRead(s)' = HalvesRead(s)
  <2>1. Begun(s)' = HellosBegun(s)' + pq[s].send
    BY <1>4 DEF Begun
  <2>2. HalvesRead(s)' = 2 * (HellosRead(s, stage'[s]) + pq[s].recv) + (IF reading[s] = "body" THEN 1 ELSE 0)
    BY <1>4 DEF HalvesRead
  <2> QED BY <1>12, <2>1, <2>2 DEF Begun, HalvesRead
<1>14. Placed(s)'
  <2>1. Len(out'[s]) <= 2
    BY <1>3, <1>5
  <2>2. stage'[s] < Open => pq'[s].send = 0 /\ pq'[s].recv = 0
    BY <1>1, <1>4, <1>12 DEF Placed
  <2>3. stage'[s] < Open /\ out'[s] # <<>> => Step(s)' \in Writes
    <3> SUFFICES ASSUME stage'[s] < Open, out'[s] # <<>> PROVE Step(s)' \in Writes
      OBVIOUS
    <3>1. stage[s] < Open /\ stage'[s] = stage[s]
      BY <1>12
    <3> QED BY <1>1, <1>2, <3>1 DEF Placed, Step
  <2>4. noise'[s].send = (IF HellosBegun(s)' = Hellos(s) THEN 1 ELSE 0) + pq'[s].send
    BY <1>1, <1>4, <1>12 DEF Placed
  <2>5. noise'[s].recv = (IF HellosRead(s, stage'[s]) = Hellos(o) THEN 1 ELSE 0) + pq'[s].recv
    BY <1>1, <1>4, <1>12 DEF Placed
  <2>6. stage'[s] = Open \/ (s = "R" /\ HellosBegun(s)' = Hellos(s)) => pq_key'[s] = "shared"
    BY <1>1, <1>4, <1>12 DEF Placed
  <2> QED BY <2>1, <2>2, <2>3, <2>4, <2>5, <2>6 DEF Placed
<1>15. Left(s)' /\ Parsed(s)'
  <2>1. Left(s) /\ Parsed(s)
    BY DEF TransportInv
  <2> QED BY <1>4, <2>1 DEF Left, Parsed, Live
<1>16. Stream(s)'
  BY <1>2, <1>4, <1>5, <1>10, <1>13, StreamWrites
<1>17. Stream(o)'
  BY <1>1, <1>4, <1>5, <1>10, <1>13, StreamSame
<1> QED BY <1>7, <1>8, <1>10, <1>14, <1>15, <1>16, <1>17, BothSides

-----------------------------------------------------------------------------
LEMMA ReadHandshakeKeeps ==
  ASSUME TransportInv, NEW s \in Side, ReadHandshake(s)
  PROVE  TransportInv'
<1> DEFINE o == Other(s)
           n == stage[s]
           step == Step(s)
           body == Head(wire[s])
           sealed == Sealed(body.holds)
           k == HellosRead(s, n) + 1
<1>1. o \in Side /\ o # s /\ Other(o) = s /\ TransportTypes /\ InStep /\ Placed(s)
  BY Sides DEF TransportInv
<1>2. /\ n \in 1..5 /\ step = Script[s][n] /\ step = "read" /\ stage[s] < Open
      /\ wire[s] # <<>> /\ reading[s] = "body"
  <2>1. stage[s] \in 1..6
    BY <1>1, CountsType
  <2>2. stage[s] < Open /\ wire[s] # <<>> /\ reading[s] = "body" /\ step = "read"
    BY DEF ReadHandshake, Reads
  <2>3. stage[s] \in 1..5
    BY <2>1, <2>2 DEF Open
  <2> QED BY <2>2, <2>3 DEF Step
<1>3. out[s] = <<>> /\ pq[s].send = 0 /\ pq[s].recv = 0
  <2>1. step \notin Writes
    BY <1>2 DEF Writes
  <2> QED BY <1>1, <1>2, <2>1 DEF Placed
<1>4. /\ HellosRead(s, n) \in Nat /\ Written(s, n) \in Nat /\ Hellos(o) \in Nat /\ k \in Nat
      /\ noise[s].recv \in Nat
  <2>1. HellosRead(s, n) \in Nat /\ Written(s, n) \in Nat /\ Hellos(o) \in Nat /\ noise[s].recv \in Nat
    BY <1>1, CountsType
  <2>2. k \in Nat
    BY <2>1
  <2> QED BY <2>1, <2>2
<1>5. /\ HellosRead(s, n + 1) = k /\ Written(s, n + 1) = Written(s, n)
      /\ k <= Hellos(o) /\ HellosRead(s, n) # Hellos(o)
      /\ k = Hellos(o) <=> Sealed(Hello(o, k))
      /\ n + 1 = 6 => Hello(o, k) = "write ct"
      /\ s = "R" => Written(s, n + 1) # Hellos(s)
  <2> HIDE DEF n, step
  <2> QED BY <1>2, ReadSteps
<1>6. noise[s].recv = 0
  <2>1. noise[s].recv = (IF HellosRead(s, n) = Hellos(o) THEN 1 ELSE 0) + pq[s].recv
    BY <1>1 DEF Placed
  <2>2. (IF HellosRead(s, n) = Hellos(o) THEN 1 ELSE 0) = 0
    BY <1>5
  <2> QED BY <1>3, <1>4, <2>1, <2>2
<1>7. body.nonce = 0 /\ body.holds = Hello(o, k) /\ Tail(wire[s]) \in Seq(Piece)
  <2>1. Tail(wire[s]) \in Seq(Piece) /\ Body(o, payloads[o], HellosRead(s, stage[s]) + pq[s].recv + 1, body)
    BY <1>2, NextHalf
  <2>2. HellosRead(s, stage[s]) + pq[s].recv + 1 = k
    BY <1>3, <1>4
  <2> HIDE DEF k, body
  <2> QED BY <1>5, <2>1, <2>2 DEF Body
<1>8. /\ payloads' = payloads /\ out' = out /\ pq' = pq /\ todo' = todo /\ got' = got /\ error' = error
      /\ wire' = [wire EXCEPT ![s] = Tail(@)] /\ reading' = [reading EXCEPT ![s] = "len"]
      /\ stage' = [stage EXCEPT ![s] = @ + 1]
      /\ noise' = IF sealed THEN [noise EXCEPT ![s].recv = @ + 1] ELSE noise
      /\ pq_key' = IF body.holds = "write ct" THEN [pq_key EXCEPT ![s] = "shared"] ELSE pq_key
  <2>1. ~(sealed /\ body.nonce # noise[s].recv)
    BY <1>6, <1>7
  <2> HIDE DEF body
  <2> QED BY <2>1 DEF ReadHandshake, body
<1> HIDE DEF body, k, step
<1>9. /\ noise' \in [Side -> Counters] /\ noise'[o] = noise[o] /\ noise'[s].send = noise[s].send
      /\ noise'[s].recv = IF sealed THEN 1 ELSE 0
  <2>1. noise \in [Side -> Counters]
    BY <1>1 DEF TransportTypes
  <2>2. CASE sealed
    <3>1. noise' = [noise EXCEPT ![s].recv = @ + 1]
      BY <1>8, <2>2
    <3>2. /\ noise' \in [Side -> Counters] /\ noise'[s].recv = noise[s].recv + 1
          /\ noise'[s].send = noise[s].send /\ noise'[o] = noise[o]
      BY <1>1, <2>1, <3>1, RecvUp
    <3> HIDE DEF sealed
    <3> QED BY <1>6, <2>2, <3>2
  <2>3. CASE ~sealed
    <3>1. noise' = noise
      BY <1>8, <2>3
    <3> HIDE DEF sealed
    <3> QED BY <1>6, <2>1, <2>3, <3>1
  <2> QED BY <2>2, <2>3
<1>10. /\ pq_key' \in [Side -> {"none", "shared"}] /\ pq_key'[o] = pq_key[o]
       /\ body.holds = "write ct" => pq_key'[s] = "shared"
       /\ pq_key[s] = "shared" => pq_key'[s] = "shared"
  BY <1>1, <1>8 DEF TransportTypes
<1>11. /\ wire' \in [Side -> Seq(Piece)] /\ wire'[s] = Tail(wire[s]) /\ wire'[o] = wire[o]
       /\ reading' \in [Side -> {"len", "body"}] /\ reading'[s] = "len" /\ reading'[o] = reading[o]
  BY <1>1, <1>7, <1>8 DEF TransportTypes
<1>12. /\ stage' \in [Side -> 1..Open] /\ stage'[s] = n + 1 /\ stage'[o] = stage[o]
  <2>1. stage \in [Side -> 1..Open]
    BY <1>1 DEF TransportTypes
  <2>2. n + 1 \in 1..Open
    BY <1>2 DEF Open
  <2>3. stage' = [stage EXCEPT ![s] = n + 1]
    BY <1>8
  <2> HIDE DEF n
  <2> QED BY <1>1, <2>1, <2>2, <2>3
<1>13. TransportTypes'
  BY <1>1, <1>8, <1>9, <1>10, <1>11, <1>12 DEF TransportTypes
<1>14. InStep'
  BY <1>1, <1>8 DEF InStep, Fits
<1>15. Untouched(o)
  BY <1>8, <1>9, <1>10, <1>11, <1>12 DEF Untouched
<1>16. /\ Placed(o)' /\ Left(o)' /\ Parsed(o)' /\ Begun(o)' = Begun(o)
       /\ HalvesRead(o)' = HalvesRead(o)
  BY <1>1, <1>8, <1>15, UntouchedKeeps
<1>17. HellosBegun(s) = Written(s, n) /\ HellosBegun(s)' = Written(s, n) /\ Begun(s)' = Begun(s)
  <2>1. HellosBegun(s) = Written(s, n) + 0
    BY <1>3 DEF HellosBegun
  <2>2. HellosBegun(s)' = Written(s, stage'[s]) + 0
    BY <1>3, <1>8 DEF HellosBegun
  <2>3. HellosBegun(s)' = Written(s, n) + 0
    BY <1>5, <1>12, <2>2
  <2>4. HellosBegun(s)' = Written(s, n) /\ HellosBegun(s) = Written(s, n)
    BY <1>4, <2>1, <2>3
  <2> QED BY <1>8, <2>4 DEF Begun
<1>18. HalvesRead(s)' = HalvesRead(s) + 1
  <2>1. HalvesRead(s) = 2 * (HellosRead(s, n) + pq[s].recv) + 1
    BY <1>2 DEF HalvesRead
  <2>2. HalvesRead(s)' = 2 * (k + pq[s].recv) + 0
    BY <1>5, <1>8, <1>11, <1>12 DEF HalvesRead
  <2> HIDE DEF n
  <2> QED BY <1>3, <1>4, <2>1, <2>2 DEF k
<1>19. Placed(s)'
  <2>1. Len(out'[s]) <= 2 /\ out'[s] = <<>>
    BY <1>1, <1>3, <1>8 DEF Placed
  <2>2. pq'[s].send = 0 /\ pq'[s].recv = 0
    BY <1>3, <1>8
  <2>3. noise'[s].send = (IF HellosBegun(s)' = Hellos(s) THEN 1 ELSE 0) + pq'[s].send
    BY <1>1, <1>8, <1>9, <1>17 DEF Placed
  <2>4. noise'[s].recv = (IF HellosRead(s, stage'[s]) = Hellos(o) THEN 1 ELSE 0) + pq'[s].recv
    <3> DEFINE bit == IF HellosRead(s, stage'[s]) = Hellos(o) THEN 1 ELSE 0
    <3>1. HellosRead(s, stage'[s]) = Hellos(o) <=> sealed
      BY <1>5, <1>7, <1>12, Zenon
    <3>2. bit = IF sealed THEN 1 ELSE 0
      BY <3>1
    <3>3. noise'[s].recv = bit /\ bit \in Int
      BY <1>9, <3>2
    <3> HIDE DEF bit
    <3>4. noise'[s].recv = bit + pq'[s].recv
      BY <2>2, <3>3
    <3> QED BY <3>4 DEF bit
  <2>5. stage'[s] = Open => pq_key'[s] = "shared"
    <3> SUFFICES ASSUME stage'[s] = Open PROVE pq_key'[s] = "shared"
      OBVIOUS
    <3>1. n + 1 = 6
      BY <1>12 DEF Open
    <3> HIDE DEF n
    <3> QED BY <1>5, <1>7, <1>10, <3>1, Zenon
  <2>6. ~(s = "R" /\ HellosBegun(s)' = Hellos(s))
    BY <1>5, <1>17
  <2> QED BY <2>1, <2>2, <2>3, <2>4, <2>5, <2>6 DEF Placed
<1>20. Left(s)' /\ Parsed(s)'
  <2>1. Left(s) /\ Parsed(s)
    BY DEF TransportInv
  <2> QED BY <1>8, <2>1 DEF Left, Parsed, Live
<1>21. Stream(s)'
  BY <1>8, <1>11, <1>16, <1>17, StreamSame
<1>22. Stream(o)'
  BY <1>1, <1>2, <1>8, <1>11, <1>16, <1>18, StreamReads
<1> QED BY <1>13, <1>14, <1>16, <1>19, <1>20, <1>21, <1>22, BothSides

-----------------------------------------------------------------------------
(* Once the handshake is over its messages are all sent and all read. *)
LEMMA OpenCounts ==
  ASSUME TransportInv, NEW s \in Side, stage[s] = Open
  PROVE  /\ HellosBegun(s) = Hellos(s) /\ HellosRead(s, stage[s]) = Hellos(Other(s))
         /\ noise[s].send = 1 + pq[s].send /\ noise[s].recv = 1 + pq[s].recv
         /\ pq_key[s] = "shared" /\ Begun(s) = Hellos(s) + pq[s].send
<1>1. Placed(s) /\ TransportTypes /\ ~(stage[s] < Open)
  BY DEF TransportInv, Open
<1>2. Written(s, 6) = Hellos(s) /\ HellosRead(s, 6) = Hellos(Other(s))
  BY DEF Written, HellosRead, Hellos, Other, Side
<1>3. stage[s] = 6
  BY DEF Open
<1>4. Hellos(s) \in Nat /\ pq[s].send \in Nat /\ pq[s].recv \in Nat
  BY <1>1, CountsType
<1>5. HellosBegun(s) = Written(s, stage[s]) + 0
  BY <1>1 DEF HellosBegun
<1>6. HellosBegun(s) = Hellos(s) /\ HellosRead(s, stage[s]) = Hellos(Other(s))
  BY <1>2, <1>3, <1>4, <1>5
<1>7. /\ noise[s].send = (IF HellosBegun(s) = Hellos(s) THEN 1 ELSE 0) + pq[s].send
      /\ noise[s].recv = (IF HellosRead(s, stage[s]) = Hellos(Other(s)) THEN 1 ELSE 0) + pq[s].recv
      /\ pq_key[s] = "shared"
  BY <1>1 DEF Placed
<1> QED BY <1>6, <1>7 DEF Begun

LEMMA ChunkType ==
  ASSUME NEW n \in Nat
  PROVE  Chunk(n) \in Nat /\ (Chunk(n) = n <=> n <= CHUNK)
  BY TransportAssumption DEF Chunk

LEMMA HeldType ==
  ASSUME NEW n \in Nat, NEW size \in Nat, NEW chunk \in Nat, NEW held,
         held = [counter |-> n, key |-> "shared", size |-> size, chunk |-> chunk]
  PROVE  /\ held \in Content /\ held.counter = n /\ held.key = "shared" /\ held.size = size
         /\ held.chunk = chunk
  BY DEF Content

LEMMA SendFrameKeeps == ASSUME TransportInv, NEW s \in Side, SendFrame(s) PROVE TransportInv'
<1> DEFINE o == Other(s)
           msgs == payloads[s]
           t == todo[s]
           size == Head(t)
           at == Len(msgs) - Len(t) + 1
           total == msgs[at]
           held == [counter |-> pq[s].send, key |-> pq_key[s], size |-> total, chunk |-> Chunk(size)]
           rest == IF size > CHUNK THEN <<size - CHUNK>> \o Tail(t) ELSE Tail(t)
           sent == pq[s].send
<1>1. o \in Side /\ o # s /\ Other(o) = s /\ TransportTypes /\ InStep /\ Placed(s) /\ Left(s)
  BY Sides DEF TransportInv
<1>2. /\ stage[s] = Open /\ out[s] = <<>> /\ t # <<>> /\ t \in Seq(Nat) /\ msgs \in Seq(Nat)
      /\ sent \in Nat /\ ~(stage[s] < Open)
  <2>1. stage[s] = Open /\ out[s] = <<>> /\ t # <<>>
    BY DEF SendFrame
  <2>2. t \in Seq(Nat) /\ msgs \in Seq(Nat)
    BY <1>1 DEF TransportTypes
  <2>3. sent \in Nat
    BY <1>1, CountsType
  <2> QED BY <2>1, <2>2, <2>3 DEF Open
<1>3. /\ size = t[1] /\ size \in Nat /\ Tail(t) \in Seq(Nat) /\ Len(t) \in Nat /\ Len(t) >= 1
      /\ Len(Tail(t)) = Len(t) - 1 /\ \A i \in 1..Len(Tail(t)) : Tail(t)[i] = t[i + 1]
  <2> HIDE DEF t
  <2> QED BY <1>2, TailElements
<1>4. Len(msgs) \in Nat /\ Len(t) <= Len(msgs) /\ at \in 1..Len(msgs) /\ total \in Nat
  <2>1. Len(msgs) \in Nat
    BY <1>2
  <2>2. Len(t) <= Len(msgs)
    BY <1>1 DEF Left
  <2>3. at \in 1..Len(msgs)
    <3> DEFINE a == Len(t)
               b == Len(msgs)
    <3>1. a \in Nat /\ b \in Nat /\ a >= 1 /\ a <= b
      BY <1>3, <2>1, <2>2
    <3> HIDE DEF a, b
    <3>2. b - a + 1 \in 1..b
      BY <3>1
    <3> QED BY <3>2 DEF a, b
  <2> HIDE DEF msgs, at
  <2> QED BY <1>2, <2>1, <2>2, <2>3
<1>5. /\ payloads' = payloads /\ stage' = stage /\ wire' = wire /\ reading' = reading
      /\ pq_key' = pq_key /\ got' = got
  BY DEF SendFrame
<1>7. CASE TooLarge(total)
  <2>1. /\ error' = [error EXCEPT ![s] = "size"] /\ out' = out /\ noise' = noise /\ pq' = pq /\ todo' = todo
    BY <1>7 DEF SendFrame
  <2>2. TransportTypes'
    BY <1>1, <1>5, <2>1 DEF TransportTypes, Verdicts
  <2>3. error'[s] = "size" /\ error'[o] = error[o]
    BY <1>1, <2>1 DEF TransportTypes
  <2>4. InStep'
    <3>1. at \in DOMAIN payloads[s] /\ TooLarge(payloads[s][at])
      <4>1. DOMAIN msgs = 1..Len(msgs)
        BY <1>2
      <4> HIDE DEF at
      <4> QED BY <1>4, <1>7, <4>1
    <3> HIDE DEF at
    <3>2. \E i \in DOMAIN payloads[s] : TooLarge(payloads[s][i])
      BY <3>1
    <3> QED BY <1>1, <1>5, <2>3, <3>2, Sides DEF InStep, Fits
  <2>5. Untouched(o)
    BY <1>5, <2>1, <2>3 DEF Untouched
  <2>6. /\ Placed(o)' /\ Left(o)' /\ Parsed(o)' /\ Begun(o)' = Begun(o)
        /\ HalvesRead(o)' = HalvesRead(o)
    BY <1>1, <1>5, <2>5, UntouchedKeeps
  <2>7. Begun(s)' = Begun(s) /\ HalvesRead(s)' = HalvesRead(s) /\ HellosBegun(s)' = HellosBegun(s)
    BY <1>5, <2>1 DEF Begun, HalvesRead, HellosBegun
  <2>8. Placed(s)' /\ Left(s)'
    BY <1>1, <1>5, <2>1, <2>7 DEF Placed, Left, Step
  <2>9. Parsed(s)'
    <3>1. Parsed(s)
      BY DEF TransportInv
    <3> QED BY <1>5, <2>3, <3>1 DEF Parsed, Live
  <2>10. Stream(s)'
    BY <1>5, <2>1, <2>6, <2>7, StreamSame
  <2>11. Stream(o)'
    BY <1>1, <1>5, <2>1, <2>6, <2>7, StreamSame
  <2> QED BY <2>2, <2>4, <2>6, <2>8, <2>9, <2>10, <2>11, BothSides
<1>8. CASE ~TooLarge(total)
  <2> DEFINE frame == Frame(1 + sent, held)
  <2>1. /\ HellosBegun(s) = Hellos(s) /\ noise[s].send = 1 + sent /\ pq_key[s] = "shared"
        /\ Begun(s) = Hellos(s) + sent /\ Hellos(s) \in Nat /\ Begun(s) \in Nat
        /\ noise[s].recv = 1 + pq[s].recv
    BY <1>1, <1>2, OpenCounts, CountsType
  <2>2. /\ error' = error /\ out' = [out EXCEPT ![s] = frame]
        /\ noise' = [noise EXCEPT ![s].send = @ + 1] /\ pq' = [pq EXCEPT ![s].send = @ + 1]
        /\ todo' = [todo EXCEPT ![s] = rest]
    <3> HIDE DEF held
    <3>1. /\ error' = error /\ out' = [out EXCEPT ![s] = Frame(noise[s].send, held)]
          /\ noise' = [noise EXCEPT ![s].send = @ + 1] /\ pq' = [pq EXCEPT ![s].send = @ + 1]
          /\ todo' = [todo EXCEPT ![s] = rest]
      BY <1>8, Zenon DEF SendFrame, held
    <3> QED BY <2>1, <3>1, Zenon
  <2>3. /\ held \in Content /\ held.counter = sent /\ held.key = "shared" /\ held.size = total
        /\ held.chunk = Chunk(size)
    <3>1. sent \in Nat /\ total \in Nat /\ Chunk(size) \in Nat
      BY <1>2, <1>3, <1>4, ChunkType
    <3>2. held = [counter |-> sent, key |-> "shared", size |-> total, chunk |-> Chunk(size)]
      BY <2>1
    <3> HIDE DEF sent, total, size, held
    <3> QED BY <3>1, <3>2, HeldType
  <2> HIDE DEF held
  <2>4. /\ frame \in Seq(Piece) /\ Len(frame) = 2 /\ frame # <<>> /\ 1 + sent \in Nat
        /\ frame[2].nonce = 1 + sent /\ frame[2].holds = held
    <3>1. 1 + sent \in Nat
      BY <1>2
    <3>2. frame \in Seq(Piece) /\ Len(frame) = 2 /\ frame[2].nonce = 1 + sent /\ frame[2].holds = held
      BY <2>3, <3>1, FrameType
    <3>3. frame # <<>>
      BY DEF Frame
    <3> QED BY <3>1, <3>2, <3>3
  <2> HIDE DEF frame
  <2>5. /\ noise' \in [Side -> Counters] /\ noise'[s].send = noise[s].send + 1
        /\ noise'[s].recv = noise[s].recv /\ noise'[o] = noise[o]
        /\ pq' \in [Side -> Counters] /\ pq'[s].send = sent + 1
        /\ pq'[s].recv = pq[s].recv /\ pq'[o] = pq[o]
    <3>1. noise \in [Side -> Counters] /\ pq \in [Side -> Counters]
      BY <1>1 DEF TransportTypes
    <3>2. /\ noise' \in [Side -> Counters] /\ noise'[s].send = noise[s].send + 1
          /\ noise'[s].recv = noise[s].recv /\ noise'[o] = noise[o]
      <4>1. noise' = [noise EXCEPT ![s].send = @ + 1]
        BY <2>2
      <4> QED BY <1>1, <3>1, <4>1, SendUp
    <3>3. /\ pq' \in [Side -> Counters] /\ pq'[s].send = pq[s].send + 1
          /\ pq'[s].recv = pq[s].recv /\ pq'[o] = pq[o]
      <4>1. pq' = [pq EXCEPT ![s].send = @ + 1]
        BY <2>2
      <4> QED BY <1>1, <3>1, <4>1, SendUp
    <3> QED BY <3>2, <3>3
  <2>6. /\ rest \in Seq(Nat) /\ Len(rest) <= Len(msgs)
        /\ size <= CHUNK => rest = Tail(t)
    <3> DEFINE tl == Tail(t)
    <3>1. tl \in Seq(Nat) /\ Len(tl) = Len(t) - 1 /\ size \in Nat /\ CHUNK \in Nat
      BY <1>3, TransportAssumption
    <3>2. Len(t) \in Nat /\ Len(msgs) \in Nat /\ Len(t) <= Len(msgs)
      BY <1>3, <1>4
    <3> HIDE DEF tl, size
    <3>3. CASE size > CHUNK
      <4> DEFINE d == size - CHUNK
      <4>1. d \in Nat
        BY <3>1, <3>3
      <4> HIDE DEF d
      <4>2. <<d>> \o tl \in Seq(Nat) /\ Len(<<d>> \o tl) = 1 + Len(tl)
        BY <3>1, <4>1
      <4>3. rest = <<d>> \o tl
        BY <3>3 DEF d, tl
      <4>4. ~(size <= CHUNK)
        BY <3>1, <3>3
      <4>5. Len(rest) <= Len(msgs)
        <5> DEFINE a == Len(rest)
                   b == Len(tl)
                   c == Len(t)
                   e == Len(msgs)
        <5>1. a = 1 + b /\ b = c - 1 /\ c \in Nat /\ e \in Nat /\ c <= e
          BY <3>1, <3>2, <4>2, <4>3, Zenon
        <5> HIDE DEF a, b, c, e
        <5>2. a <= e
          BY <5>1
        <5> QED BY <5>2 DEF a, e
      <4> QED BY <4>2, <4>3, <4>4, <4>5
    <3>4. CASE ~(size > CHUNK)
      <4>1. rest = tl
        BY <3>4 DEF tl
      <4>2. Len(tl) <= Len(msgs)
        BY <3>1, <3>2
      <4> QED BY <3>1, <4>1, <4>2 DEF tl
    <3> QED BY <3>3, <3>4
  <2> HIDE DEF rest
  <2>7. /\ out' \in [Side -> Seq(Piece)] /\ out'[s] = frame /\ out'[o] = out[o]
        /\ todo' \in [Side -> Seq(Nat)] /\ todo'[s] = rest /\ todo'[o] = todo[o]
    BY <1>1, <2>2, <2>4, <2>6 DEF TransportTypes
  <2>8. TransportTypes'
    BY <1>1, <1>5, <2>2, <2>5, <2>7 DEF TransportTypes
  <2>9. InStep'
    BY <1>1, <1>5, <2>2 DEF InStep, Fits
  <2>10. Untouched(o)
    BY <1>5, <2>2, <2>5, <2>7 DEF Untouched
  <2>11. /\ Placed(o)' /\ Left(o)' /\ Parsed(o)' /\ Begun(o)' = Begun(o)
         /\ HalvesRead(o)' = HalvesRead(o)
    BY <1>1, <1>5, <2>10, UntouchedKeeps
  <2>12. HellosBegun(s)' = Hellos(s)
    <3>1. HellosBegun(s)' = Written(s, stage[s]) + 0 /\ HellosBegun(s) = Written(s, stage[s]) + 0
      BY <1>2, <1>5 DEF HellosBegun
    <3> QED BY <2>1, <3>1
  <2>13. Begun(s)' = Begun(s) + 1 /\ HalvesRead(s)' = HalvesRead(s)
    <3>1. Begun(s)' = Hellos(s) + (sent + 1)
      BY <2>5, <2>12 DEF Begun
    <3>2. HalvesRead(s)' = HalvesRead(s)
      BY <1>5, <2>5 DEF HalvesRead
    <3> QED BY <1>2, <2>1, <3>1, <3>2
  <2>14. Placed(s)'
    <3>1. Len(out'[s]) <= 2
      <4>1. Len(out'[s]) = 2
        BY <2>4, <2>7, Zenon
      <4> QED BY <4>1
    <3>2. stage'[s] = Open /\ ~(stage'[s] < Open) /\ pq_key'[s] = "shared"
      BY <1>2, <1>5, <2>1
    <3>3. noise'[s].send = (IF HellosBegun(s)' = Hellos(s) THEN 1 ELSE 0) + pq'[s].send
      <4>1. noise'[s].send = 1 + pq'[s].send
        BY <1>2, <2>1, <2>5
      <4> QED BY <2>12, <4>1
    <3>4. noise'[s].recv = (IF HellosRead(s, stage'[s]) = Hellos(o) THEN 1 ELSE 0) + pq'[s].recv
      BY <1>1, <1>5, <2>5 DEF Placed
    <3> QED BY <3>1, <3>2, <3>3, <3>4 DEF Placed
  <2>15. Whole(msgs, sent) => /\ sent + 1 <= Len(msgs) /\ total = msgs[sent + 1] /\ size = msgs[sent + 1]
                              /\ sent + Len(t) = Len(msgs)
                              /\ \A i \in 1..Len(t) : t[i] = msgs[sent + i]
    <3> SUFFICES ASSUME Whole(msgs, sent)
                 PROVE  /\ sent + 1 <= Len(msgs) /\ total = msgs[sent + 1] /\ size = msgs[sent + 1]
                        /\ sent + Len(t) = Len(msgs)
                        /\ \A i \in 1..Len(t) : t[i] = msgs[sent + i]
      OBVIOUS
    <3>1. sent + Len(t) = Len(msgs) /\ \A i \in 1..Len(t) : t[i] = msgs[sent + i]
      BY <1>1 DEF Left
    <3>2. t[1] = msgs[sent + 1]
      BY <1>3, <3>1
    <3>3. at = sent + 1 /\ sent + 1 <= Len(msgs)
      <4> DEFINE a == Len(t)
                 b == Len(msgs)
      <4>1. a \in Nat /\ b \in Nat /\ a >= 1 /\ sent \in Nat /\ sent + a = b
        BY <1>2, <1>3, <1>4, <3>1
      <4> HIDE DEF a, b, sent
      <4>2. b - a + 1 = sent + 1 /\ sent + 1 <= b
        BY <4>1
      <4> QED BY <4>2 DEF a, b
    <3> QED BY <1>3, <3>1, <3>2, <3>3
  <2>16. Left(s)'
    <3>1. Len(todo'[s]) <= Len(payloads'[s])
      BY <1>5, <2>6, <2>7
    <3>2. ASSUME Whole(msgs, sent + 1)
          PROVE  /\ (sent + 1) + Len(rest) = Len(msgs)
                 /\ \A i \in 1..Len(rest) : rest[i] = msgs[(sent + 1) + i]
      <4>1. Whole(msgs, sent)
        <5> HIDE DEF msgs, sent
        <5> QED BY <1>2, <3>2 DEF Whole
      <4>2. msgs[sent + 1] <= CHUNK
        <5>1. sent + 1 \in DOMAIN msgs /\ sent + 1 \in Nat
          <6>1. DOMAIN msgs = 1..Len(msgs) /\ Len(msgs) \in Nat
            BY <1>2
          <6>2. sent \in Nat /\ sent + 1 <= Len(msgs)
            BY <1>2, <2>15, <4>1
          <6> HIDE DEF sent, msgs
          <6> QED BY <6>1, <6>2
        <5> DEFINE n == sent + 1
        <5> HIDE DEF n, msgs
        <5>2. n \in DOMAIN msgs /\ n \in Nat /\ Whole(msgs, n)
          BY <3>2, <5>1 DEF n
        <5>3. msgs[n] <= CHUNK
          BY <5>2 DEF Whole
        <5> QED BY <5>3 DEF n
      <4>3. rest = Tail(t)
        BY <2>6, <2>15, <4>1, <4>2
      <4>4. (sent + 1) + Len(rest) = Len(msgs)
        <5> DEFINE a == Len(rest)
                   b == Len(t)
                   c == Len(msgs)
        <5>1. a = b - 1 /\ b \in Nat /\ c \in Nat /\ sent \in Nat /\ sent + b = c
          BY <1>2, <1>3, <1>4, <2>15, <4>1, <4>3
        <5> HIDE DEF a, b, c, sent
        <5>2. (sent + 1) + a = c
          BY <5>1
        <5> QED BY <5>2 DEF a, c
      <4>5. ASSUME NEW i \in 1..Len(rest) PROVE rest[i] = msgs[(sent + 1) + i]
        <5>1. i \in Int /\ i + 1 \in 1..Len(t) /\ rest[i] = t[i + 1]
          <6>1. i \in 1..Len(Tail(t)) /\ rest[i] = Tail(t)[i]
            BY <4>3, <4>5
          <6> HIDE DEF t
          <6>2. i \in Int /\ i + 1 \in 1..Len(t) /\ Tail(t)[i] = t[i + 1]
            BY <1>2, <1>3, <6>1
          <6> QED BY <6>1, <6>2
        <5>2. t[i + 1] = msgs[sent + (i + 1)]
          BY <2>15, <4>1, <5>1
        <5>3. sent + (i + 1) = (sent + 1) + i
          <6>1. sent \in Nat /\ i \in Int
            BY <1>2, <5>1
          <6> HIDE DEF sent
          <6> QED BY <6>1
        <5> QED BY <5>1, <5>2, <5>3
      <4> QED BY <4>4, <4>5
    <3> QED BY <1>5, <2>5, <2>7, <3>1, <3>2 DEF Left
  <2>17. Parsed(s)'
    <3>1. Parsed(s)
      BY DEF TransportInv
    <3> QED BY <1>5, <2>2, <2>5, <3>1 DEF Parsed, Live
  <2>18. Stream(s)'
    <3> DEFINE k == Begun(s) + 1
    <3>1. k \in Nat /\ Hellos(s) \in Nat /\ k - Hellos(s) = sent + 1
      <4>1. sent \in Nat /\ Hellos(s) \in Nat /\ Begun(s) = Hellos(s) + sent
        BY <1>2, <2>1
      <4> HIDE DEF sent
      <4> QED BY <4>1
    <3>2. DataFrame(msgs, sent + 1, held)
      <4> DEFINE n == sent + 1
      <4>1. n - 1 = sent
        BY <1>2
      <4>2. held.counter = n - 1 /\ held.key = "shared"
        BY <2>3, <4>1
      <4>3. Whole(msgs, n - 1) => n <= Len(msgs) /\ held.size = msgs[n] /\ held.chunk = Chunk(msgs[n])
        BY <2>3, <2>15, <4>1
      <4> HIDE DEF n
      <4>4. DataFrame(msgs, n, held)
        BY <4>2, <4>3 DEF DataFrame
      <4> QED BY <4>4 DEF n
    <3> HIDE DEF k
    <3>3. k > Hellos(s) /\ ~(k <= Hellos(s)) /\ frame[2].nonce = k - Hellos(s)
      BY <1>2, <2>4, <3>1
    <3>4. Body(s, msgs, k, frame[2])
      BY <2>4, <3>1, <3>2, <3>3 DEF Body
    <3>5. /\ out'[s] = Frame(1 + sent, held) /\ wire'[Other(s)] = wire[Other(s)]
          /\ Body(s, payloads[s], Begun(s) + 1, Frame(1 + sent, held)[2])
      BY <1>5, <2>7, <3>4 DEF frame, k
    <3> QED BY <1>2, <1>5, <2>3, <2>4, <2>11, <2>13, <3>5, StreamBegins
  <2>19. Stream(o)'
    BY <1>1, <1>5, <2>7, <2>11, <2>13, StreamSame
  <2> QED BY <2>8, <2>9, <2>11, <2>14, <2>16, <2>17, <2>18, <2>19, BothSides
<1> QED BY <1>7, <1>8

-----------------------------------------------------------------------------
LEMMA ReadFrameKeeps == ASSUME TransportInv, NEW s \in Side, ReadFrame(s) PROVE TransportInv'
<1> DEFINE o == Other(s)
           msgs == payloads[o]
           body == Head(wire[s])
           verdict == Opens(s, body)
           seen == pq[s].recv
           k == Hellos(o) + seen + 1
<1>1. o \in Side /\ o # s /\ Other(o) = s /\ TransportTypes /\ InStep /\ Placed(s) /\ Left(s) /\ Parsed(s)
  BY Sides DEF TransportInv
<1>2. /\ Live(s) /\ wire[s] # <<>> /\ stage[s] = Open /\ reading[s] = "body"
      /\ msgs \in Seq(Nat) /\ got[s] \in Seq(Nat)
  <2>1. Live(s) /\ wire[s] # <<>> /\ stage[s] = Open /\ reading[s] = "body"
    BY DEF ReadFrame, Reads
  <2> QED BY <1>1, <2>1 DEF TransportTypes
<1>3. /\ HellosRead(s, stage[s]) = Hellos(o) /\ noise[s].recv = 1 + seen /\ pq_key[s] = "shared"
      /\ Hellos(o) \in Nat /\ seen \in Nat /\ k \in Nat /\ noise[s].send \in Nat
  <2>1. /\ HellosRead(s, stage[s]) = Hellos(o) /\ noise[s].recv = 1 + seen /\ pq_key[s] = "shared"
    BY <1>2, OpenCounts
  <2>2. Hellos(o) \in Nat /\ seen \in Nat /\ noise[s].send \in Nat
    BY <1>1, CountsType
  <2>3. k \in Nat
    <3> HIDE DEF seen
    <3> QED BY <2>2
  <2> QED BY <2>1, <2>2, <2>3
<1>4. Len(got[s]) = seen /\ Whole(msgs, seen) /\ Len(msgs) \in Nat /\ DOMAIN msgs = 1..Len(msgs)
  BY <1>1, <1>2 DEF Parsed
<1>5. /\ body.nonce = 1 + seen /\ DataFrame(msgs, seen + 1, body.holds) /\ Tail(wire[s]) \in Seq(Piece)
  <2>1. Tail(wire[s]) \in Seq(Piece) /\ Body(o, msgs, HellosRead(s, stage[s]) + pq[s].recv + 1, body)
    BY <1>2, NextHalf
  <2>2. Body(o, msgs, k, body)
    BY <1>3, <2>1
  <2>3. k > Hellos(o) /\ k - Hellos(o) = seen + 1 /\ k - Hellos(o) = 1 + seen
    <3>1. seen \in Nat /\ Hellos(o) \in Nat
      BY <1>3
    <3> HIDE DEF seen
    <3> QED BY <3>1
  <2> HIDE DEF k, body
  <2> QED BY <2>1, <2>2, <2>3 DEF Body
<1>6. /\ body.holds.counter = seen /\ body.holds.key = "shared"
      /\ seen + 1 \in 1..Len(msgs)
      /\ body.holds.size = msgs[seen + 1] /\ body.holds.chunk = Chunk(msgs[seen + 1])
  <2> DEFINE n == seen + 1
  <2>1. n - 1 = seen /\ n \in Nat /\ n >= 1
    BY <1>3
  <2> HIDE DEF body, msgs, n
  <2>2. DataFrame(msgs, n, body.holds) /\ Whole(msgs, n - 1)
    BY <1>4, <1>5, <2>1 DEF n
  <2>3. /\ body.holds.counter = n - 1 /\ body.holds.key = "shared" /\ n <= Len(msgs)
        /\ body.holds.size = msgs[n] /\ body.holds.chunk = Chunk(msgs[n])
    BY <2>2 DEF DataFrame
  <2>4. n \in 1..Len(msgs)
    BY <1>4, <2>1, <2>3
  <2> QED BY <2>1, <2>3, <2>4 DEF n
<1> DEFINE m == msgs[seen + 1]
<1>7. m \in Nat /\ Chunk(m) \in Nat /\ (Chunk(m) = m <=> m <= CHUNK)
  <2>1. m \in Nat
    BY <1>2, <1>6
  <2> HIDE DEF m
  <2> QED BY <2>1, ChunkType
<1>8. verdict = IF m <= CHUNK THEN "none" ELSE "parse"
  <2>1. body.nonce = noise[s].recv /\ body.holds.counter = pq[s].recv /\ body.holds.key = pq_key[s]
    BY <1>3, <1>5, <1>6
  <2>2. Parses(body.holds) <=> m <= CHUNK
    <3>1. Parses(body.holds) <=> Chunk(m) = m
      <4> HIDE DEF body
      <4> QED BY <1>6 DEF Parses
    <3> HIDE DEF m, body
    <3> QED BY <1>7, <3>1, Zenon
  <2>3. Opens(s, body) = IF Parses(body.holds) THEN "none" ELSE "parse"
    <3> HIDE DEF body
    <3> QED BY <2>1 DEF Opens
  <2> HIDE DEF m, body
  <2> QED BY <2>2, <2>3, Zenon
<1>9. /\ payloads' = payloads /\ stage' = stage /\ out' = out /\ pq_key' = pq_key /\ todo' = todo
      /\ wire' = [wire EXCEPT ![s] = Tail(@)] /\ reading' = [reading EXCEPT ![s] = "len"]
      /\ error' = [error EXCEPT ![s] = verdict]
  BY DEF ReadFrame
<1>10. /\ noise' = [noise EXCEPT ![s].recv = @ + 1] /\ pq' = [pq EXCEPT ![s] = counted(@)]
       /\ got' = IF m <= CHUNK THEN [got EXCEPT ![s] = Append(@, m)] ELSE got
  <2>1. /\ noise' = IF verdict # "noise" THEN [noise EXCEPT ![s].recv = @ + 1] ELSE noise
        /\ pq' = IF verdict \in {"none", "parse"} THEN [pq EXCEPT ![s] = counted(@)] ELSE pq
        /\ got' = IF verdict = "none" THEN [got EXCEPT ![s] = Append(@, body.holds.size)] ELSE got
    BY Zenon DEF ReadFrame
  <2>2. body.holds.size = m
    BY <1>6
  <2> HIDE DEF verdict, m, body
  <2>3. verdict # "noise" /\ verdict \in {"none", "parse"} /\ (verdict = "none" <=> m <= CHUNK)
    BY <1>8
  <2> QED BY <2>1, <2>2, <2>3, Zenon
<1> HIDE DEF verdict, body
<1>11. /\ noise' \in [Side -> Counters] /\ noise'[s].recv = noise[s].recv + 1
       /\ noise'[s].send = noise[s].send /\ noise'[o] = noise[o]
  <2>1. noise \in [Side -> Counters] /\ noise' = [noise EXCEPT ![s].recv = @ + 1]
    BY <1>1, <1>10 DEF TransportTypes
  <2> QED BY <1>1, <2>1, RecvUp
<1>12. /\ pq' \in [Side -> Counters] /\ pq'[s].recv = seen + 1
       /\ pq'[s].send = pq[s].send /\ pq'[o] = pq[o]
  <2>1. pq \in [Side -> Counters] /\ pq' = [pq EXCEPT ![s] = counted(@)]
    BY <1>1, <1>10 DEF TransportTypes
  <2> QED BY <1>1, <2>1, CountedUp
<1>13. /\ wire' \in [Side -> Seq(Piece)] /\ wire'[s] = Tail(wire[s]) /\ wire'[o] = wire[o]
       /\ reading' \in [Side -> {"len", "body"}] /\ reading'[s] = "len" /\ reading'[o] = reading[o]
  BY <1>1, <1>5, <1>9 DEF TransportTypes
<1>14. /\ error' \in [Side -> Verdicts] /\ error'[s] = verdict /\ error'[o] = error[o]
  <2>1. verdict \in Verdicts
    BY <1>8 DEF Verdicts
  <2> QED BY <1>1, <1>9, <2>1 DEF TransportTypes
<1>15. /\ got' \in [Side -> Seq(Nat)] /\ got'[o] = got[o]
       /\ got'[s] = IF m <= CHUNK THEN Append(got[s], m) ELSE got[s]
  <2>1. Append(got[s], m) \in Seq(Nat) /\ got \in [Side -> Seq(Nat)]
    BY <1>1, <1>2, <1>7, AppendElements DEF TransportTypes
  <2> HIDE DEF m
  <2>2. CASE m <= CHUNK
    <3>1. got' = [got EXCEPT ![s] = Append(got[s], m)]
      BY <1>10, <2>2
    <3> QED BY <1>1, <2>1, <2>2, <3>1
  <2>3. CASE ~(m <= CHUNK)
    <3>1. got' = got
      BY <1>10, <2>3
    <3> QED BY <1>1, <2>1, <2>3, <3>1
  <2> QED BY <2>2, <2>3
<1>16. TransportTypes'
  BY <1>1, <1>9, <1>11, <1>12, <1>13, <1>14, <1>15 DEF TransportTypes
<1>17. InStep'
  <2>1. ~(m <= CHUNK) => ~Fits(o)
    <3>1. seen + 1 \in DOMAIN payloads[o] /\ m = payloads[o][seen + 1]
      BY <1>4, <1>6
    <3> HIDE DEF m, seen
    <3> QED BY <3>1 DEF Fits
  <2>2. error'[s] \in {"none", "parse"} /\ (error'[s] = "parse" => ~Fits(o))
    <3> HIDE DEF m
    <3> QED BY <1>8, <1>14, <2>1
  <2>3. error'[s] # "size"
    BY <2>2
  <2>4. Fits(o)' = Fits(o) /\ Fits(s)' = Fits(s)
    BY <1>9 DEF Fits
  <2>5. /\ error'[o] \in {"none", "closed", "size", "parse"}
        /\ error'[o] = "size" => \E i \in DOMAIN payloads'[o] : TooLarge(payloads'[o][i])
        /\ error'[o] = "parse" => ~Fits(s)
    BY <1>1, <1>9, <1>14 DEF InStep
  <2> QED BY <1>1, <2>2, <2>3, <2>4, <2>5, Sides DEF InStep
<1>18. Untouched(o)
  BY <1>9, <1>11, <1>12, <1>13, <1>14, <1>15 DEF Untouched
<1>19. /\ Placed(o)' /\ Left(o)' /\ Parsed(o)' /\ Begun(o)' = Begun(o)
       /\ HalvesRead(o)' = HalvesRead(o)
  BY <1>1, <1>9, <1>18, UntouchedKeeps
<1>20. HellosBegun(s)' = HellosBegun(s) /\ Begun(s)' = Begun(s)
  BY <1>9, <1>12 DEF HellosBegun, Begun
<1>21. HalvesRead(s)' = HalvesRead(s) + 1
  <2>1. HalvesRead(s) = 2 * (Hellos(o) + seen) + 1
    BY <1>2, <1>3 DEF HalvesRead
  <2>2. HalvesRead(s)' = 2 * (Hellos(o) + (seen + 1)) + 0
    BY <1>3, <1>9, <1>12, <1>13 DEF HalvesRead
  <2>3. Hellos(o) \in Nat /\ seen \in Nat
    BY <1>3
  <2> HIDE DEF seen
  <2> QED BY <2>1, <2>2, <2>3
<1>22. Placed(s)'
  <2>1. stage'[s] = Open /\ ~(stage'[s] < Open) /\ pq_key'[s] = "shared"
    BY <1>2, <1>3, <1>9 DEF Open
  <2>2. Len(out'[s]) <= 2
    BY <1>1, <1>9 DEF Placed
  <2>3. noise'[s].send = (IF HellosBegun(s)' = Hellos(s) THEN 1 ELSE 0) + pq'[s].send
    BY <1>1, <1>11, <1>12, <1>20 DEF Placed
  <2>4. noise'[s].recv = (IF HellosRead(s, stage'[s]) = Hellos(o) THEN 1 ELSE 0) + pq'[s].recv
    <3>1. noise'[s].recv = 1 + pq'[s].recv
      <4>1. noise'[s].recv = (1 + seen) + 1 /\ pq'[s].recv = seen + 1 /\ seen \in Nat
        BY <1>3, <1>11, <1>12
      <4> HIDE DEF seen
      <4> QED BY <4>1
    <3>2. HellosRead(s, stage'[s]) = Hellos(o)
      BY <1>3, <1>9
    <3> QED BY <3>1, <3>2
  <2> QED BY <2>1, <2>2, <2>3, <2>4 DEF Placed
<1>23. Left(s)'
  BY <1>1, <1>9, <1>12 DEF Left
<1>24. Parsed(s)'
  <2>1. CASE m <= CHUNK
    <3>1. got'[s] = Append(got[s], m)
      BY <1>15, <2>1
    <3>2. /\ Len(got'[s]) = seen + 1 /\ got'[s][seen + 1] = m
          /\ \A i \in 1..seen : got'[s][i] = got[s][i]
      <4>1. /\ Len(Append(got[s], m)) = Len(got[s]) + 1 /\ Append(got[s], m)[Len(got[s]) + 1] = m
            /\ \A i \in 1..Len(got[s]) : Append(got[s], m)[i] = got[s][i]
        BY <1>2, <1>7, AppendElements
      <4> QED BY <1>4, <3>1, <4>1, Zenon
    <3>3. Len(got'[s]) <= Len(msgs)
      BY <1>4, <1>6, <3>2
    <3>4. ASSUME NEW i \in 1..Len(got'[s]) PROVE got'[s][i] = msgs[i]
      <4>1. i \in 1..(seen + 1)
        BY <3>2
      <4>2. i = seen + 1 \/ i \in 1..seen
        <5>1. seen \in Nat
          BY <1>3
        <5> HIDE DEF seen
        <5> QED BY <4>1, <5>1
      <4>3. CASE i = seen + 1
        BY <3>2, <4>3
      <4>4. CASE i \in 1..seen
        <5>1. got[s][i] = msgs[i]
          BY <1>1, <1>4, <4>4 DEF Parsed
        <5> QED BY <3>2, <4>4, <5>1
      <4> QED BY <4>2, <4>3, <4>4
    <3>5. Whole(msgs, seen + 1)
      <4> SUFFICES ASSUME NEW i \in DOMAIN msgs, i <= seen + 1 PROVE msgs[i] <= CHUNK
        BY DEF Whole
      <4>1. i \in Nat /\ seen \in Nat
        BY <1>3, <1>4
      <4>2. CASE i = seen + 1
        BY <2>1, <4>2
      <4>3. CASE i # seen + 1
        <5>1. i <= seen
          <6> HIDE DEF seen
          <6> QED BY <4>1, <4>3
        <5> QED BY <1>4, <5>1 DEF Whole
      <4> QED BY <4>2, <4>3
    <3> QED BY <1>9, <1>12, <3>2, <3>3, <3>4, <3>5 DEF Parsed
  <2>2. CASE ~(m <= CHUNK)
    <3>1. got'[s] = got[s]
      BY <1>15, <2>2
    <3>2. ~Live(s)'
      <4>1. error'[s] = "parse"
        BY <1>8, <1>14, <2>2
      <4> QED BY <4>1 DEF Live
    <3> QED BY <1>1, <1>9, <3>1, <3>2 DEF Parsed
  <2> QED BY <2>1, <2>2
<1>25. Stream(s)'
  BY <1>9, <1>13, <1>19, <1>20, StreamSame
<1>26. Stream(o)'
  BY <1>1, <1>2, <1>9, <1>13, <1>19, <1>21, StreamReads
<1> QED BY <1>16, <1>17, <1>19, <1>22, <1>23, <1>24, <1>25, <1>26, BothSides

-----------------------------------------------------------------------------
LEMMA NextTransport == TransportInv /\ [ConnectionNext]_connectionVars => TransportInv'
<1> SUFFICES ASSUME TransportInv, [ConnectionNext]_connectionVars PROVE TransportInv'
  OBVIOUS
<1>1. CASE UNCHANGED connectionVars
  <2>1. /\ payloads' = payloads /\ stage' = stage /\ out' = out /\ wire' = wire /\ reading' = reading
        /\ noise' = noise /\ pq' = pq /\ pq_key' = pq_key /\ todo' = todo /\ got' = got
        /\ error' = error
    BY <1>1 DEF connectionVars
  <2>2. TransportTypes' /\ InStep'
    BY <2>1 DEF TransportInv, TransportTypes, InStep, Fits
  <2>3. ASSUME NEW s \in Side PROVE Placed(s)' /\ Left(s)' /\ Stream(s)' /\ Parsed(s)'
    <3>1. \A x \in Side : Untouched(x)
      BY <2>1 DEF Untouched
    <3>2. Other(s) \in Side
      BY Sides
    <3>3. /\ Placed(s)' /\ Left(s)' /\ Parsed(s)' /\ Begun(s)' = Begun(s)
          /\ HalvesRead(Other(s))' = HalvesRead(Other(s))
      BY <2>1, <3>1, <3>2, UntouchedKeeps
    <3> QED BY <2>1, <3>3, StreamSame
  <2> QED BY <2>2, <2>3 DEF TransportInv
<1>2. CASE ConnectionNext
  <2>1. PICK s \in Side : Reading(s) \/ Writing(s) \/ Closed(s)
    BY <1>2 DEF ConnectionNext
  <2>2. CASE Reading(s)
    BY <2>2, ReadLenKeeps, ReadHandshakeKeeps, ReadFrameKeeps DEF Reading
  <2>3. CASE Writing(s)
    BY <2>3, HandshakeWriteKeeps, WriteKeeps, SendFrameKeeps DEF Writing
  <2>4. CASE Closed(s)
    BY <2>4, ClosedKeeps
  <2> QED BY <2>1, <2>2, <2>3, <2>4
<1> QED BY <1>1, <1>2

LEMMA TransportAgrees == TransportInv => SidesAgree
<1> SUFFICES ASSUME TransportInv PROVE SidesAgree
  OBVIOUS
<1>1. InStep /\ TransportTypes
  BY DEF TransportInv
<1>2. ASSUME NEW s \in Side PROVE IsPrefix(got[s], payloads[Other(s)])
  <2> DEFINE q == got[s]
             msgs == payloads[Other(s)]
  <2>1. q \in Seq(Nat) /\ msgs \in Seq(Nat)
    BY <1>1, Sides DEF TransportTypes
  <2>2. Len(q) <= Len(msgs) /\ \A i \in 1..Len(q) : q[i] = msgs[i]
    BY DEF TransportInv, Parsed
  <2> HIDE DEF q, msgs
  <2>3. SubSeq(q, 1, Len(q)) = SubSeq(msgs, 1, Len(q))
    BY <2>1, <2>2
  <2>4. IsPrefix(q, msgs)
    BY <2>1, <2>2, <2>3 DEF IsPrefix
  <2> QED BY <2>4 DEF q, msgs
<1> QED BY <1>1, <1>2 DEF SidesAgree, InOrder

(* Whatever the two sides have to send, whatever their reads and writes interleave
   and wherever the connection breaks: what a side reads is what the other sent, in
   order, and nothing but a too large message or one of several frames makes a side
   close (noise.rs noise_send and recv_raw, peer.rs send_raw and recv). *)
THEOREM SidesStayInStep == ConnectionSpec => []SidesAgree
<1>1. ConnectionInit => TransportInv
  BY InitTransport
<1>2. TransportInv /\ [ConnectionNext]_connectionVars => TransportInv'
  BY NextTransport
<1>3. TransportInv => SidesAgree
  BY TransportAgrees
<1> QED BY <1>1, <1>2, <1>3, PTL DEF ConnectionSpec
=============================================================================
