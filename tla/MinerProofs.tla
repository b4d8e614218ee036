---------------------------- MODULE MinerProofs ----------------------------
(***************************************************************************)
(* The miners: OneWinner for any miners, tokens, limits, templates and     *)
(* peers, the ones that bring another branch to the top included;          *)
(* NothingSkipped and StopsSoon for every set of winning nonces, every     *)
(* chunk size and every check interval.                                    *)
(***************************************************************************)
EXTENDS RpcServer, NonceSearch, TLAPS

(* A block that was built on the active branch and won there is not above the
   tip; no branch was active at an answer that has not taken over yet.      *)
WinsBelowTip ==
  /\ height \in Nat /\ branch \in Nat
  /\ \A w \in won :
       /\ w.height \in Nat /\ w.at \in Nat /\ w.at <= branch
       /\ w.built = w.at /\ w.at = branch => w.height <= height

WinInv == WinsBelowTip /\ OneWinner

(* The initial state has no winner. *)
LEMMA InitWin == Init => WinInv
  BY DEF Init, WinInv, WinsBelowTip, OneWinner

(* A block of the active branch wins only at the height above the tip, which
   nobody has won on that branch: the check of the height under the chain
   lock.  A block of a branch that was left may win a height again.         *)
LEMMA AcceptedWin ==
  ASSUME WinInv, NEW c \in Miner, SubmitAccepted(c)
  PROVE  WinInv'
<1> DEFINE t == template[c]
           new == [client |-> c, height |-> t.height + 1, built |-> t.branch, at |-> branch]
<1>1. won' = won \cup {new} /\ t.height = height /\ Added(t)
  BY DEF SubmitAccepted, Current
<1>2. /\ height \in Nat /\ branch \in Nat
      /\ new.height = height + 1 /\ new.at = branch /\ new.built = t.branch
  BY <1>1 DEF WinInv, WinsBelowTip
<1>3. \A w \in won :
        /\ w.height \in Nat /\ w.at \in Nat /\ w.at <= branch
        /\ w.built = w.at /\ w.at = branch => w.height <= height
  BY DEF WinInv, WinsBelowTip
<1>4. \/ t.branch = branch /\ height' = height + 1 /\ branch' = branch
      \/ t.branch # branch /\ height' = height + 1 /\ branch' = branch + 1
      \/ t.branch # branch /\ height' = height /\ branch' = branch
  BY <1>1 DEF Added, chain
<1> HIDE DEF new, t
<1>5. WinsBelowTip'
  <2>1. height' \in Nat /\ branch' \in Nat
    BY <1>2, <1>4
  <2>2. ASSUME NEW w \in won
        PROVE  /\ w.height \in Nat /\ w.at \in Nat /\ w.at <= branch'
               /\ w.built = w.at /\ w.at = branch' => w.height <= height'
    BY <1>2, <1>3, <1>4
  <2>3. /\ new.height \in Nat /\ new.at \in Nat /\ new.at <= branch'
        /\ new.built = new.at /\ new.at = branch' => new.height <= height'
    BY <1>2, <1>4
  <2> QED
    BY <1>1, <2>1, <2>2, <2>3 DEF WinsBelowTip
<1>6. ASSUME NEW w \in won, new.built = new.at, w.built = w.at, w.at = new.at
      PROVE  w.height # new.height
  BY <1>2, <1>3, <1>6
<1>7. OneWinner'
  <2> SUFFICES ASSUME NEW v \in won', NEW w \in won',
                      v.height = w.height, {v.built, v.at, w.built} = {w.at}
               PROVE  v = w
    BY DEF OneWinner
  <2>1. v.built = w.at /\ v.at = w.at /\ w.built = w.at
    OBVIOUS
  <2>2. CASE v \in won /\ w \in won
    BY <2>2 DEF WinInv, OneWinner
  <2>3. CASE v \in won /\ w = new
    BY <1>6, <2>1, <2>3
  <2>4. CASE v = new /\ w \in won
    BY <1>6, <2>1, <2>4
  <2> QED
    BY <1>1, <2>2, <2>3, <2>4
<1> QED
  BY <1>5, <1>7 DEF WinInv

(* Peers extend the branch or bring another one; nothing else changes the chain
   or who has won.                                                          *)
LEMMA StepWin == WinInv /\ [Next]_vars => WinInv'
<1> SUFFICES ASSUME WinInv, [Next]_vars
             PROVE  WinInv'
  OBVIOUS
<1>1. ASSUME NEW c \in Miner, SubmitAccepted(c)
      PROVE  WinInv'
  BY <1>1, AcceptedWin
<1>2. CASE UNCHANGED <<height, branch, won>>
  BY <1>2 DEF WinInv, WinsBelowTip, OneWinner
<1>3. CASE PeerBlock
  <2>1. height' = height + 1 /\ branch' = branch /\ won' = won
    BY <1>3 DEF PeerBlock
  <2> QED
    BY <2>1 DEF WinInv, WinsBelowTip, OneWinner
<1>4. CASE PeerReorganises
  <2>1. height' \in Nat /\ branch' = branch + 1 /\ won' = won
    BY <1>4, RpcAssumption DEF PeerReorganises
  <2> QED
    BY <2>1 DEF WinInv, WinsBelowTip, OneWinner
<1>5. ASSUME NEW c \in Miner, FetchTemplate(c) \/ SubmitRefused(c)
      PROVE  UNCHANGED <<height, branch, won>>
  BY <1>5 DEF FetchTemplate, SubmitRefused, chain
<1>6. ASSUME NEW c \in Poller, Poll(c)
      PROVE  UNCHANGED <<height, branch, won>>
  BY <1>6 DEF Poll, chain
<1>7. PeerTransaction \/ MinutePasses \/ UNCHANGED vars => UNCHANGED <<height, branch, won>>
  BY DEF PeerTransaction, MinutePasses, vars, chain
<1> QED
  BY <1>1, <1>2, <1>3, <1>4, <1>5, <1>6, <1>7 DEF Next, SubmitBlock

(* Of the miners that race through the RPC on one branch, each height is
   reported won to one at most, whatever peers, limits and tokens do in
   between.  A height may be won once more after a reorganisation.          *)
THEOREM OneWinnerHolds == Spec => []OneWinner
<1>1. WinInv => OneWinner
  BY DEF WinInv
<1> QED
  BY InitWin, StepWin, <1>1, PTL DEF Spec

-----------------------------------------------------------------------------
(* The nonce search of the mobile library. *)

NonceTypes ==
  /\ wins \in SUBSET Nat /\ first \in Nat
  /\ nonce \in Nat /\ end_nonce \in Nat
  /\ pc \in {"idle", "mining", "found"}

(* Between calls that were not interrupted the search stands at the end of the
   last chunk, so that the next one takes up where it left off; in a call it
   does not pass the end of the chunk.                                      *)
ChunksMeet ==
  /\ pc = "idle" /\ ~stop_flag => nonce = end_nonce
  /\ pc = "mining" => nonce <= end_nonce

NonceInv == NonceTypes /\ ChunksMeet /\ NothingSkipped

(* A search starts at its first nonce. *)
LEMMA InitNonce == SearchInit => NonceInv
<1> SUFFICES ASSUME SearchInit PROVE NonceInv
  OBVIOUS
<1>1. wins \in SUBSET Nat /\ first \in Nat
  BY NonceAssumption DEF SearchInit
<1> QED
  BY <1>1 DEF SearchInit, NonceInv, NonceTypes, ChunksMeet, NothingSkipped

(* A hash moves on by one nonce, and only past one that does not win. *)
LEMMA HashNonce == NonceInv /\ Hash => NonceInv'
<1> SUFFICES ASSUME NonceInv, Hash PROVE NonceInv'
  OBVIOUS
<1> USE DEF NonceInv
<1>1. CASE nonce \in wins
  <2>1. /\ pc' = "found" /\ nonce' = nonce
        /\ UNCHANGED <<wins, first, end_nonce, stop_flag>>
    BY <1>1 DEF Hash, Candidate
  <2> QED
    BY <2>1 DEF NonceTypes, ChunksMeet, NothingSkipped
<1>2. CASE nonce \notin wins
  <2>1. /\ pc' = pc /\ pc = "mining" /\ nonce' = nonce + 1 /\ nonce < end_nonce
        /\ UNCHANGED <<wins, first, end_nonce, stop_flag>>
    BY <1>2 DEF Hash, Candidate
  <2>2. NonceTypes' /\ ChunksMeet'
    BY <2>1 DEF NonceTypes, ChunksMeet
  <2>3. ASSUME ~stop_flag', NEW w \in wins', w >= first'
        PROVE  w >= nonce'
    <3>1. w \in Nat /\ w >= nonce /\ w # nonce
      BY <1>2, <2>1, <2>3 DEF NonceTypes, NothingSkipped
    <3> QED
      BY <2>1, <3>1 DEF NonceTypes
  <2> QED
    BY <2>2, <2>3 DEF NothingSkipped
<1> QED
  BY <1>1, <1>2

(* Each step of the search, of its caller and of the thread that interrupts it
   keeps the invariant.                                                     *)
LEMMA StepNonce == NonceInv /\ [SearchNext]_searchVars => NonceInv'
<1> SUFFICES ASSUME NonceInv, [SearchNext]_searchVars PROVE NonceInv'
  OBVIOUS
<1> USE DEF NonceInv
<1>1. CASE Call
  BY <1>1, NonceAssumption DEF Call, NonceTypes, ChunksMeet, NothingSkipped
<1>2. CASE NotFound
  <2>1. /\ pc = "mining" /\ pc' = "idle" /\ (nonce >= end_nonce \/ stop_flag)
        /\ UNCHANGED <<wins, first, nonce, end_nonce, stop_flag>>
    BY <1>2 DEF NotFound
  <2> QED
    BY <2>1 DEF NonceTypes, ChunksMeet, NothingSkipped
<1>3. CASE Hash
  BY <1>3, HashNonce
<1>4. CASE SetFlag
  BY <1>4 DEF SetFlag, NonceTypes, ChunksMeet, NothingSkipped
<1>5. CASE NewTemplate
  <2>1. wins' \in SUBSET Nat /\ first' \in Nat /\ nonce' = first' /\ end_nonce' = first' /\ pc' = "idle"
    BY <1>5, NonceAssumption DEF NewTemplate, Template
  <2> QED
    BY <2>1 DEF NonceTypes, ChunksMeet, NothingSkipped
<1>6. CASE UNCHANGED searchVars
  BY <1>6 DEF searchVars, NonceTypes, ChunksMeet, NothingSkipped
<1> QED
  BY <1>1, <1>2, <1>3, <1>4, <1>5, <1>6 DEF SearchNext

(* No nonce that meets the target is passed over, for any chunk size and any
   interval of flag checks: arkos_mine and the loop its caller runs.        *)
THEOREM NothingSkippedHolds == SearchSpec => []NothingSkipped
<1>1. NonceInv => NothingSkipped
  BY DEF NonceInv
<1> QED
  BY InitNonce, StepNonce, <1>1, PTL DEF SearchSpec

-----------------------------------------------------------------------------
(* Division, as the interval of the flag checks uses it. *)
LEMMA DivMod ==
  ASSUME NEW k \in Nat \ {0}, NEW n \in Nat
  PROVE  n % k \in 0 .. k - 1 /\ n = k * (n \div k) + (n % k) /\ n \div k \in Nat
  OBVIOUS

LEMMA RemainderIs ==
  ASSUME NEW k \in Nat \ {0}, NEW n \in Nat, NEW q \in Nat, NEW r \in 0 .. k - 1, n = k * q + r
  PROVE  n % k = r
  OBVIOUS

(* Until it is zero again, the remainder counts up. *)
LEMMA RemainderCounts ==
  ASSUME NEW k \in Nat \ {0}, NEW n \in Nat, (n + 1) % k # 0
  PROVE  (n + 1) % k = (n % k) + 1
<1> DEFINE q == n \div k
           r == n % k
<1>1. q \in Nat /\ r \in 0 .. k - 1 /\ n = k * q + r
  BY DivMod
<1> HIDE DEF q, r
<1>2. CASE r < k - 1
  <2>1. r + 1 \in 0 .. k - 1 /\ n + 1 = k * q + (r + 1) /\ n + 1 \in Nat
    BY <1>1, <1>2
  <2>2. (n + 1) % k = r + 1
    BY <1>1, <2>1, RemainderIs
  <2> QED BY <2>2 DEF r
<1>3. CASE r = k - 1
  <2>1. q + 1 \in Nat /\ 0 \in 0 .. k - 1 /\ n + 1 = k * (q + 1) + 0 /\ n + 1 \in Nat
    BY <1>1, <1>3
  <2>2. (n + 1) % k = 0
    BY <1>1, <2>1, RemainderIs
  <2> QED BY <2>2
<1> QED BY <1>1, <1>2, <1>3

(* Hashes since the flag was set are nonces since a multiple of the interval:
   the call would have looked at the flag and returned there.               *)
StopInv ==
  /\ hashes \in 0 .. CHECK_INTERVAL
  /\ ~stop_flag => hashes = 0
  /\ pc = "mining" /\ hashes > 0 => nonce > 0 /\ hashes <= (nonce - 1) % CHECK_INTERVAL

LEMMA HashStops ==
  ASSUME NonceInv, StopInv, Hash
  PROVE  StopInv'
<1> DEFINE k == CHECK_INTERVAL
<1>1. k \in Nat \ {0} /\ nonce \in Nat /\ hashes \in Nat
  BY NonceAssumption DEF NonceInv, NonceTypes, StopInv
<1>2. stop_flag' = stop_flag
  BY DEF Hash
<1>3. CASE ~stop_flag
  BY <1>1, <1>2, <1>3 DEF Hash, StopInv
<1>4. CASE stop_flag
  <2>1. pc = "mining" /\ nonce % k # 0 /\ hashes' = hashes + 1
    BY <1>4 DEF Hash, LooksAtFlag
  <2>2. nonce % k \in 0 .. k - 1
    BY <1>1, DivMod
  <2>3. hashes + 1 <= nonce % k
    <3>1. CASE hashes = 0
      BY <2>1, <2>2, <3>1
    <3>2. CASE hashes > 0
      <4> DEFINE m == nonce - 1
      <4>1. m \in Nat /\ m + 1 = nonce /\ hashes <= m % k
        BY <1>1, <2>1, <3>2 DEF StopInv
      <4> HIDE DEF m
      <4>2. (m + 1) % k = (m % k) + 1 /\ m % k \in 0 .. k - 1
        BY <1>1, <2>1, <4>1, RemainderCounts, DivMod
      <4> QED BY <1>1, <4>1, <4>2
    <3> QED BY <1>1, <3>1, <3>2
  <2>4. pc' = "mining" => nonce' = nonce + 1
    BY DEF Hash
  <2>5. pc' = "mining" => nonce' > 0 /\ nonce' - 1 = nonce
    BY <1>1, <2>4
  <2>6. hashes' \in 0 .. CHECK_INTERVAL
    BY <1>1, <2>1, <2>2, <2>3
  <2> QED BY <1>2, <1>4, <2>1, <2>3, <2>5, <2>6 DEF StopInv
<1> QED BY <1>3, <1>4

(* A call that was told to stop returns within CHECK_INTERVAL hashes, wherever
   its range begins and however the interval divides the chunks.            *)
THEOREM StopsSoonHolds == SearchSpec => []StopsSoon
<1>1. SearchInit => StopInv
  BY NonceAssumption DEF SearchInit, StopInv
<1>2. NonceInv /\ StopInv /\ [SearchNext]_searchVars => StopInv'
  <2> SUFFICES ASSUME NonceInv, StopInv, [SearchNext]_searchVars PROVE StopInv'
    OBVIOUS
  <2>1. CASE Call
    BY <2>1 DEF Call, StopInv
  <2>2. CASE NotFound
    BY <2>2 DEF NotFound, StopInv
  <2>3. CASE Hash
    BY <2>3, HashStops
  <2>4. CASE SetFlag
    BY <2>4 DEF SetFlag, StopInv
  <2>5. CASE NewTemplate
    BY <2>5, NonceAssumption DEF NewTemplate, Template, StopInv
  <2>6. CASE UNCHANGED searchVars
    BY <2>6 DEF searchVars, StopInv
  <2> QED BY <2>1, <2>2, <2>3, <2>4, <2>5, <2>6 DEF SearchNext
<1>3. StopInv => StopsSoon
  BY NonceAssumption DEF StopInv, StopsSoon
<1> QED
  BY InitNonce, StepNonce, <1>1, <1>2, <1>3, PTL DEF SearchSpec
=============================================================================
