--------------------------- MODULE SecurityProofs ---------------------------
(***************************************************************************)
(* The limiter, the revocation list, the vault file and the sends of a     *)
(* wallet, for any peers, tokens, labels, days, amounts and limits and any *)
(* number of commands.                                                     *)
(***************************************************************************)
EXTENDS SumLemmas, Vault, AccessTokens, RateLimiter, WalletSend

-----------------------------------------------------------------------------
(* The limiter. *)

(* The windows w and the order s are in step. *)
InStep(w, s) == s \in Seq(Peer) /\ Distinct(s) /\ ToSet(s) = DOMAIN w

OrderInv == InStep(windows, insertion_order)

(* A peer enters at the end. *)
LEMMA EnterInStep ==
  ASSUME NEW w, NEW s, InStep(w, s), NEW p \in Peer, NEW v, DOMAIN v = DOMAIN w \cup {p}
  PROVE  /\ InStep(v, Enter(s, w, p))
         /\ Len(Enter(s, w, p)) = IF p \in DOMAIN w THEN Len(s) ELSE Len(s) + 1
<1>0. s \in Seq(Peer) /\ Distinct(s) /\ ToSet(s) = DOMAIN w
  BY DEF InStep
<1>1. CASE p \in DOMAIN w
  BY <1>0, <1>1 DEF Enter, InStep
<1>2. CASE p \notin DOMAIN w
  <2> DEFINE t == Append(s, p)
  <2>1. /\ t \in Seq(Peer) /\ Len(t) = Len(s) + 1 /\ t[Len(s) + 1] = p
        /\ \A k \in 1..Len(s) : t[k] = s[k]
    BY <1>0, AppendElements
  <2>2. ToSet(t) = DOMAIN v
    BY <1>0, AppendSet
  <2>3. Enter(s, w, p) = t
    BY <1>2 DEF Enter
  <2> HIDE DEF t
  <2>4. Len(s) \in Nat /\ \A k \in 1..Len(s) : s[k] # p
    BY <1>0, <1>2 DEF ToSet
  <2>5. Distinct(t)
    BY <1>0, <2>1, <2>4 DEF Distinct
  <2> QED BY <1>2, <2>1, <2>2, <2>3, <2>5 DEF InStep
<1> QED BY <1>1, <1>2

(* The first inserted goes from both. *)
LEMMA EvictInStep ==
  ASSUME NEW w, NEW s, InStep(w, s), s # <<>>
  PROVE  LET t == Kept(s, Peer \ {Head(s)})
         IN  /\ InStep(Without(w, Head(s)), t) /\ Len(t) = Len(s) - 1
             /\ DOMAIN Without(w, Head(s)) \subseteq DOMAIN w
<1> DEFINE t == Kept(s, Peer \ {Head(s)})
<1>0. s \in Seq(Peer) /\ Distinct(s) /\ ToSet(s) = DOMAIN w
  BY DEF InStep
<1>1. t \in Seq(Peer) /\ Rest(t, s, 1)
  BY <1>0, KeptWithoutFirst
<1> HIDE DEF t
<1>2. /\ Len(t) = Len(s) - 1 /\ Len(s) \in Nat /\ Len(s) >= 1 /\ Head(s) = s[1]
      /\ \A i \in 1 .. Len(s) - 1 : t[i] = s[i + 1]
      /\ DOMAIN s = 1..Len(s) /\ DOMAIN t = 1 .. Len(s) - 1
  BY <1>0, <1>1 DEF Rest
<1>3. Distinct(t)
  <2> SUFFICES ASSUME NEW i \in 1..Len(t), NEW j \in 1..Len(t), t[i] = t[j] PROVE i = j
    BY DEF Distinct
  <2>1. i + 1 \in 1..Len(s) /\ j + 1 \in 1..Len(s) /\ s[i + 1] = s[j + 1]
    BY <1>2
  <2>2. i + 1 = j + 1
    BY <1>0, <2>1 DEF Distinct
  <2> QED BY <2>2
<1>4. ToSet(t) = ToSet(s) \ {Head(s)}
  <2>1. ASSUME NEW x \in ToSet(t) PROVE x \in ToSet(s) \ {Head(s)}
    <3>1. PICK i \in 1 .. Len(s) - 1 : x = t[i]
      BY <1>2, <2>1 DEF ToSet
    <3>2. i + 1 \in 1..Len(s) /\ i + 1 # 1 /\ 1 \in 1..Len(s) /\ x = s[i + 1]
      BY <1>2, <3>1
    <3>3. s[i + 1] # s[1]
      BY <1>0, <3>2 DEF Distinct
    <3> QED BY <1>2, <3>2, <3>3 DEF ToSet
  <2>2. ASSUME NEW x \in ToSet(s) \ {Head(s)} PROVE x \in ToSet(t)
    <3>1. PICK i \in 1..Len(s) : x = s[i]
      BY <1>2, <2>2 DEF ToSet
    <3>2. i # 1
      BY <1>2, <2>2, <3>1
    <3>3. i - 1 \in 1 .. Len(s) - 1 /\ (i - 1) + 1 = i
      BY <1>2, <3>1, <3>2
    <3>4. x = t[i - 1]
      BY <1>2, <3>1, <3>3
    <3> QED BY <1>2, <3>3, <3>4 DEF ToSet
  <2> QED BY <2>1, <2>2
<1>5. DOMAIN Without(w, Head(s)) = DOMAIN w \ {Head(s)}
  BY DEF Without
<1> QED BY <1>0, <1>1, <1>2, <1>3, <1>4, <1>5 DEF InStep, t

(* The order when p has been checked, and how long it is. *)
LEMMA CheckOrder ==
  ASSUME OrderInv, NEW p \in Peer, Check(p)
  PROVE  /\ OrderInv'
         /\ \/ Len(insertion_order') <= Len(insertion_order)
            \/ Len(insertion_order') <= MAX_TRACKED_PEERS
<1> DEFINE w == Evict(p).windows
           s == Evict(p).order
<1>1. DOMAIN windows' = DOMAIN w \cup {p} /\ insertion_order' = Enter(s, w, p)
  BY DEF Check, With
<1>2. /\ InStep(w, s) /\ Len(s) \in Nat
      /\ p \in Tracked => Len(s) = Len(insertion_order) /\ p \in DOMAIN w
      /\ p \notin Tracked => Len(s) < MAX_TRACKED_PEERS \/ Len(s) < Len(insertion_order)
  <2>0. /\ Len(insertion_order) \in Nat /\ Cardinality(Tracked) = Len(insertion_order)
        /\ MAX_TRACKED_PEERS \in Nat \ {0}
    BY DistinctLength, LimiterAssumption DEF OrderInv, InStep, Tracked
  <2> DEFINE full == p \notin Tracked /\ Cardinality(Tracked) >= MAX_TRACKED_PEERS /\ insertion_order # <<>>
  <2>1. CASE full
    <3> DEFINE t == Kept(insertion_order, Peer \ {Head(insertion_order)})
               v == Without(windows, Head(insertion_order))
    <3>1. w = v /\ s = t
      BY <2>1 DEF Evict
    <3>2. InStep(v, t) /\ Len(t) = Len(insertion_order) - 1
      BY <2>1, EvictInStep DEF OrderInv
    <3>3. Len(t) \in Nat
      BY <3>2 DEF InStep
    <3> HIDE DEF w, s, t, v
    <3> QED BY <2>0, <2>1, <3>1, <3>2, <3>3
  <2>2. CASE ~full
    <3>1. w = windows /\ s = insertion_order
      BY <2>2 DEF Evict
    <3>2. insertion_order = <<>> => Len(insertion_order) = 0
      OBVIOUS
    <3> HIDE DEF w, s
    <3> QED BY <2>0, <2>2, <3>1, <3>2 DEF OrderInv, Tracked
  <2> QED BY <2>1, <2>2
<1> HIDE DEF w, s
<1>3. /\ InStep(windows', insertion_order')
      /\ Len(insertion_order') = IF p \in DOMAIN w THEN Len(s) ELSE Len(s) + 1
  BY <1>1, <1>2, EnterInStep
<1>4. Len(insertion_order') <= Len(insertion_order) \/ Len(insertion_order') <= MAX_TRACKED_PEERS
  <2>1. MAX_TRACKED_PEERS \in Nat /\ Len(insertion_order) \in Nat
    BY LimiterAssumption DEF OrderInv, InStep
  <2> QED BY <1>2, <1>3, <2>1
<1> QED BY <1>3, <1>4 DEF OrderInv

LEMMA BanOrder ==
  ASSUME OrderInv, NEW p \in Banned, Ban(p)
  PROVE  /\ OrderInv'
         /\ Len(insertion_order') = IF p \in Tracked THEN Len(insertion_order) ELSE Len(insertion_order) + 1
<1> DEFINE w == windows
           s == insertion_order
<1>1. DOMAIN windows' = DOMAIN w \cup {p} /\ insertion_order' = Enter(s, w, p)
  BY DEF Ban, With
<1>2. p \in Peer
  BY LimiterAssumption
<1>3. InStep(w, s)
  BY DEF OrderInv
<1> HIDE DEF w, s
<1>4. InStep(windows', Enter(s, w, p))
  BY <1>1, <1>2, <1>3, EnterInStep, Zenon
<1>5. Len(Enter(s, w, p)) = IF p \in DOMAIN w THEN Len(s) ELSE Len(s) + 1
  <2>1. s \in Seq(Peer)
    BY <1>3 DEF InStep
  <2> QED BY <1>2, <2>1 DEF Enter
<1> QED BY <1>1, <1>4, <1>5 DEF OrderInv, Tracked, w, s

LEMMA InitOrder == LimiterInit => OrderInv /\ Len(insertion_order) = 0
<1> SUFFICES ASSUME LimiterInit PROVE OrderInv /\ Len(insertion_order) = 0
  OBVIOUS
<1>1. <<>> \in Seq(Peer) /\ Len(<<>>) = 0 /\ DOMAIN <<>> = {}
  OBVIOUS
<1>2. windows = <<>> /\ insertion_order = <<>>
  BY DEF LimiterInit
<1> QED BY <1>1, <1>2 DEF OrderInv, InStep, Distinct, ToSet

LEMMA NextOrder == OrderInv /\ [LimiterNext]_limiterVars => OrderInv'
<1>1. ASSUME OrderInv, TimePasses \/ UNCHANGED limiterVars PROVE OrderInv'
  BY <1>1 DEF OrderInv, TimePasses, limiter, limiterVars
<1> QED BY <1>1, CheckOrder, BanOrder DEF LimiterNext

LEMMA OrderSaysTracked == OrderInv => OrderListsTracked
  BY DistinctLength DEF OrderInv, InStep, OrderListsTracked, Tracked

(* However many peers are checked and banned, the eviction order lists every tracked
   peer once and nobody else (check, ban).                                   *)
THEOREM OrderIsExact == LimiterSpec => []OrderListsTracked
  BY InitOrder, NextOrder, OrderSaysTracked, PTL DEF LimiterSpec

(* No more than MAX_TRACKED_PEERS are tracked and one for each ban of a peer that
   was not, whatever peers come: each new one beyond the cap takes the place of
   another (check, ban).                                                     *)
THEOREM EvictionHolds == LimiterSpec => []EvictionExact
<1> DEFINE Inv == /\ OrderInv /\ ban_entries \in Nat
                  /\ Len(insertion_order) <= MAX_TRACKED_PEERS + ban_entries
<1>0. MAX_TRACKED_PEERS \in Nat
  BY LimiterAssumption
<1>1. LimiterInit => Inv
  BY <1>0, InitOrder DEF LimiterInit
<1>2. ASSUME Inv, [LimiterNext]_limiterVars PROVE Inv'
  <2>0. OrderInv' /\ Len(insertion_order) \in Nat /\ Len(insertion_order') \in Nat
    BY <1>2, NextOrder DEF OrderInv, InStep
  <2>1. CASE TimePasses \/ UNCHANGED limiterVars
    <3>1. UNCHANGED <<insertion_order, ban_entries>>
      BY <2>1 DEF TimePasses, limiter, limiterVars
    <3> QED BY <1>2, <2>0, <3>1
  <2>2. ASSUME NEW p \in Peer, Check(p) PROVE Inv'
    <3>1. ban_entries' = ban_entries
      BY <2>2 DEF Check
    <3>2. \/ Len(insertion_order') <= Len(insertion_order)
          \/ Len(insertion_order') <= MAX_TRACKED_PEERS
      BY <1>2, <2>2, CheckOrder
    <3> QED BY <1>0, <1>2, <2>0, <3>1, <3>2
  <2>3. ASSUME NEW p \in Banned, Ban(p) PROVE Inv'
    <3>1. ban_entries' = IF p \in Tracked THEN ban_entries ELSE ban_entries + 1
      BY <2>3 DEF Ban
    <3>2. Len(insertion_order') = IF p \in Tracked THEN Len(insertion_order) ELSE Len(insertion_order) + 1
      BY <1>2, <2>3, BanOrder
    <3> QED BY <1>0, <1>2, <2>0, <3>1, <3>2
  <2> QED BY <1>2, <2>1, <2>2, <2>3 DEF LimiterNext
<1>3. Inv => EvictionExact
  BY OrderSaysTracked DEF EvictionExact, OrderListsTracked, TrackedBounded
<1> QED BY <1>1, <1>2, <1>3, PTL DEF LimiterSpec

-----------------------------------------------------------------------------
(* Times that do not go back, none later than t. *)
Rising(s, t) ==
  /\ s \in Seq(Nat) /\ (\A i \in 1..Len(s) : s[i] <= t)
  /\ \A i, j \in 1..Len(s) : i <= j => s[i] <= s[j]

(* The last k entries of a window are the last k events that were allowed; those
   before are what a ban left.                                              *)
Backed(e, a, ban, k) ==
  /\ k \in 0..Len(e) /\ k <= Len(a)
  /\ \A i \in 1..k : e[(Len(e) - k) + i] = a[(Len(a) - k) + i]
  /\ \A i \in 1 .. Len(e) - k : e[i] = ban

(* Events that a window does not show are over, or were before a ban that it
   shows in full.                                                           *)
Complete(e, a, ban, k, t) ==
  Len(a) - k > 0 => \/ a[Len(a) - k] <= t - window_duration
                    \/ ban >= 0 /\ a[Len(a) - k] <= ban /\ Len(e) - k = BanLength

Account(e, a, ban, t, lost) ==
  \E k \in Nat : Backed(e, a, ban, k) /\ (~lost => Complete(e, a, ban, k, t))

(* Events that have max_per_window - 1 between them are a window apart. *)
Spaced(a) == \A i \in 1 .. Len(a) - max_per_window : a[i + max_per_window] - a[i] >= window_duration

Within(r, t) == \A i \in 1..Len(r) : t - r[i] < window_duration

LEMMA LimiterNumbers ==
  /\ max_per_window \in Nat /\ max_per_window >= 1 /\ window_duration \in Nat /\ window_duration >= 1
  /\ BanLength \in Nat /\ BanLength >= max_per_window /\ BanLength >= 1
  BY LimiterAssumption DEF BanLength

(* retain drops the first entries of a window, those that are over. *)
LEMMA RetainRest ==
  ASSUME NEW t \in Nat, NEW e, Rising(e, t), NEW r, 
         r = Kept(e, {x \in 0..t : t - x < window_duration})
  PROVE  \E j \in 0..Len(e) :
           /\ r \in Seq(Nat) /\ Rest(r, e, j)
           /\ \A i \in 1..j : t - e[i] >= window_duration
           /\ \A i \in (j + 1)..Len(e) : t - e[i] < window_duration
<1> DEFINE n == Len(e)
           S == {x \in 0..t : t - x < window_duration}
           T == {i \in 1..n : t - e[i] < window_duration}
<1>1. /\ n \in Nat /\ e \in Seq(Nat) /\ (\A i \in 1..n : e[i] \in Nat /\ e[i] <= t)
      /\ \A i, k \in 1..n : i <= k => e[i] <= e[k]
  BY DEF Rising
<1>2. window_duration \in Nat
  BY LimiterNumbers
<1>3. \E j \in 0..n : /\ \A i \in 1..j : t - e[i] >= window_duration
                      /\ \A i \in (j + 1)..n : t - e[i] < window_duration
  <2>1. CASE T = {}
    <3>1. ASSUME NEW i \in 1..n PROVE t - e[i] >= window_duration
      <4>1. ~(t - e[i] < window_duration)
        BY <2>1
      <4>2. e[i] \in Nat
        BY <1>1
      <4> QED BY <1>2, <4>1, <4>2
    <3>2. (n + 1)..n = {} /\ n \in 0..n
      BY <1>1
    <3> HIDE DEF n
    <3> QED BY <3>1, <3>2
  <2>2. CASE T # {}
    <3>1. T \subseteq Nat
      BY <1>1
    <3>2. PICK l \in T : \A y \in T : l <= y
      <4> HIDE DEF T
      <4> QED BY <2>2, <3>1, LeastElement
    <3>3. l \in 1..n /\ t - e[l] < window_duration /\ l - 1 \in 0..n
      BY <1>1, <3>2
    <3>4. ASSUME NEW i \in 1 .. l - 1 PROVE t - e[i] >= window_duration
      <4>1. i \in 1..n /\ ~(l <= i)
        BY <1>1, <3>3
      <4>2. i \notin T
        BY <3>2, <4>1
      <4>3. ~(t - e[i] < window_duration) /\ e[i] \in Nat
        BY <1>1, <4>1, <4>2
      <4> QED BY <1>2, <4>3
    <3>5. ASSUME NEW i \in ((l - 1) + 1)..n PROVE t - e[i] < window_duration
      <4>1. i \in 1..n /\ l <= i
        BY <1>1, <3>3
      <4>2. e[l] <= e[i] /\ e[l] \in Nat /\ e[i] \in Nat
        BY <1>1, <3>3, <4>1
      <4> QED BY <1>2, <3>3, <4>2
    <3> QED BY <3>3, <3>4, <3>5
  <2> QED BY <2>1, <2>2
<1>4. PICK j \in 0..n : /\ \A i \in 1..j : t - e[i] >= window_duration
                        /\ \A i \in (j + 1)..n : t - e[i] < window_duration
  BY <1>3
<1>5. \A i \in 1..j : e[i] \notin S
  <2> SUFFICES ASSUME NEW i \in 1..j PROVE e[i] \notin S
    OBVIOUS
  <2>1. i \in 1..n /\ t - e[i] >= window_duration
    BY <1>1, <1>4
  <2>2. e[i] \in Nat
    BY <1>1, <2>1
  <2> QED BY <1>2, <2>1, <2>2
<1>6. \A i \in (j + 1)..n : e[i] \in S
  <2> SUFFICES ASSUME NEW i \in (j + 1)..n PROVE e[i] \in S
    OBVIOUS
  <2>1. i \in 1..n /\ t - e[i] < window_duration
    BY <1>1, <1>4
  <2>2. e[i] \in Nat /\ e[i] <= t
    BY <1>1, <2>1
  <2> QED BY <2>1, <2>2
<1> HIDE DEF S
<1>7. Kept(e, S) \in Seq(Nat) /\ Rest(Kept(e, S), e, j)
  BY <1>1, <1>5, <1>6, KeptRest
<1> QED BY <1>4, <1>7 DEF S

LEMMA RestRising ==
  ASSUME NEW t \in Nat, NEW e, Rising(e, t), NEW r \in Seq(Nat), NEW j \in 0..Len(e), Rest(r, e, j)
  PROVE  Rising(r, t)
<1>1. /\ Len(e) \in Nat /\ (\A i \in 1..Len(e) : e[i] <= t)
      /\ \A i, k \in 1..Len(e) : i <= k => e[i] <= e[k]
  BY DEF Rising
<1>2. Len(r) = Len(e) - j /\ \A i \in 1..Len(r) : r[i] = e[i + j] /\ i + j \in 1..Len(e)
  <2>1. Len(r) = Len(e) - j /\ \A i \in 1..Len(r) : r[i] = e[i + j]
    BY DEF Rest
  <2> DEFINE n == Len(r)
             m == Len(e)
  <2>2. n = m - j /\ m \in Nat /\ j \in 0..m
    BY <1>1, <2>1
  <2> HIDE DEF n, m
  <2>3. \A i \in 1..n : i + j \in 1..m
    BY <2>2
  <2> QED BY <2>1, <2>3 DEF n, m
<1>3. ASSUME NEW i \in 1..Len(r) PROVE r[i] <= t
  BY <1>1, <1>2
<1>4. ASSUME NEW i \in 1..Len(r), NEW k \in 1..Len(r), i <= k PROVE r[i] <= r[k]
  <2>1. i + j <= k + j
    BY <1>4
  <2> QED BY <1>1, <1>2, <2>1
<1> QED BY <1>3, <1>4 DEF Rising

(* A window that retain cut still accounts for the events. *)
LEMMA RetainAccount ==
  ASSUME NEW t \in Nat, NEW e, Rising(e, t), NEW a, Rising(a, t), NEW ban \in Int, NEW lost \in BOOLEAN,
         Account(e, a, ban, t, lost),
         NEW r, r = Kept(e, {x \in 0..t : t - x < window_duration})
  PROVE  Rising(r, t) /\ Within(r, t) /\ Account(r, a, ban, t, lost)
<1> DEFINE n == Len(e)
           m == Len(a)
           q == Len(r)
<1>1. PICK j \in 0..n : /\ r \in Seq(Nat) /\ Rest(r, e, j)
                        /\ \A i \in 1..j : t - e[i] >= window_duration
                        /\ \A i \in (j + 1)..n : t - e[i] < window_duration
  BY RetainRest
<1>2. PICK k \in Nat : Backed(e, a, ban, k) /\ (~lost => Complete(e, a, ban, k, t))
  BY DEF Account
<1>3. /\ n \in Nat /\ m \in Nat /\ q \in Nat /\ j \in Nat /\ j <= n /\ q = n - j /\ k <= n /\ k <= m
      /\ (\A i \in 1..n : e[i] \in Nat) /\ (\A i \in 1..m : a[i] \in Nat)
  <2>1. e \in Seq(Nat) /\ a \in Seq(Nat)
    BY DEF Rising
  <2>2. q = n - j /\ k \in 0..n /\ k <= m
    BY <1>1, <1>2 DEF Rest, Backed
  <2>3. n \in Nat /\ m \in Nat /\ (\A i \in 1..n : e[i] \in Nat) /\ (\A i \in 1..m : a[i] \in Nat)
    BY <2>1
  <2>4. r \in Seq(Nat)
    BY <1>1
  <2>5. q \in Nat
    BY <2>4
  <2> HIDE DEF n, m, q
  <2>6. j \in Nat /\ j <= n /\ k <= n
    BY <2>2, <2>3
  <2> QED BY <2>2, <2>3, <2>5, <2>6
<1>4. \A i \in 1..q : r[i] = e[i + j]
  BY <1>1 DEF Rest
<1>5. /\ \A i \in 1..k : e[(n - k) + i] = a[(m - k) + i]
      /\ \A i \in 1 .. n - k : e[i] = ban
  BY <1>2 DEF Backed
<1>6. window_duration \in Nat /\ BanLength \in Nat /\ BanLength >= 1
  BY LimiterNumbers
<1>7. Rising(r, t)
  BY <1>1, RestRising
<1>8. ~lost /\ m - k > 0 =>
        \/ a[m - k] <= t - window_duration
        \/ ban >= 0 /\ a[m - k] <= ban /\ n - k = BanLength
  BY <1>2 DEF Complete
<1> HIDE DEF n, m, q
<1>9. ASSUME NEW i \in 1..q PROVE t - r[i] < window_duration
  <2>1. i + j \in (j + 1)..n
    BY <1>3
  <2> QED BY <1>1, <1>4, <2>1
<1>10. CASE k <= q
  <2>1. ASSUME NEW i \in 1..k PROVE r[(q - k) + i] = a[(m - k) + i]
    <3>1. (q - k) + i \in 1..q /\ ((q - k) + i) + j = (n - k) + i
      BY <1>3, <1>10
    <3> QED BY <1>4, <1>5, <3>1
  <2>2. ASSUME NEW i \in 1 .. q - k PROVE r[i] = ban
    <3>1. i \in 1..q /\ i + j \in 1 .. n - k
      BY <1>3, <1>10
    <3> QED BY <1>4, <1>5, <3>1
  <2>3. k \in 0..q /\ k <= m
    BY <1>3, <1>10
  <2>4. Backed(r, a, ban, k)
    BY <2>1, <2>2, <2>3 DEF Backed, q, m
  <2>5. ASSUME ~lost, m - k > 0
        PROVE  \/ a[m - k] <= t - window_duration
               \/ ban >= 0 /\ a[m - k] <= ban /\ q - k = BanLength
    <3>1. CASE a[m - k] <= t - window_duration
      BY <3>1
    <3>2. CASE ban >= 0 /\ a[m - k] <= ban /\ n - k = BanLength
      <4>1. CASE j = 0
        <5>1. q = n
          BY <1>3, <4>1
        <5> QED BY <3>2, <5>1
      <4>2. CASE j # 0
        <5>1. 1 \in 1..j /\ 1 \in 1 .. n - k /\ m - k \in 1..m
          BY <1>3, <1>6, <2>5, <3>2, <4>2
        <5>2. e[1] = ban /\ t - e[1] >= window_duration /\ a[m - k] \in Nat
          BY <1>1, <1>3, <1>5, <5>1
        <5> DEFINE x == a[m - k]
        <5>3. x \in Nat /\ x <= ban /\ t - ban >= window_duration
          BY <3>2, <5>2
        <5> HIDE DEF x
        <5>4. x <= t - window_duration
          BY <1>6, <5>3
        <5> QED BY <5>4 DEF x
      <4> QED BY <4>1, <4>2
    <3> QED BY <1>8, <2>5, <3>1, <3>2
  <2>6. ~lost => Complete(r, a, ban, k, t)
    BY <2>5 DEF Complete, q, m
  <2> QED BY <1>7, <1>9, <2>4, <2>6 DEF Account, Within, q
<1>11. CASE ~(k <= q)
  <2>1. q \in 0..q /\ q <= m /\ j >= 1 /\ j \in 1..j
    BY <1>3, <1>11
  <2>2. ASSUME NEW i \in 1..q PROVE r[(q - q) + i] = a[(m - q) + i]
    <3> DEFINE l == (i + j) - (n - k)
    <3>1. l \in 1..k /\ (n - k) + l = i + j /\ (m - k) + l = (m - q) + i /\ (q - q) + i = i
      BY <1>3, <1>11
    <3> HIDE DEF l
    <3>2. e[(n - k) + l] = a[(m - k) + l]
      BY <1>5, <3>1
    <3> QED BY <1>4, <3>1, <3>2
  <2>3. ASSUME NEW i \in 1 .. q - q PROVE r[i] = ban
    BY <1>3
  <2>4. Backed(r, a, ban, q)
    BY <2>1, <2>2, <2>3 DEF Backed, q, m
  <2>5. m - q > 0 => a[m - q] <= t - window_duration
    <3> SUFFICES ASSUME m - q > 0 PROVE a[m - q] <= t - window_duration
      OBVIOUS
    <3> DEFINE l == j - (n - k)
    <3>1. l \in 1..k /\ (n - k) + l = j /\ (m - k) + l = m - q /\ j \in 1..n
      BY <1>3, <1>11
    <3> HIDE DEF l
    <3>2. e[j] = a[m - q]
      BY <1>5, <3>1
    <3>3. t - e[j] >= window_duration /\ e[j] \in Nat
      BY <1>1, <1>3, <2>1, <3>1
    <3> DEFINE x == e[j]
    <3>4. x \in Nat /\ t - x >= window_duration
      BY <3>3
    <3> HIDE DEF x
    <3>5. x <= t - window_duration
      BY <1>6, <3>4
    <3> QED BY <3>2, <3>5 DEF x
  <2>6. Complete(r, a, ban, q, t)
    BY <2>5 DEF Complete, q, m
  <2> QED BY <1>3, <1>7, <1>9, <2>4, <2>6 DEF Account, Within, q
<1> QED BY <1>10, <1>11

(* An event that is allowed goes into both. *)
LEMMA AppendRising ==
  ASSUME NEW t \in Nat, NEW s, Rising(s, t)
  PROVE  Rising(Append(s, t), t)
<1> DEFINE u == Append(s, t)
           n == Len(s)
<1>1. s \in Seq(Nat) /\ n \in Nat /\ (\A i \in 1..n : s[i] <= t) /\ \A i, j \in 1..n : i <= j => s[i] <= s[j]
  BY DEF Rising
<1>2. u \in Seq(Nat) /\ Len(u) = n + 1 /\ u[n + 1] = t /\ \A i \in 1..n : u[i] = s[i]
  BY <1>1, AppendElements
<1> HIDE DEF u, n
<1>3. ASSUME NEW i \in 1..Len(u) PROVE u[i] <= t /\ (i \in 1..n \/ i = n + 1)
  BY <1>1, <1>2
<1>4. ASSUME NEW i \in 1..Len(u), NEW j \in 1..Len(u), i <= j PROVE u[i] <= u[j]
  <2>1. CASE j = n + 1
    BY <1>2, <1>3, <2>1
  <2>2. CASE j # n + 1
    <3>1. j \in 1..n /\ i \in 1..n
      BY <1>1, <1>2, <1>4, <2>2
    <3> QED BY <1>1, <1>2, <1>4, <3>1
  <2> QED BY <2>1, <2>2
<1>5. Rising(u, t)
  BY <1>2, <1>3, <1>4 DEF Rising
<1> QED BY <1>5 DEF u

LEMMA AppendAccount ==
  ASSUME NEW t \in Nat, NEW r, Rising(r, t), NEW a, Rising(a, t), NEW ban \in Int, NEW lost \in BOOLEAN,
         Account(r, a, ban, t, lost)
  PROVE  Account(Append(r, t), Append(a, t), ban, t, lost)
<1> DEFINE n == Len(r)
           m == Len(a)
           r2 == Append(r, t)
           a2 == Append(a, t)
<1>1. PICK k \in Nat : Backed(r, a, ban, k) /\ (~lost => Complete(r, a, ban, k, t))
  BY DEF Account
<1>2. /\ n \in Nat /\ m \in Nat /\ r \in Seq(Nat) /\ a \in Seq(Nat)
  BY DEF Rising
<1>3. /\ k <= n /\ k <= m /\ (\A i \in 1..k : r[(n - k) + i] = a[(m - k) + i])
      /\ \A i \in 1 .. n - k : r[i] = ban
  BY <1>1 DEF Backed
<1>4. /\ Len(r2) = n + 1 /\ r2[n + 1] = t /\ (\A i \in 1..n : r2[i] = r[i])
      /\ Len(a2) = m + 1 /\ a2[m + 1] = t /\ (\A i \in 1..m : a2[i] = a[i])
  BY <1>2, AppendElements
<1>5. ~lost /\ m - k > 0 =>
        \/ a[m - k] <= t - window_duration
        \/ ban >= 0 /\ a[m - k] <= ban /\ n - k = BanLength
  BY <1>1 DEF Complete
<1> DEFINE l == k + 1
<1> HIDE DEF n, m, r2, a2
<1>6. l \in 0..(n + 1) /\ l <= m + 1 /\ (n + 1) - l = n - k /\ (m + 1) - l = m - k /\ l \in Nat
  BY <1>2, <1>3
<1>7. ASSUME NEW i \in 1..l PROVE r2[((n + 1) - l) + i] = a2[((m + 1) - l) + i]
  <2>1. CASE i \in 1..k
    <3>1. (n - k) + i \in 1..n /\ (m - k) + i \in 1..m
      BY <1>2, <1>3, <2>1
    <3>2. r2[(n - k) + i] = r[(n - k) + i] /\ a2[(m - k) + i] = a[(m - k) + i]
      BY <1>4, <3>1
    <3>3. r[(n - k) + i] = a[(m - k) + i]
      BY <1>3, <2>1
    <3> QED BY <1>6, <3>2, <3>3
  <2>2. CASE i \notin 1..k
    <3>1. (n - k) + i = n + 1 /\ (m - k) + i = m + 1
      BY <1>2, <1>3, <2>2
    <3> QED BY <1>4, <1>6, <3>1
  <2> QED BY <2>1, <2>2
<1>8. ASSUME NEW i \in 1 .. (n + 1) - l PROVE r2[i] = ban
  <2>1. i \in 1 .. n - k /\ i \in 1..n
    BY <1>2, <1>3, <1>6
  <2> QED BY <1>3, <1>4, <2>1
<1>9. (m + 1) - l > 0 => a2[(m + 1) - l] = a[m - k]
  <2>1. (m + 1) - l > 0 => (m + 1) - l \in 1..m /\ (m + 1) - l = m - k
    BY <1>2, <1>3
  <2> QED BY <1>4, <2>1
<1>10. ~lost /\ (m + 1) - l > 0 =>
        \/ a2[(m + 1) - l] <= t - window_duration
        \/ ban >= 0 /\ a2[(m + 1) - l] <= ban /\ (n + 1) - l = BanLength
  BY <1>5, <1>6, <1>9
<1> HIDE DEF l
<1>11. Backed(r2, a2, ban, l)
  BY <1>4, <1>6, <1>7, <1>8 DEF Backed
<1>12. ~lost => Complete(r2, a2, ban, l, t)
  BY <1>4, <1>10 DEF Complete
<1>13. Account(r2, a2, ban, t, lost)
  BY <1>6, <1>11, <1>12 DEF Account
<1> QED BY <1>13 DEF r2, a2

(* A window with room shows that the event max_per_window before is over. *)
LEMMA SpacedAppend ==
  ASSUME NEW t \in Nat, NEW r, Rising(r, t), NEW a, Rising(a, t), NEW ban \in Int,
         Account(r, a, ban, t, FALSE), Len(r) < max_per_window, Spaced(a)
  PROVE  Spaced(Append(a, t))
<1> DEFINE n == Len(r)
           m == Len(a)
           a2 == Append(a, t)
           w == max_per_window
<1>1. PICK k \in Nat : Backed(r, a, ban, k) /\ Complete(r, a, ban, k, t)
  BY DEF Account
<1>2. n \in Nat /\ m \in Nat /\ a \in Seq(Nat) /\ (\A i \in 1..m : a[i] \in Nat)
      /\ \A i, j \in 1..m : i <= j => a[i] <= a[j]
  BY DEF Rising
<1>3. k <= n /\ k <= m /\ n < w
  BY <1>1 DEF Backed
<1>4. Len(a2) = m + 1 /\ a2[m + 1] = t /\ (\A i \in 1..m : a2[i] = a[i])
  BY <1>2, AppendElements
<1>5. m - k > 0 => \/ a[m - k] <= t - window_duration
                   \/ ban >= 0 /\ a[m - k] <= ban /\ n - k = BanLength
  BY <1>1 DEF Complete
<1>6. /\ w \in Nat /\ w >= 1 /\ window_duration \in Nat /\ BanLength \in Nat /\ BanLength >= w
  BY LimiterNumbers
<1>7. \A i \in 1 .. m - w : a[i + w] - a[i] >= window_duration
  BY DEF Spaced
<1> HIDE DEF n, m, a2, w
<1>8. ASSUME NEW i \in 1 .. (m + 1) - w PROVE a2[i + w] - a2[i] >= window_duration
  <2>1. i \in Nat /\ i \in 1..m
    BY <1>2, <1>6
  <2>2. CASE i \in 1 .. m - w
    <3>1. i + w \in 1..m
      BY <1>2, <1>6, <2>2
    <3> QED BY <1>4, <1>7, <2>1, <2>2, <3>1
  <2>3. CASE i \notin 1 .. m - w
    <3>1. i + w = m + 1
      BY <1>2, <1>6, <2>3
    <3>2. m - k > 0 /\ m - k \in 1..m /\ i <= m - k /\ n - k # BanLength
      BY <1>2, <1>3, <1>6, <2>1, <3>1
    <3>3. a[m - k] <= t - window_duration
      BY <1>5, <3>2
    <3>4. a[i] <= a[m - k] /\ a[i] \in Nat /\ a[m - k] \in Nat
      BY <1>2, <2>1, <3>2
    <3> DEFINE x == a[i]
               y == a[m - k]
    <3>5. x \in Nat /\ y \in Nat /\ x <= y /\ y <= t - window_duration
      BY <3>3, <3>4
    <3> HIDE DEF x, y
    <3>6. t - x >= window_duration
      BY <1>6, <3>5
    <3> QED BY <1>4, <2>1, <3>1, <3>6 DEF x
  <2> QED BY <2>2, <2>3
<1>9. Spaced(a2)
  BY <1>4, <1>8 DEF Spaced, w
<1> QED BY <1>9 DEF a2

(* Events that are spaced never exceed the limit, wherever the stretch begins. *)
LEMMA SpacedCounts ==
  ASSUME NEW t \in Nat, NEW a, Rising(a, t), Spaced(a), NEW x \in Nat
  PROVE  Cardinality({i \in DOMAIN a : a[i] \in x..(x + window_duration - 1)}) <= max_per_window
<1> DEFINE m == Len(a)
           w == max_per_window
           T == {i \in DOMAIN a : a[i] \in x..(x + window_duration - 1)}
<1>1. /\ m \in Nat /\ DOMAIN a = 1..m /\ (\A i \in 1..m : a[i] \in Nat)
      /\ \A i, j \in 1..m : i <= j => a[i] <= a[j]
  BY DEF Rising
<1>2. w \in Nat /\ w >= 1 /\ window_duration \in Nat
  BY LimiterNumbers
<1>3. \A i \in 1 .. m - w : a[i + w] - a[i] >= window_duration
  BY DEF Spaced
<1>4. T \subseteq 1..m
  BY <1>1
<1>5. \A i \in T : a[i] >= x /\ a[i] <= x + window_duration - 1
  BY <1>1, <1>2
<1> HIDE DEF m, w, T
<1>6. CASE T = {}
  <2>1. Cardinality(T) = 0
    BY <1>6, FS_EmptySet
  <2> QED BY <1>2, <2>1 DEF T, w
<1>7. CASE T # {}
  <2>1. T \subseteq Nat
    BY <1>1, <1>4
  <2>2. PICK l \in T : \A y \in T : l <= y
    BY <1>7, <2>1, LeastElement
  <2>3. l \in 1..m /\ l \in Int /\ (l + w) - 1 \in Int
    BY <1>1, <1>2, <1>4, <2>2
  <2>4. ASSUME NEW i \in T PROVE i \in l .. (l + w) - 1
    <3>1. i \in 1..m /\ l <= i
      BY <1>4, <2>2
    <3>2. CASE i < l + w
      BY <1>1, <1>2, <2>3, <3>1, <3>2
    <3>3. CASE ~(i < l + w)
      <4>1. l \in 1 .. m - w /\ l + w \in 1..m /\ l + w <= i
        BY <1>1, <1>2, <2>3, <3>1, <3>3
      <4>2. a[l + w] - a[l] >= window_duration /\ a[l + w] <= a[i]
        BY <1>1, <1>3, <3>1, <4>1
      <4>3. a[l] \in Nat /\ a[l + w] \in Nat /\ a[i] \in Nat
        BY <1>1, <2>3, <3>1, <4>1
      <4>4. a[l] >= x /\ a[i] <= x + window_duration - 1
        BY <1>5, <2>2
      <4> DEFINE u == a[l]
                 v == a[l + w]
                 z == a[i]
      <4>5. /\ u \in Nat /\ v \in Nat /\ z \in Nat /\ v - u >= window_duration /\ v <= z
            /\ u >= x /\ z <= x + window_duration - 1
        BY <4>2, <4>3, <4>4
      <4> HIDE DEF u, v, z
      <4>6. FALSE
        BY <1>2, <4>5
      <4> QED BY <4>6
    <3> QED BY <3>2, <3>3
  <2>5. IsFiniteSet(l .. (l + w) - 1) /\ Cardinality(l .. (l + w) - 1) = w
    <3>1. IsFiniteSet(l .. (l + w) - 1)
          /\ Cardinality(l .. (l + w) - 1) = IF l > (l + w) - 1 THEN 0 ELSE ((l + w) - 1) - l + 1
      BY <2>3, FS_Interval
    <3>2. ~(l > (l + w) - 1) /\ ((l + w) - 1) - l + 1 = w
      BY <1>2, <2>3
    <3> QED BY <3>1, <3>2
  <2>6. T \in SUBSET (l .. (l + w) - 1)
    BY <2>4
  <2>7. Cardinality(T) <= Cardinality(l .. (l + w) - 1)
    BY <2>5, <2>6, FS_Subset
  <2> QED BY <2>5, <2>7 DEF T, w
<1> QED BY <1>6, <1>7

(* A full window of entries that are not over is one of events, or a ban. *)
LEMMA FullWindow ==
  ASSUME NEW t \in Nat, NEW r, Rising(r, t), Within(r, t), NEW a, Rising(a, t), NEW ban \in Int,
         NEW lost \in BOOLEAN, Account(r, a, ban, t, lost), Len(r) >= max_per_window
  PROVE  LET x == t - window_duration + 1
         IN  \/ Cardinality({i \in DOMAIN a : a[i] \in x..(x + window_duration - 1)}) >= max_per_window
             \/ ban >= 0 /\ t - ban < window_duration
<1> DEFINE n == Len(r)
           m == Len(a)
           w == max_per_window
           x == t - window_duration + 1
           T == {i \in DOMAIN a : a[i] \in x..(x + window_duration - 1)}
<1>1. PICK k \in Nat : Backed(r, a, ban, k)
  BY DEF Account
<1>2. /\ n \in Nat /\ m \in Nat /\ DOMAIN a = 1..m /\ (\A i \in 1..m : a[i] \in Nat /\ a[i] <= t)
      /\ (\A i \in 1..n : r[i] \in Nat) /\ n >= w
  BY DEF Rising
<1>3. /\ k <= n /\ k <= m /\ (\A i \in 1..k : r[(n - k) + i] = a[(m - k) + i])
      /\ \A i \in 1 .. n - k : r[i] = ban
  BY <1>1 DEF Backed
<1>4. w \in Nat /\ w >= 1 /\ window_duration \in Nat
  BY LimiterNumbers
<1>5. \A i \in 1..n : t - r[i] < window_duration
  BY DEF Within
<1> HIDE DEF n, m, w
<1>6. CASE k < n
  <2>1. 1 \in 1 .. n - k /\ 1 \in 1..n
    BY <1>2, <1>3, <1>6
  <2>2. r[1] = ban /\ r[1] \in Nat /\ t - r[1] < window_duration
    BY <1>2, <1>3, <1>5, <2>1
  <2>3. ban >= 0 /\ t - ban < window_duration
    BY <2>2
  <2> QED BY <2>3
<1>7. CASE ~(k < n)
  <2>1. k = n
    BY <1>2, <1>3, <1>7
  <2>2. ASSUME NEW i \in (m - n + 1)..m PROVE i \in T
    <3> DEFINE l == i - (m - n)
    <3>1. l \in 1..k /\ l \in 1..n /\ (m - k) + l = i /\ (n - k) + l = l /\ i \in 1..m
      BY <1>2, <1>3, <2>1
    <3> HIDE DEF l
    <3>2. r[l] = a[i] /\ t - r[l] < window_duration /\ a[i] \in Nat /\ a[i] <= t
      BY <1>2, <1>3, <1>5, <3>1
    <3> DEFINE y == a[i]
    <3>3. y \in Nat /\ y <= t /\ t - y < window_duration
      BY <3>2
    <3> HIDE DEF y
    <3>4. y \in x..(x + window_duration - 1)
      BY <1>4, <3>3
    <3> QED BY <1>2, <3>1, <3>4 DEF y
  <2>3. m - n + 1 \in Int /\ m \in Int /\ m - (m - n + 1) + 1 = n /\ ~(m - n + 1 > m)
    BY <1>2, <1>3, <1>4, <2>1
  <2>4. Cardinality((m - n + 1)..m) = n
    BY <2>3, FS_Interval
  <2>5. T \subseteq 1..m
    BY <1>2
  <2> HIDE DEF T
  <2>6. IsFiniteSet(T)
    <3>1. IsFiniteSet(1..m)
      BY <1>2, FS_Interval
    <3> QED BY <2>5, <3>1, FS_Subset
  <2>7. Cardinality((m - n + 1)..m) <= Cardinality(T) /\ Cardinality(T) \in Nat
    <3>1. (m - n + 1)..m \in SUBSET T
      BY <2>2
    <3> QED BY <2>6, <3>1, FS_Subset, FS_CardinalityType
  <2>8. Cardinality(T) >= w
    BY <1>2, <1>4, <2>4, <2>7
  <2> QED BY <2>8 DEF T, w
<1> QED BY <1>6, <1>7

LEMMA LaterAccount ==
  ASSUME NEW t \in Nat, NEW e, Rising(e, t), NEW a, Rising(a, t), NEW ban \in Int, NEW lost \in BOOLEAN,
         Account(e, a, ban, t, lost)
  PROVE  Rising(e, t + 1) /\ Rising(a, t + 1) /\ Account(e, a, ban, t + 1, lost)
<1>1. ASSUME NEW s, Rising(s, t) PROVE Rising(s, t + 1)
  <2>1. /\ s \in Seq(Nat) /\ (\A i \in 1..Len(s) : s[i] \in Nat /\ s[i] <= t)
        /\ \A i, j \in 1..Len(s) : i <= j => s[i] <= s[j]
    BY <1>1 DEF Rising
  <2>2. \A i \in 1..Len(s) : s[i] <= t + 1
    BY <2>1
  <2> QED BY <2>1, <2>2 DEF Rising
<1>2. PICK k \in Nat : Backed(e, a, ban, k) /\ (~lost => Complete(e, a, ban, k, t))
  BY DEF Account
<1>3. ~lost => Complete(e, a, ban, k, t + 1)
  <2> SUFFICES ASSUME ~lost, Len(a) - k > 0, a[Len(a) - k] <= t - window_duration
               PROVE  a[Len(a) - k] <= (t + 1) - window_duration
    BY <1>2 DEF Complete
  <2>1. Len(a) \in Nat /\ \A i \in 1..Len(a) : a[i] \in Nat
    BY DEF Rising
  <2> DEFINE l == Len(a) - k
             x == a[l]
  <2>2. l \in 1..Len(a)
    BY <2>1
  <2>3. x \in Nat /\ x <= t - window_duration
    <3> HIDE DEF l
    <3> QED BY <2>1, <2>2 DEF l
  <2> HIDE DEF x
  <2>4. x <= (t + 1) - window_duration
    BY <2>3, LimiterNumbers
  <2> QED BY <2>4 DEF x
<1> QED BY <1>1, <1>2, <1>3 DEF Account

LEMMA BanAccount ==
  ASSUME NEW t \in Nat, NEW a, Rising(a, t), NEW e, e = [i \in 1..BanLength |-> t], NEW lost \in BOOLEAN
  PROVE  Rising(e, t) /\ Account(e, a, t, t, lost)
<1>1. BanLength \in Nat
  BY LimiterNumbers
<1>2. e \in Seq(Nat) /\ Len(e) = BanLength /\ \A i \in 1..BanLength : e[i] = t
  BY <1>1
<1>3. Rising(e, t)
  <2>1. \A i \in 1..Len(e) : e[i] = t
    BY <1>2, Zenon
  <2>3. t <= t
    OBVIOUS
  <2>2. \A i, j \in 1..Len(e) : i <= j => e[i] <= e[j]
    BY <2>1, <2>3, Zenon
  <2>4. \A i \in 1..Len(e) : e[i] <= t
    BY <2>1, <2>3, Zenon
  <2> QED BY <1>2, <2>2, <2>4, Zenon DEF Rising
<1>4. Len(a) \in Nat /\ \A i \in 1..Len(a) : a[i] <= t
  BY DEF Rising
<1>5. Backed(e, a, t, 0)
  <2>1. 0 \in 0..Len(e) /\ 0 <= Len(a) /\ 1..0 = {} /\ Len(e) - 0 = BanLength
    BY <1>1, <1>2, <1>4
  <2> QED BY <1>2, <2>1 DEF Backed
<1>6. Complete(e, a, t, 0, t)
  <2>1. Len(a) - 0 = Len(a) /\ Len(e) - 0 = BanLength
    BY <1>1, <1>2, <1>4
  <2>2. Len(a) > 0 => a[Len(a)] <= t
    BY <1>4
  <2>3. t >= 0
    OBVIOUS
  <2> QED BY <2>1, <2>2, <2>3 DEF Complete
<1> QED BY <1>3, <1>5, <1>6 DEF Account

LEMMA NoEntries ==
  ASSUME NEW t \in Nat, NEW a, Rising(a, t), NEW ban
  PROVE  Rising(<<>>, t) /\ Account(<<>>, a, ban, t, TRUE)
<1>1. Rising(<<>>, t)
  BY DEF Rising
<1>2. Len(a) \in Nat
  BY DEF Rising
<1>3. Backed(<<>>, a, ban, 0)
  BY <1>2 DEF Backed
<1> QED BY <1>1, <1>3 DEF Account

-----------------------------------------------------------------------------
(* What the limiter has of a peer accounts for what it allowed it. *)
Book(p) ==
  /\ Rising(Entries(windows, p), now) /\ Rising(allowed[p], now)
  /\ banned_at[p] \in Int
  /\ Account(Entries(windows, p), allowed[p], banned_at[p], now, p \in evicted)
  /\ p \notin evicted => Spaced(allowed[p])

LimitInv ==
  /\ now \in Nat /\ allowed \in [Peer -> Seq(Nat)] /\ banned_at \in [Peer -> Int]
  /\ \A p \in Peer : Book(p)
  /\ RefusedOnlyAtLimit

LEMMA SameBook ==
  ASSUME NEW q, Book(q), Entries(windows, q)' = Entries(windows, q), now' = now,
         allowed'[q] = allowed[q], banned_at'[q] = banned_at[q],
         q \in evicted' <=> q \in evicted
  PROVE  Book(q)'
<1>1. (q \in evicted') = (q \in evicted)
  OBVIOUS
<1> DEFINE ev == q \in evicted
<1>2. /\ Rising(Entries(windows, q), now) /\ Rising(allowed[q], now) /\ banned_at[q] \in Int
      /\ Account(Entries(windows, q), allowed[q], banned_at[q], now, ev)
      /\ ~ev => Spaced(allowed[q])
  BY DEF Book
<1>3. /\ Rising(Entries(windows, q)', now') /\ Rising(allowed'[q], now') /\ banned_at'[q] \in Int
      /\ Account(Entries(windows, q)', allowed'[q], banned_at'[q], now', ev)
      /\ ~ev => Spaced(allowed'[q])
  BY <1>2
<1> QED BY <1>1, <1>3 DEF Book

(* What check leaves of the windows. *)
LEMMA EvictLeaves ==
  ASSUME NEW p, NEW w, w = Evict(p).windows
  PROVE  /\ DOMAIN w \subseteq Tracked /\ \A q \in DOMAIN w : w[q] = windows[q]
         /\ p \in Tracked => p \in DOMAIN w
<1> DEFINE full == p \notin Tracked /\ Cardinality(Tracked) >= MAX_TRACKED_PEERS /\ insertion_order # <<>>
<1>1. CASE full
  <2>1. w = Without(windows, Head(insertion_order))
    BY <1>1 DEF Evict
  <2> QED BY <1>1, <2>1 DEF Without, Tracked
<1>2. CASE ~full
  <2>1. w = windows
    BY <1>2 DEF Evict
  <2> QED BY <2>1 DEF Tracked
<1> QED BY <1>1, <1>2

LEMMA CheckLimit == ASSUME LimitInv, NEW p \in Peer, Check(p) PROVE LimitInv'
<1> DEFINE w == Evict(p).windows
           e == Entries(w, p)
           r == retain(e)
           ok == Len(r) < max_per_window
           v == IF ok THEN Append(r, now) ELSE r
           a == allowed[p]
           ban == banned_at[p]
           ev == p \in evicted
<1>1. /\ windows' = With(w, p, v) /\ now' = now /\ banned_at' = banned_at
      /\ allowed' = IF ok THEN [allowed EXCEPT ![p] = Append(@, now)] ELSE allowed
      /\ refused' = IF ok THEN Nobody ELSE <<p>>
      /\ evicted' = evicted \cup (Tracked \ DOMAIN w)
  BY DEF Check
<1>2. /\ now \in Nat /\ allowed \in [Peer -> Seq(Nat)] /\ banned_at \in [Peer -> Int]
      /\ \A q \in Peer : Book(q)
  BY DEF LimitInv
<1>3. /\ DOMAIN w \subseteq Tracked /\ (\A q \in DOMAIN w : w[q] = windows[q])
      /\ p \in Tracked => p \in DOMAIN w
  BY EvictLeaves
<1>4. e = Entries(windows, p)
  BY <1>3 DEF Entries, Tracked
<1>5. /\ Rising(e, now) /\ Rising(a, now) /\ ban \in Int /\ Account(e, a, ban, now, ev)
      /\ ~ev => Spaced(a)
  BY <1>2, <1>4 DEF Book
<1>6. Rising(r, now) /\ Within(r, now) /\ Account(r, a, ban, now, ev)
  <2>1. r = Kept(e, {x \in 0..now : now - x < window_duration}) /\ ev \in BOOLEAN
    BY DEF retain
  <2> HIDE DEF r, e, a, ban, ev
  <2> QED BY <1>2, <1>5, <2>1, RetainAccount
<1> HIDE DEF w, e, r
<1>7. (p \in evicted') = ev
  BY <1>1, <1>3
<1>8. Entries(windows, p)' = v
  BY <1>1 DEF Entries, With
<1>9. ASSUME NEW q \in Peer, q # p PROVE Book(q)'
  <2>1. Book(q) /\ allowed'[q] = allowed[q] /\ banned_at'[q] = banned_at[q]
    BY <1>1, <1>2, <1>9
  <2>2. DOMAIN windows' = DOMAIN w \cup {p} /\ (q \in DOMAIN w => windows'[q] = w[q])
    BY <1>1, <1>9 DEF With
  <2>3. CASE q \in Tracked \ DOMAIN w
    <3>1. Entries(windows, q)' = <<>> /\ q \in evicted'
      BY <1>1, <1>9, <2>2, <2>3 DEF Entries
    <3>2. Rising(allowed[q], now) /\ banned_at[q] \in Int
      BY <2>1 DEF Book
    <3>3. Rising(<<>>, now) /\ Account(<<>>, allowed[q], banned_at[q], now, TRUE)
      BY <1>2, <3>2, NoEntries
    <3>4. (q \in evicted') = TRUE
      BY <3>1
    <3> QED BY <1>1, <2>1, <3>1, <3>2, <3>3, <3>4 DEF Book
  <2>4. CASE q \notin Tracked \ DOMAIN w
    <3>1. Entries(windows, q)' = Entries(windows, q)
      BY <1>3, <1>9, <2>2, <2>4 DEF Entries, Tracked
    <3>2. q \in evicted' <=> q \in evicted
      BY <1>1, <2>4
    <3> QED BY <1>1, <2>1, <3>1, <3>2, SameBook
  <2> QED BY <2>3, <2>4
<1>10. CASE ok
  <2>1. allowed' = [allowed EXCEPT ![p] = Append(a, now)] /\ refused' = <<>> /\ v = Append(r, now)
    BY <1>1, <1>10 DEF Nobody
  <2>2. a \in Seq(Nat) /\ Append(a, now) \in Seq(Nat)
    BY <1>2, AppendElements
  <2>3. allowed' \in [Peer -> Seq(Nat)] /\ allowed'[p] = Append(a, now)
    BY <1>2, <2>1, <2>2
  <2>4. Rising(Append(r, now), now) /\ Rising(Append(a, now), now)
    <3> HIDE DEF a
    <3> QED BY <1>2, <1>5, <1>6, AppendRising
  <2>5. Account(Append(r, now), Append(a, now), ban, now, ev)
    <3>1. ev \in BOOLEAN
      OBVIOUS
    <3> HIDE DEF a, ban, ev
    <3> QED BY <1>2, <1>5, <1>6, <3>1, AppendAccount
  <2>6. ~ev => Spaced(Append(a, now))
    <3> SUFFICES ASSUME ~ev PROVE Spaced(Append(a, now))
      OBVIOUS
    <3>1. ev = FALSE
      OBVIOUS
    <3> HIDE DEF a, ban, ev
    <3>2. Account(r, a, ban, now, FALSE) /\ Spaced(a) /\ Len(r) < max_per_window
      BY <1>5, <1>6, <1>10, <3>1
    <3> QED BY <1>2, <1>5, <1>6, <3>2, SpacedAppend
  <2>7. banned_at'[p] = ban /\ Entries(windows, p)' = Append(r, now)
    BY <1>1, <1>8, <2>1
  <2>8. Book(p)'
    BY <1>1, <1>5, <1>7, <2>3, <2>4, <2>5, <2>6, <2>7 DEF Book
  <2>9. RefusedOnlyAtLimit'
    <3>1. ToSet(refused') = {}
      BY <2>1 DEF ToSet
    <3> QED BY <3>1 DEF RefusedOnlyAtLimit
  <2> QED BY <1>1, <1>2, <1>9, <2>3, <2>8, <2>9 DEF LimitInv
<1>11. CASE ~ok
  <2>1. allowed' = allowed /\ refused' = <<p>> /\ v = r
    BY <1>1, <1>11
  <2>2. Book(p)'
    BY <1>1, <1>5, <1>6, <1>7, <1>8, <2>1 DEF Book
  <2>3. \/ During(p, now - window_duration + 1) >= max_per_window
        \/ banned_at[p] >= 0 /\ now - banned_at[p] < window_duration
    <3>1. ev \in BOOLEAN /\ Len(r) >= max_per_window
      <4>1. Len(r) \in Nat /\ max_per_window \in Nat
        BY <1>6, LimiterNumbers DEF Rising
      <4> QED BY <1>11, <4>1
    <3> HIDE DEF ev
    <3> QED BY <1>2, <1>5, <1>6, <3>1, FullWindow DEF During
  <2>4. RefusedOnlyAtLimit'
    <3>1. ToSet(refused') = {p}
      BY <2>1 DEF ToSet
    <3>2. During(p, now - window_duration + 1)' = During(p, now - window_duration + 1)
      BY <1>1, <2>1 DEF During
    <3> QED BY <1>1, <2>3, <3>1, <3>2 DEF RefusedOnlyAtLimit
  <2> QED BY <1>1, <1>2, <1>9, <2>1, <2>2, <2>4 DEF LimitInv
<1> QED BY <1>10, <1>11

LEMMA BanLimit == ASSUME LimitInv, NEW p \in Banned, Ban(p) PROVE LimitInv'
<1> DEFINE e == [i \in 1..BanLength |-> now]
<1>0. p \in Peer
  BY LimiterAssumption
<1>1. /\ windows' = With(windows, p, e) /\ now' = now /\ allowed' = allowed /\ evicted' = evicted
      /\ banned_at' = [banned_at EXCEPT ![p] = now] /\ refused' = <<>>
  BY DEF Ban, Nobody
<1>2. /\ now \in Nat /\ allowed \in [Peer -> Seq(Nat)] /\ banned_at \in [Peer -> Int]
      /\ \A q \in Peer : Book(q)
  BY DEF LimitInv
<1> HIDE DEF e
<1>3. banned_at' \in [Peer -> Int] /\ banned_at'[p] = now /\ \A q \in Peer : q # p => banned_at'[q] = banned_at[q]
  BY <1>0, <1>1, <1>2
<1>4. Entries(windows, p)' = e /\ \A q : q # p => Entries(windows, q)' = Entries(windows, q)
  BY <1>1 DEF Entries, With
<1>5. Book(p)'
  <2> DEFINE ev == p \in evicted
  <2>1. Rising(allowed[p], now) /\ (~ev => Spaced(allowed[p])) /\ ev \in BOOLEAN
    BY <1>0, <1>2 DEF Book
  <2>2. Rising(e, now) /\ Account(e, allowed[p], now, now, ev)
    <3> HIDE DEF ev
    <3> QED BY <1>2, <2>1, BanAccount DEF e
  <2>3. (p \in evicted') = ev
    BY <1>1
  <2> QED BY <1>1, <1>2, <1>3, <1>4, <2>1, <2>2, <2>3 DEF Book
<1>6. ASSUME NEW q \in Peer, q # p PROVE Book(q)'
  <2>1. /\ Book(q) /\ Entries(windows, q)' = Entries(windows, q) /\ banned_at'[q] = banned_at[q]
        /\ allowed'[q] = allowed[q] /\ (q \in evicted' <=> q \in evicted)
    BY <1>1, <1>2, <1>3, <1>4, <1>6
  <2> QED BY <1>1, <2>1, SameBook
<1>7. RefusedOnlyAtLimit'
  <2>1. ToSet(refused') = {}
    BY <1>1 DEF ToSet
  <2> QED BY <2>1 DEF RefusedOnlyAtLimit
<1> QED BY <1>1, <1>2, <1>3, <1>5, <1>6, <1>7 DEF LimitInv

LEMMA TimePassesLimit == ASSUME LimitInv, TimePasses PROVE LimitInv'
<1>1. /\ windows' = windows /\ now' = now + 1 /\ allowed' = allowed /\ evicted' = evicted
      /\ banned_at' = banned_at /\ refused' = <<>>
  BY DEF TimePasses, Nobody, limiter
<1>2. /\ now \in Nat /\ allowed \in [Peer -> Seq(Nat)] /\ banned_at \in [Peer -> Int]
      /\ \A q \in Peer : Book(q)
  BY DEF LimitInv
<1>3. ASSUME NEW q \in Peer PROVE Book(q)'
  <2> DEFINE e == Entries(windows, q)
             a == allowed[q]
             ban == banned_at[q]
             ev == q \in evicted
  <2>1. /\ Rising(e, now) /\ Rising(a, now) /\ ban \in Int /\ Account(e, a, ban, now, ev)
        /\ (~ev => Spaced(a)) /\ ev \in BOOLEAN
    BY <1>2 DEF Book
  <2>2. Entries(windows, q)' = e /\ allowed'[q] = a /\ banned_at'[q] = ban /\ (q \in evicted') = ev
    BY <1>1 DEF Entries
  <2> HIDE DEF e, a, ban, ev
  <2>3. Rising(e, now + 1) /\ Rising(a, now + 1) /\ Account(e, a, ban, now + 1, ev)
    BY <1>2, <2>1, LaterAccount
  <2> QED BY <1>1, <2>1, <2>2, <2>3 DEF Book
<1>4. RefusedOnlyAtLimit'
  <2>1. ToSet(refused') = {}
    BY <1>1 DEF ToSet
  <2> QED BY <2>1 DEF RefusedOnlyAtLimit
<1> QED BY <1>1, <1>2, <1>3, <1>4 DEF LimitInv

LEMMA InitLimit == LimiterInit => LimitInv
<1> SUFFICES ASSUME LimiterInit PROVE LimitInv
  OBVIOUS
<1>1. /\ windows = <<>> /\ now = 0 /\ allowed = [p \in Peer |-> <<>>] /\ refused = <<>>
      /\ banned_at = [p \in Peer |-> -1] /\ evicted = {}
  BY DEF LimiterInit, Nobody
<1>2. ASSUME NEW p \in Peer PROVE Book(p)
  <2>1. Entries(windows, p) = <<>> /\ allowed[p] = <<>> /\ banned_at[p] = -1
    BY <1>1 DEF Entries
  <2>2. Rising(<<>>, 0)
    BY DEF Rising
  <2>3. Backed(<<>>, <<>>, -1, 0) /\ Complete(<<>>, <<>>, -1, 0, 0)
    BY DEF Backed, Complete
  <2>4. Account(<<>>, <<>>, -1, 0, p \in evicted)
    BY <2>3 DEF Account
  <2>5. Spaced(<<>>)
    <3>1. Len(<<>>) = 0
      OBVIOUS
    <3>2. 1 .. 0 - max_per_window = {}
      BY LimiterNumbers
    <3> QED BY <3>1, <3>2 DEF Spaced
  <2> QED BY <1>1, <2>1, <2>2, <2>4, <2>5 DEF Book
<1>3. RefusedOnlyAtLimit
  <2>1. ToSet(refused) = {}
    BY <1>1 DEF ToSet
  <2> QED BY <2>1 DEF RefusedOnlyAtLimit
<1> QED BY <1>1, <1>2, <1>3 DEF LimitInv

LEMMA NextLimit == LimitInv /\ [LimiterNext]_limiterVars => LimitInv'
<1>1. ASSUME LimitInv, UNCHANGED limiterVars PROVE LimitInv'
  <2>1. /\ windows' = windows /\ now' = now /\ allowed' = allowed /\ evicted' = evicted
        /\ banned_at' = banned_at /\ refused' = refused
    BY <1>1 DEF limiterVars
  <2> QED BY <1>1, <2>1 DEF LimitInv, Book, Entries, RefusedOnlyAtLimit, During
<1> QED BY <1>1, CheckLimit, BanLimit, TimePassesLimit DEF LimiterNext

(* Whatever peers come, are evicted and are banned: a peer that was never evicted is
   allowed no more than max_per_window events in any stretch of window_duration, and
   no peer is refused unless it used up its window or was banned in it (check, ban). *)
THEOREM LimitIsExact == LimiterSpec => []LimitExact
<1>1. LimitInv => LimitExact
  <2> SUFFICES ASSUME LimitInv PROVE LimitExact
    OBVIOUS
  <2>1. ASSUME NEW p \in Peer \ evicted, NEW t \in 0..now PROVE During(p, t) <= max_per_window
    <3>1. now \in Nat /\ Rising(allowed[p], now) /\ Spaced(allowed[p])
      BY <2>1 DEF LimitInv, Book
    <3>2. t \in Nat
      BY <3>1
    <3> QED BY <3>1, <3>2, SpacedCounts DEF During
  <2> QED BY <2>1 DEF LimitExact, MostPerWindow, LimitInv
<1> QED BY <1>1, InitLimit, NextLimit, PTL DEF LimiterSpec

-----------------------------------------------------------------------------
(* The revocation list. *)

Token == [holder : Names \cup {"owner"}, id : Nat, signer : {"master", "other"}, expires : Nat]
Revoker == [pc : {"idle", "loaded", "writing"}, ids : SUBSET Nat, id : Nat]

AccessTypes ==
  /\ today \in Nat /\ revoke_crashes \in Nat
  /\ IsFiniteSet(issued) /\ issued \subseteq Token /\ rejected \subseteq Token
  /\ revoked \in [ids : SUBSET Nat, whole : BOOLEAN]
  /\ revokers \in [Revokers -> Revoker]

OneRevoke ==
  \A p, q \in Revokers : revokers[p].pc # "idle" /\ revokers[q].pc # "idle" => p = q

(* The list is whole unless it is being written, and a Revoke that has loaded it
   holds all that is in it and was reported.                                 *)
ListKept ==
  /\ (\A p \in Revokers : revokers[p].pc # "writing") => revoked.whole /\ reported \subseteq revoked.ids
  /\ \A p \in Revokers : revokers[p].pc # "idle" =>
       /\ revokers[p].id \in revokers[p].ids
       /\ revoked.ids \subseteq revokers[p].ids /\ reported \subseteq revokers[p].ids

(* The list as it will be when the write under way is done. *)
OnList(id) ==
  \/ id \in revoked.ids
  \/ \E p \in Revokers : revokers[p].pc = "writing" /\ id \in revokers[p].ids

(* Why a token is rejected for ever. *)
Dead(t) ==
  \/ t.signer # "master"
  \/ t.expires > 0 /\ today > t.expires
  \/ OnList(t.id)

Undisturbed == ~revokes_raced /\ revoke_crashes = 0

RevokesKept == OneRevoke /\ ListKept /\ \A t \in rejected : Dead(t)

AccessInv == AccessTypes /\ (Undisturbed => RevokesKept)

LEMMA InitAccess == TokenInit => AccessInv
<1> SUFFICES ASSUME TokenInit PROVE AccessInv
  OBVIOUS
<1> DEFINE owner == [holder |-> "owner", id |-> 1, signer |-> "master", expires |-> 0]
<1>1. /\ issued = {owner} /\ today = 1 /\ revoke_crashes = 0 /\ reported = {} /\ rejected = {}
      /\ revoked = [ids |-> {}, whole |-> TRUE]
      /\ revokers = [p \in Revokers |-> [pc |-> "idle", ids |-> {}, id |-> 0]]
  BY DEF TokenInit, Ids, NoRevoke
<1>2. owner \in Token
  BY DEF Token
<1> HIDE DEF owner
<1>3. IsFiniteSet(issued)
  BY <1>1, FS_Singleton
<1>4. AccessTypes
  BY <1>1, <1>2, <1>3 DEF AccessTypes, Revoker
<1>5. RevokesKept
  BY <1>1 DEF RevokesKept, OneRevoke, ListKept
<1> QED BY <1>4, <1>5 DEF AccessInv

(* A token that is issued. *)
LEMMA GrantAccess ==
  ASSUME AccessInv, NEW token,
         issued' = issued \cup {token}, token \in Token,
         UNCHANGED <<today, revoked, revokers, reported, rejected, revokes_raced, revoke_crashes>>
  PROVE  AccessInv'
<1>1. IsFiniteSet(issued')
  BY FS_AddElement DEF AccessInv, AccessTypes
<1>2. AccessTypes'
  BY <1>1 DEF AccessInv, AccessTypes
<1>3. RevokesKept => RevokesKept'
  BY DEF RevokesKept, OneRevoke, ListKept, Dead, OnList
<1>4. Undisturbed' => Undisturbed
  BY DEF Undisturbed
<1> QED BY <1>2, <1>3, <1>4 DEF AccessInv

LEMMA IssuedToken ==
  ASSUME AccessInv, NEW name \in Names, NEW days \in Nat, NEW signer \in {"master", "other"}
  PROVE  issue_token(name, days, signer) \in Token
<1>1. Cardinality(issued) \in Nat /\ today \in Nat
  BY FS_CardinalityType DEF AccessInv, AccessTypes
<1> QED BY <1>1 DEF issue_token, Token

LEMMA RevokeLoadAccess ==
  ASSUME AccessInv, NEW p \in Revokers, NEW token \in issued, RevokeLoad(p, token.id)
  PROVE  AccessInv'
<1> DEFINE r == [pc |-> "loaded", ids |-> revoked.ids \cup {token.id}, id |-> token.id]
<1>1. /\ revokers' = [revokers EXCEPT ![p] = r]
      /\ UNCHANGED <<today, issued, revoked, reported, rejected, revoke_crashes>>
  BY DEF RevokeLoad
<1>2. token.id \in Nat /\ revoked.ids \in SUBSET Nat
  BY DEF AccessInv, AccessTypes, Token
<1>3. r \in Revoker
  BY <1>2 DEF Revoker
<1>4. r.pc = "loaded" /\ r.ids = revoked.ids \cup {token.id} /\ r.id = token.id
  OBVIOUS
<1> HIDE DEF r
<1>5. AccessTypes'
  BY <1>1, <1>3 DEF AccessInv, AccessTypes
<1>6. ASSUME Undisturbed' PROVE RevokesKept'
  <2>1. Undisturbed /\ \A q \in Revokers : revokers[q] = NoRevoke
    BY <1>1, <1>6, Zenon DEF Undisturbed, RevokeLoad
  <2>2. RevokesKept /\ \A q \in Revokers : revokers[q].pc = "idle"
    BY <2>1 DEF AccessInv, NoRevoke
  <2>3. revokers'[p] = r /\ \A q \in Revokers : q # p => revokers'[q].pc = "idle"
    BY <1>1, <2>2 DEF AccessInv, AccessTypes
  <2>4. reported \subseteq revoked.ids /\ revoked.whole
    BY <2>2 DEF RevokesKept, ListKept
  <2>5. OneRevoke' /\ ListKept'
    BY <1>1, <1>4, <2>3, <2>4 DEF OneRevoke, ListKept
  <2>6. \A t \in rejected' : Dead(t)'
    BY <1>1, <2>2 DEF RevokesKept, Dead, OnList
  <2> QED BY <2>5, <2>6 DEF RevokesKept
<1> QED BY <1>5, <1>6 DEF AccessInv

LEMMA RevokeTruncateAccess ==
  ASSUME AccessInv, NEW p \in Revokers, RevokeTruncate(p)
  PROVE  AccessInv'
<1>1. /\ revokers[p].pc = "loaded" /\ revokers' = [revokers EXCEPT ![p].pc = "writing"]
      /\ revoked' = [ids |-> {}, whole |-> FALSE]
      /\ UNCHANGED <<today, issued, reported, rejected, revoke_crashes>>
  BY DEF RevokeTruncate, TornList
<1>2. revokers[p] \in Revoker
  BY DEF AccessInv, AccessTypes
<1>3. /\ revokers'[p].pc = "writing" /\ revokers'[p].ids = revokers[p].ids
      /\ revokers'[p].id = revokers[p].id /\ revokers' \in [Revokers -> Revoker]
      /\ \A q \in Revokers : q # p => revokers'[q] = revokers[q]
  BY <1>1, <1>2 DEF Revoker, AccessInv, AccessTypes
<1>4. AccessTypes'
  BY <1>1, <1>3 DEF AccessInv, AccessTypes
<1>5. ASSUME Undisturbed' PROVE RevokesKept'
  <2>1. RevokesKept
    BY <1>5, Zenon DEF Undisturbed, RevokeTruncate, AccessInv
  <2>2. \A q \in Revokers : q # p => revokers[q].pc = "idle"
    BY <1>1, <2>1 DEF RevokesKept, OneRevoke
  <2>3. OneRevoke' /\ ListKept'
    BY <1>1, <1>3, <2>1, <2>2 DEF RevokesKept, OneRevoke, ListKept
  <2>4. \A t \in rejected' : Dead(t)'
    BY <1>1, <1>3, <2>1, <2>2 DEF RevokesKept, ListKept, Dead, OnList
  <2> QED BY <2>3, <2>4 DEF RevokesKept
<1> QED BY <1>4, <1>5 DEF AccessInv

LEMMA RevokeWriteAccess ==
  ASSUME AccessInv, NEW p \in Revokers, RevokeWrite(p)
  PROVE  AccessInv'
<1> DEFINE idle == [pc |-> "idle", ids |-> {}, id |-> 0]
<1>1. /\ revokers[p].pc = "writing" /\ revokers' = [revokers EXCEPT ![p] = idle]
      /\ revoked' = [ids |-> revokers[p].ids, whole |-> TRUE]
      /\ reported' = reported \cup {revokers[p].id}
      /\ UNCHANGED <<today, issued, rejected, revoke_crashes>>
  BY DEF RevokeWrite, Ids, NoRevoke
<1>2. revokers[p] \in Revoker /\ idle \in Revoker /\ idle.pc = "idle"
  BY DEF AccessInv, AccessTypes, Revoker
<1> HIDE DEF idle
<1>3. revokers'[p] = idle /\ \A q \in Revokers : q # p => revokers'[q] = revokers[q]
  BY <1>1 DEF AccessInv, AccessTypes
<1>4. AccessTypes'
  BY <1>1, <1>2 DEF AccessInv, AccessTypes, Revoker
<1>5. ASSUME Undisturbed' PROVE RevokesKept'
  <2>1. RevokesKept
    BY <1>5, Zenon DEF Undisturbed, RevokeWrite, AccessInv
  <2>2. \A q \in Revokers : q # p => revokers[q].pc = "idle"
    BY <1>1, <2>1 DEF RevokesKept, OneRevoke
  <2>3. \A q \in Revokers : revokers'[q].pc = "idle"
    BY <1>2, <1>3, <2>2
  <2>4. OneRevoke' /\ ListKept'
    BY <1>1, <2>1, <2>3 DEF RevokesKept, OneRevoke, ListKept
  <2>5. \A t \in rejected' : Dead(t)'
    BY <1>1, <2>1, <2>2 DEF RevokesKept, ListKept, Dead, OnList
  <2> QED BY <2>4, <2>5 DEF RevokesKept
<1> QED BY <1>4, <1>5 DEF AccessInv

LEMMA RevokeCrashAccess ==
  ASSUME AccessInv, NEW p \in Revokers, RevokeCrash(p)
  PROVE  AccessInv'
<1> DEFINE idle == [pc |-> "idle", ids |-> {}, id |-> 0]
<1>1. /\ revokers' = [revokers EXCEPT ![p] = idle] /\ revoke_crashes' = revoke_crashes + 1
      /\ UNCHANGED <<today, issued, revoked, reported, rejected>>
  BY DEF RevokeCrash, NoRevoke
<1>2. idle \in Revoker
  BY DEF Revoker
<1> HIDE DEF idle
<1>3. AccessTypes' /\ revoke_crashes' # 0
  BY <1>1, <1>2 DEF AccessInv, AccessTypes
<1> QED BY <1>3 DEF AccessInv, Undisturbed

LEMMA VerifyAccess ==
  ASSUME AccessInv, NEW token \in issued, VerifyToken(token)
  PROVE  AccessInv'
<1>1. /\ rejected' = rejected \cup {token} /\ ~Valid(token)
      /\ UNCHANGED <<today, issued, revoked, revokers, reported, revokes_raced, revoke_crashes>>
  BY DEF VerifyToken
<1>2. token \in Token /\ token.expires \in Nat /\ today \in Nat
  BY DEF AccessInv, AccessTypes, Token
<1>3. Dead(token)
  BY <1>1, <1>2 DEF Valid, RevokedIds, Dead, OnList
<1>4. AccessTypes' /\ (OneRevoke /\ ListKept => OneRevoke' /\ ListKept')
  BY <1>1, <1>2 DEF AccessInv, AccessTypes, OneRevoke, ListKept
<1>5. \A t : Dead(t) => Dead(t)'
  BY <1>1 DEF Dead, OnList
<1>6. Undisturbed' => Undisturbed
  BY <1>1 DEF Undisturbed
<1> QED BY <1>1, <1>3, <1>4, <1>5, <1>6 DEF AccessInv, RevokesKept

LEMMA DayPassesAccess ==
  ASSUME AccessInv, DayPasses
  PROVE  AccessInv'
<1>1. /\ today \in Nat /\ today' = today + 1
      /\ UNCHANGED <<issued, revoked, revokers, reported, rejected, revokes_raced, revoke_crashes>>
  BY DEF DayPasses, AccessInv, AccessTypes
<1>2. AccessTypes' /\ (OneRevoke /\ ListKept => OneRevoke' /\ ListKept')
  BY <1>1 DEF AccessInv, AccessTypes, OneRevoke, ListKept
<1>3. ASSUME NEW t \in rejected, Dead(t) PROVE Dead(t)'
  <2>1. t.expires \in Nat
    BY DEF AccessInv, AccessTypes, Token
  <2> QED BY <1>1, <1>3, <2>1 DEF Dead, OnList
<1>4. Undisturbed' => Undisturbed
  BY <1>1 DEF Undisturbed
<1> QED BY <1>1, <1>2, <1>3, <1>4 DEF AccessInv, RevokesKept

LEMMA NextAccess ==
  ASSUME Days \subseteq Nat
  PROVE  AccessInv /\ [TokenNext]_tokenVars => AccessInv'
<1> SUFFICES ASSUME AccessInv, [TokenNext]_tokenVars PROVE AccessInv'
  OBVIOUS
<1>1. ASSUME NEW name \in Names, ForeignToken(name) PROVE AccessInv'
  <2> DEFINE token == issue_token(name, 0, "other")
  <2>1. token \in Token
    BY IssuedToken
  <2>2. issued' = issued \cup {token}
        /\ UNCHANGED <<today, revoked, revokers, reported, rejected, revokes_raced, revoke_crashes>>
    BY <1>1 DEF ForeignToken
  <2> HIDE DEF token
  <2> QED BY <2>1, <2>2, GrantAccess
<1>2. ASSUME NEW name \in Names, NEW days \in Days, Grant(name, days) PROVE AccessInv'
  <2> DEFINE token == issue_token(name, days, "master")
  <2>1. token \in Token
    BY IssuedToken
  <2>2. issued' = issued \cup {token}
        /\ UNCHANGED <<today, revoked, revokers, reported, rejected, revokes_raced, revoke_crashes>>
    BY <1>2 DEF Grant
  <2> HIDE DEF token
  <2> QED BY <2>1, <2>2, GrantAccess
<1>3. CASE UNCHANGED tokenVars
  <2>1. AccessTypes' /\ (RevokesKept => RevokesKept')
    BY <1>3 DEF tokenVars, AccessInv, AccessTypes, RevokesKept, OneRevoke, ListKept, Dead, OnList
  <2>2. Undisturbed' => Undisturbed
    BY <1>3 DEF tokenVars, Undisturbed
  <2> QED BY <2>1, <2>2 DEF AccessInv
<1> QED BY <1>1, <1>2, <1>3, RevokeLoadAccess, RevokeTruncateAccess, RevokeWriteAccess,
           RevokeCrashAccess, VerifyAccess, DayPassesAccess DEF TokenNext

(* A token whose revocation was reported, or that VerifyToken rejected, is never
   accepted again, as long as no two Revoke commands have run at the same time
   and none has died half way (Revoke, verify_with_revocation).             *)
THEOREM NoTokenComesBack ==
  ASSUME Days \subseteq Nat
  PROVE  TokenSpec => []NoneComesBack
<1>1. AccessInv => NoneComesBack
  <2> SUFFICES ASSUME AccessInv, Undisturbed, ListAtRest
               PROVE  /\ \A t \in issued : t.id \in reported => ~Valid(t)
                      /\ \A t \in rejected : ~Valid(t)
    BY DEF NoneComesBack, RevokedIsInvalid, RejectedForGood, Undisturbed
  <2>1. \A p \in Revokers : revokers[p].pc # "writing"
    BY DEF ListAtRest
  <2>2. RevokesKept
    BY DEF AccessInv
  <2>3. reported \subseteq revoked.ids
    BY <2>1, <2>2 DEF RevokesKept, ListKept
  <2>4. ASSUME NEW t \in rejected PROVE ~Valid(t)
    <3>1. Dead(t) /\ t.expires \in Nat /\ today \in Nat
      BY <2>2 DEF RevokesKept, AccessInv, AccessTypes, Token
    <3> QED BY <2>1, <3>1 DEF Dead, OnList, Valid, RevokedIds
  <2> QED BY <2>3, <2>4 DEF Valid, RevokedIds
<1> QED BY <1>1, InitAccess, NextAccess, PTL DEF TokenSpec

-----------------------------------------------------------------------------
(* The vault. *)

Secret == [ecdsa : Nat, seed : Nat]
KeyEntry == [label : Labels \cup {"master-key", "default-wallet"}, key : Secret]
VaultFile == [state : {"absent", "torn", "whole"}, entries : Seq(KeyEntry)]
Command == [pc : {"idle", "init", "opened", "writing", "pub", "backup"},
            entries : Seq(KeyEntry), new : SUBSET KeyEntry]

VaultTypes ==
  /\ vault \in VaultFile /\ backup \in VaultFile
  /\ proc \in [Procs -> Command]
  /\ fresh \in Nat /\ master_pub \in Nat /\ crashes \in Nat
  /\ phrases \subseteq [ecdsa : Nat, of : Secret]

(* The entries begin with two keys of an Init, a pair of M. *)
First(s, M) ==
  /\ Len(s) >= 2 /\ <<s[1], s[2]>> \in M
  /\ s[1].label = "master-key" /\ s[1].key.seed = 0
  /\ s[2].label = "default-wallet"

(* Every list of entries there is begins with them. *)
FirstKept ==
  /\ vault.state = "whole" => First(vault.entries, made)
  /\ backup.state = "whole" => First(backup.entries, made)
  /\ \A p \in Procs : proc[p].pc \in {"opened", "writing", "pub"} => First(proc[p].entries, made)

FirstInv == VaultTypes /\ FirstKept

LEMMA AppendFirst ==
  ASSUME NEW s \in Seq(KeyEntry), NEW e \in KeyEntry, NEW M, First(s, M)
  PROVE  Append(s, e) \in Seq(KeyEntry) /\ First(Append(s, e), M)
<1>1. Append(s, e) \in Seq(KeyEntry) /\ Len(Append(s, e)) = Len(s) + 1 /\ Len(s) \in Nat
  OBVIOUS
<1>2. Len(s) >= 2
  BY DEF First
<1>3. Append(s, e)[1] = s[1] /\ Append(s, e)[2] = s[2]
  BY <1>1, <1>2
<1> QED BY <1>1, <1>2, <1>3 DEF First

(* What Init writes, and what the other commands add. *)
LEMMA FirstEntries ==
  ASSUME NEW n \in Nat, NEW M
  PROVE  LET e1 == Entry("master-key", Master(n))
             e2 == Entry("default-wallet", Random(n + 1, n + 2))
         IN  /\ e1 \in KeyEntry /\ e2 \in KeyEntry /\ <<e1, e2>> \in Seq(KeyEntry)
             /\ <<e1, e2>> \in M => First(<<e1, e2>>, M)
<1> DEFINE e1 == Entry("master-key", Master(n))
           e2 == Entry("default-wallet", Random(n + 1, n + 2))
<1>1. e1 \in KeyEntry /\ e1.label = "master-key" /\ e1.key.seed = 0
  BY DEF Entry, Master, KeyEntry, Secret
<1>2. e2 \in KeyEntry /\ e2.label = "default-wallet"
  BY DEF Entry, Random, KeyEntry, Secret
<1> HIDE DEF e1, e2
<1>3. <<e1, e2>> \in Seq(KeyEntry) /\ Len(<<e1, e2>>) = 2 /\ <<e1, e2>>[1] = e1 /\ <<e1, e2>>[2] = e2
  BY <1>1, <1>2
<1>4. <<e1, e2>> \in M => First(<<e1, e2>>, M)
  BY <1>1, <1>2, <1>3 DEF First
<1> QED BY <1>1, <1>2, <1>3, <1>4 DEF e1, e2

LEMMA DerivedEntry ==
  ASSUME NEW label \in Labels, NEW n \in Nat
  PROVE  Entry(label, Derived(n)) \in KeyEntry
  BY DEF Entry, Derived, KeyEntry, Secret

LEMMA InitVaultInv == Init => FirstInv
<1> SUFFICES ASSUME Init PROVE FirstInv
  OBVIOUS
<1>1. <<>> \in Seq(KeyEntry)
  OBVIOUS
<1>2. VaultTypes
  BY <1>1 DEF Init, Absent, Idle, VaultTypes, VaultFile, Command
<1>3. FirstKept
  BY DEF Init, Absent, Idle, FirstKept
<1> QED BY <1>2, <1>3 DEF FirstInv

(* Inits add to the pairs generated. *)
LEMMA FirstGrows ==
  ASSUME NEW s, NEW M, NEW N, M \subseteq N, First(s, M)
  PROVE  First(s, N)
  BY DEF First

(* A command p goes on to r, and the vault file becomes v. *)
LEMMA CommandStep ==
  ASSUME FirstInv, NEW p \in Procs, NEW r \in Command, proc' = [proc EXCEPT ![p] = r],
         made \subseteq made', r.pc \in {"opened", "writing", "pub"} => First(r.entries, made'),
         vault' \in VaultFile, vault'.state = "whole" => First(vault'.entries, made'),
         backup' \in VaultFile, backup'.state = "whole" => First(backup'.entries, made'),
         fresh' \in Nat, master_pub' \in Nat, crashes' \in Nat,
         phrases' \subseteq [ecdsa : Nat, of : Secret]
  PROVE  FirstInv'
<1>1. proc' \in [Procs -> Command]
  BY DEF FirstInv, VaultTypes
<1>2. VaultTypes'
  BY <1>1 DEF VaultTypes
<1>3. \A q \in Procs : proc'[q].pc \in {"opened", "writing", "pub"} => First(proc'[q].entries, made')
  <2> SUFFICES ASSUME NEW q \in Procs, proc'[q].pc \in {"opened", "writing", "pub"}
               PROVE  First(proc'[q].entries, made')
    OBVIOUS
  <2>1. CASE q = p
    <3>1. proc'[q] = r
      BY <2>1 DEF FirstInv, VaultTypes
    <3> QED BY <3>1
  <2>2. CASE q # p
    <3>1. proc'[q] = proc[q]
      BY <2>2 DEF FirstInv, VaultTypes
    <3> QED BY <3>1, FirstGrows DEF FirstInv, FirstKept
  <2> QED BY <2>1, <2>2
<1> QED BY <1>2, <1>3 DEF FirstInv, FirstKept

(* What each step makes of the command and of the vault file. *)
LEMMA CommandTypes ==
  ASSUME VaultTypes, NEW p \in Procs
  PROVE  /\ proc[p] \in Command /\ proc[p].entries \in Seq(KeyEntry) /\ proc[p].new \subseteq KeyEntry
         /\ vault.entries \in Seq(KeyEntry) /\ Idle \in Command /\ Torn \in VaultFile
         /\ Idle.pc = "idle" /\ Torn.state = "torn"
  BY DEF VaultTypes, Command, VaultFile, Idle, Torn

LEMMA PcChange ==
  ASSUME NEW r \in Command, NEW pc
  PROVE  [r EXCEPT !.pc = pc] = [pc |-> pc, entries |-> r.entries, new |-> r.new]
  BY DEF Command

LEMMA InitCheckFirst ==
  ASSUME FirstInv, NEW p \in Procs, InitCheck(p)
  PROVE  FirstInv'
<1> DEFINE r == [pc |-> "init", entries |-> proc[p].entries, new |-> proc[p].new]
<1>1. proc[p] \in Command /\ proc[p].entries \in Seq(KeyEntry) /\ proc[p].new \in SUBSET KeyEntry
  BY CommandTypes DEF FirstInv
<1>2. proc' = [proc EXCEPT ![p] = r]
  <2>1. [proc[p] EXCEPT !.pc = "init"] = r
    BY <1>1, PcChange
  <2> QED BY <2>1 DEF InitCheck
<1>3. r \in Command /\ r.pc = "init"
  BY <1>1 DEF Command
<1> HIDE DEF r
<1> QED BY <1>2, <1>3, CommandStep DEF InitCheck, FirstInv, VaultTypes, FirstKept

LEMMA TruncateFirst ==
  ASSUME FirstInv, NEW p \in Procs, NEW s \in Seq(KeyEntry), NEW new \in SUBSET KeyEntry,
         First(s, made'), made \subseteq made', Truncate(p, s, new), fresh' \in Nat,
         UNCHANGED <<master_pub, backup, phrases, crashes>>
  PROVE  FirstInv'
<1> DEFINE r == [pc |-> "writing", entries |-> s, new |-> new]
<1>1. proc' = [proc EXCEPT ![p] = r] /\ vault' = Torn
  BY DEF Truncate
<1>2. r \in Command /\ r.entries = s
  BY DEF Command
<1>3. vault' \in VaultFile /\ vault'.state # "whole"
  BY <1>1, CommandTypes DEF FirstInv
<1> HIDE DEF r
<1>4. backup'.state = "whole" => First(backup'.entries, made')
  BY FirstGrows DEF FirstInv, FirstKept
<1> QED BY <1>1, <1>2, <1>3, <1>4, CommandStep DEF FirstInv, VaultTypes

LEMMA InitVaultFirst ==
  ASSUME FirstInv, NEW p \in Procs, InitVault(p)
  PROVE  FirstInv'
<1> DEFINE e1 == Entry("master-key", Master(fresh))
           e2 == Entry("default-wallet", Random(fresh + 1, fresh + 2))
           s == <<e1, e2>>
           new == ToSet(s)
<1>1. fresh \in Nat
  BY DEF FirstInv, VaultTypes
<1>2. /\ Truncate(p, s, new) /\ fresh' = fresh + 3 /\ made' = made \cup {s}
      /\ UNCHANGED <<master_pub, backup, phrases, crashes>>
  BY DEF InitVault
<1>3. s \in Seq(KeyEntry) /\ First(s, made')
  <2>1. s \in made'
    BY <1>2
  <2> QED BY <1>1, <2>1, FirstEntries
<1> HIDE DEF e1, e2, s
<1>4. new \in SUBSET KeyEntry
  BY <1>3 DEF ToSet
<1> HIDE DEF new
<1>5. fresh' \in Nat
  BY <1>1, <1>2
<1> QED BY <1>2, <1>3, <1>4, <1>5, TruncateFirst

LEMMA NewWalletFirst ==
  ASSUME FirstInv, NEW p \in Procs, NEW label \in Labels, NewWallet(p, label)
  PROVE  FirstInv'
<1> DEFINE e == Entry(label, Derived(fresh))
           s == Append(proc[p].entries, e)
<1>1. fresh \in Nat /\ proc[p].entries \in Seq(KeyEntry)
  BY CommandTypes DEF FirstInv, VaultTypes
<1>2. /\ proc[p].pc = "opened" /\ Truncate(p, s, {e}) /\ fresh' = fresh + 1
      /\ UNCHANGED <<master_pub, backup, phrases, made, crashes>>
  BY DEF NewWallet
<1>3. e \in KeyEntry
  BY <1>1, DerivedEntry
<1>4. First(proc[p].entries, made)
  BY <1>2 DEF FirstInv, FirstKept
<1> HIDE DEF e
<1>5. s \in Seq(KeyEntry) /\ First(s, made)
  BY <1>1, <1>3, <1>4, AppendFirst
<1> HIDE DEF s
<1>6. fresh' \in Nat /\ {e} \in SUBSET KeyEntry /\ First(s, made')
  BY <1>1, <1>2, <1>3, <1>5
<1> QED BY <1>2, <1>5, <1>6, TruncateFirst

LEMMA RestoreWalletFirst ==
  ASSUME FirstInv, NEW p \in Procs, NEW label \in Labels, NEW phrase \in phrases,
         RestoreWallet(p, label, phrase)
  PROVE  FirstInv'
<1> DEFINE e == Entry(label, Derived(phrase.ecdsa))
           s == Append(proc[p].entries, e)
<1>1. phrase.ecdsa \in Nat /\ fresh \in Nat /\ proc[p].entries \in Seq(KeyEntry)
  BY CommandTypes DEF FirstInv, VaultTypes
<1>2. /\ proc[p].pc = "opened" /\ Truncate(p, s, {e}) /\ fresh' = fresh
      /\ UNCHANGED <<master_pub, backup, phrases, made, crashes>>
  BY DEF RestoreWallet
<1>3. e \in KeyEntry
  BY <1>1, DerivedEntry
<1>4. First(proc[p].entries, made)
  BY <1>2 DEF FirstInv, FirstKept
<1> HIDE DEF e
<1>5. s \in Seq(KeyEntry) /\ First(s, made)
  BY <1>1, <1>3, <1>4, AppendFirst
<1> HIDE DEF s
<1>6. fresh' \in Nat /\ {e} \in SUBSET KeyEntry /\ First(s, made')
  BY <1>1, <1>2, <1>3, <1>5
<1> QED BY <1>2, <1>5, <1>6, TruncateFirst

LEMMA OpenFirst ==
  ASSUME FirstInv, NEW p \in Procs, NEW pc \in {"opened", "backup"}, Open(p, pc),
         UNCHANGED <<vault, master_pub, backup, fresh, phrases, made, crashes>>
  PROVE  FirstInv'
<1> DEFINE r == [pc |-> pc, entries |-> vault.entries, new |-> {}]
<1>1. vault.state = "whole" /\ proc' = [proc EXCEPT ![p] = r]
  BY DEF Open
<1>2. r \in Command /\ r.entries = vault.entries
  BY CommandTypes DEF FirstInv, Command
<1>3. First(vault.entries, made)
  BY <1>1 DEF FirstInv, FirstKept
<1> HIDE DEF r
<1> QED BY <1>1, <1>2, <1>3, CommandStep DEF FirstInv, VaultTypes, FirstKept

LEMMA WriteVaultFirst ==
  ASSUME FirstInv, NEW p \in Procs, WriteVault(p)
  PROVE  FirstInv'
<1> DEFINE c == proc[p]
<1>1. /\ c.pc = "writing" /\ c \in Command /\ c.entries \in Seq(KeyEntry) /\ c.new \subseteq KeyEntry
      /\ First(c.entries, made)
  BY CommandTypes DEF WriteVault, FirstInv, FirstKept
<1>2. /\ vault' = Whole(c.entries) \/ vault' = Torn
      /\ UNCHANGED <<master_pub, backup, fresh, made, crashes>>
  BY DEF WriteVault, Filled
<1>3. vault' \in VaultFile /\ (vault'.state = "whole" => First(vault'.entries, made))
  <2>1. Whole(c.entries) \in VaultFile /\ Whole(c.entries).entries = c.entries
    BY <1>1 DEF Whole, VaultFile
  <2>2. Torn \in VaultFile /\ Torn.state # "whole"
    BY CommandTypes DEF FirstInv
  <2> QED BY <1>1, <1>2, <2>1, <2>2
<1>4. CASE Head(c.entries) \in c.new
  <2> DEFINE r == [pc |-> "pub", entries |-> c.entries, new |-> c.new]
  <2>1. proc' = [proc EXCEPT ![p] = r]
    <3>1. [proc[p] EXCEPT !.pc = "pub"] = r
      BY <1>1, PcChange
    <3> QED BY <1>4, <3>1 DEF WriteVault
  <2>2. r \in Command /\ r.entries = c.entries
    BY <1>1 DEF Command
  <2>3. phrases' = phrases
    BY <1>4 DEF WriteVault
  <2> HIDE DEF r, c
  <2> QED BY <1>1, <1>2, <1>3, <2>1, <2>2, <2>3, CommandStep DEF FirstInv, VaultTypes, FirstKept
<1>5. CASE Head(c.entries) \notin c.new
  <2>1. /\ proc' = [proc EXCEPT ![p] = Idle]
        /\ phrases' = phrases \cup {[ecdsa |-> e.key.ecdsa, of |-> e.key] : e \in c.new}
    BY <1>5 DEF WriteVault
  <2>2. \A e \in c.new : [ecdsa |-> e.key.ecdsa, of |-> e.key] \in [ecdsa : Nat, of : Secret]
    BY <1>1 DEF KeyEntry, Secret
  <2>3. phrases' \subseteq [ecdsa : Nat, of : Secret]
    BY <2>1, <2>2 DEF FirstInv, VaultTypes
  <2>4. Idle \in Command /\ Idle.pc = "idle"
    BY CommandTypes DEF FirstInv
  <2> HIDE DEF c
  <2> QED BY <1>2, <1>3, <2>1, <2>3, <2>4, CommandStep DEF FirstInv, VaultTypes, FirstKept
<1> QED BY <1>4, <1>5

(* The commands that end. *)
LEMMA EndFirst ==
  ASSUME FirstInv, NEW p \in Procs, proc' = [proc EXCEPT ![p] = Idle],
         backup' \in {backup, vault}, master_pub' \in Nat, crashes' \in Nat,
         UNCHANGED <<vault, fresh, phrases, made>>
  PROVE  FirstInv'
<1>1. Idle \in Command /\ Idle.pc = "idle"
  BY CommandTypes DEF FirstInv
<1> QED BY <1>1, CommandStep DEF FirstInv, VaultTypes, FirstKept

(* The phrase that is shown is that of an entry. *)
LEMMA ShowPhraseFirst ==
  ASSUME FirstInv, NEW label, ShowPhrase(label)
  PROVE  FirstInv'
<1> DEFINE s == vault.entries
           I == {i \in 1..Len(s) : s[i].label = label}
           k == Named(s, label)
<1>1. s \in Seq(KeyEntry)
  BY DEF FirstInv, VaultTypes, VaultFile
<1>2. I # {} /\ I \subseteq Nat
  <2>1. label \in {s[i].label : i \in DOMAIN s}
    BY DEF ShowPhrase, LabelsOf
  <2> HIDE DEF s
  <2> QED BY <1>1, <2>1
<1>3. k = Min(I)
  BY <1>2 DEF Named, SelectInSeq
<1>4. \E x \in I : \A y \in I : x <= y
  <2> HIDE DEF I
  <2> QED BY <1>2, LeastElement
<1>5. k \in I
  <2> HIDE DEF I, k
  <2> QED BY <1>3, <1>4 DEF Min
<1>6. s[k] \in KeyEntry
  <2> HIDE DEF s, k
  <2> QED BY <1>1, <1>5
<1>7. /\ phrases' = phrases \cup {[ecdsa |-> s[k].key.ecdsa, of |-> s[k].key]}
      /\ UNCHANGED <<vault, master_pub, proc, backup, fresh, made, crashes>>
  BY DEF ShowPhrase
<1> HIDE DEF s, k
<1>8. phrases' \subseteq [ecdsa : Nat, of : Secret]
  BY <1>6, <1>7 DEF FirstInv, VaultTypes, KeyEntry, Secret
<1> QED BY <1>7, <1>8 DEF FirstInv, VaultTypes, FirstKept

LEMMA NextFirst == FirstInv /\ [Next]_vars => FirstInv'
<1> SUFFICES ASSUME FirstInv, [Next]_vars PROVE FirstInv'
  OBVIOUS
<1>1. ASSUME NEW p \in Procs, OpenForUpdate(p) \/ BackupOpen(p) PROVE FirstInv'
  BY <1>1, OpenFirst DEF OpenForUpdate, BackupOpen
<1>2. ASSUME NEW p \in Procs, BackupCopy(p) PROVE FirstInv'
  BY <1>2, EndFirst DEF BackupCopy, FirstInv, VaultTypes
<1>3. ASSUME NEW p \in Procs, Crash(p) PROVE FirstInv'
  <2>1. /\ proc' = [proc EXCEPT ![p] = Idle] /\ crashes' = crashes + 1
        /\ UNCHANGED <<vault, master_pub, backup, fresh, phrases, made>>
    BY <1>3 DEF Crash
  <2>2. crashes' \in Nat /\ master_pub' \in Nat
    BY <2>1 DEF FirstInv, VaultTypes
  <2> QED BY <2>1, <2>2, EndFirst
<1>4. ASSUME NEW p \in Procs, InitPublicKey(p) PROVE FirstInv'
  <2>1. Head(proc[p].entries).key.ecdsa \in Nat
    <3>1. proc[p].entries \in Seq(KeyEntry) /\ Len(proc[p].entries) >= 2
      BY <1>4, CommandTypes DEF InitPublicKey, FirstInv, FirstKept, First
    <3>2. Head(proc[p].entries) \in KeyEntry
      BY <3>1
    <3> QED BY <3>2 DEF KeyEntry, Secret
  <2>2. /\ proc' = [proc EXCEPT ![p] = Idle] /\ master_pub' = Head(proc[p].entries).key.ecdsa
        /\ UNCHANGED <<vault, backup, fresh, phrases, made, crashes>>
    BY <1>4 DEF InitPublicKey
  <2> QED BY <2>1, <2>2, EndFirst DEF FirstInv, VaultTypes
<1>5. CASE LoseData
  <2>1. vault' = [state |-> "absent", entries |-> <<>>] /\ master_pub' = 0
        /\ UNCHANGED <<proc, backup, fresh, phrases, made, crashes>>
    BY <1>5 DEF LoseData, Absent
  <2>2. vault' \in VaultFile /\ vault'.state # "whole"
    BY <2>1 DEF VaultFile
  <2> QED BY <2>1, <2>2 DEF FirstInv, VaultTypes, FirstKept
<1>6. CASE CopyBack
  BY <1>6 DEF CopyBack, FirstInv, VaultTypes, FirstKept
<1>7. CASE UNCHANGED vars
  BY <1>7 DEF vars, FirstInv, VaultTypes, FirstKept
<1> QED BY <1>1, <1>2, <1>3, <1>4, <1>5, <1>6, <1>7, InitCheckFirst, InitVaultFirst,
           NewWalletFirst, RestoreWalletFirst, WriteVaultFirst, ShowPhraseFirst DEF Next

(* However many commands run at the same time, and wherever they die, a vault that
   opens begins with the master key and the default wallet that one Init generated
   together, in that order (open_vault, create_vault).                      *)
THEOREM VaultStartsWithItsKeys == Spec => []FirstKeysSurvive
<1>1. FirstInv => FirstKeysSurvive
  BY DEF FirstKeysSurvive, FirstInv, FirstKept, First
<1> QED BY <1>1, InitVaultInv, NextFirst, PTL DEF Spec

-----------------------------------------------------------------------------
(* As long as commands do not overlap or die. *)

(* The wallets of S are in s, where ListWallets shows them. *)
Shows(s, S) ==
  \A e \in S : IsWallet(e) => e.label # "master-key" /\ \E i \in 1..Len(s) : s[i] = e

Belongs(s) == master_pub = 0 \/ s[1].key.ecdsa = master_pub

OneCommand == \A p, q \in Procs : proc[p].pc # "idle" /\ proc[q].pc # "idle" => p = q

Others(p) == \A q \in Procs : q # p => proc[q].pc = "idle"

(* The vault is what the command under way has read, or will be what it writes. *)
CommandKept(c) ==
  /\ c.pc = "init" => vault = Absent
  /\ c.pc = "opened" => vault.state = "whole" /\ vault.entries = c.entries
  /\ c.pc = "backup" => vault.state = "whole"
  /\ c.pc = "writing" =>
       /\ vault = Torn
       /\ Shows(c.entries, saved) /\ Shows(c.entries, c.new) /\ Belongs(c.entries)
  /\ c.pc = "pub" =>
       /\ vault.state = "whole" /\ vault.entries = c.entries
       /\ Shows(c.entries, c.new)

KeysKept ==
  /\ vault.state = "absent" => vault = Absent /\ saved = {} /\ master_pub = 0
  /\ vault.state = "whole" => Shows(vault.entries, saved) /\ Belongs(vault.entries)
  /\ backup # Absent => backup.state = "whole" /\ Shows(backup.entries, covered)

TornByWriter == vault.state = "torn" => \E p \in Procs : proc[p].pc = "writing"

KeptInv ==
  /\ FirstInv /\ OneCommand /\ TornByWriter /\ KeysKept
  /\ \A p \in Procs : CommandKept(proc[p])

Calm == ~raced /\ crashes = 0

VaultInv == FirstInv /\ (Calm => KeptInv)

LEMMA InitKept == Init => KeptInv
<1> SUFFICES ASSUME Init PROVE KeptInv
  OBVIOUS
<1>1. KeysKept
  BY DEF Init, Absent, KeysKept
<1>2. OneCommand /\ TornByWriter /\ \A p \in Procs : CommandKept(proc[p])
  BY DEF Init, Absent, Idle, CommandKept, OneCommand, TornByWriter
<1> QED BY <1>1, <1>2, InitVaultInv DEF KeptInv

LEMMA OthersIdle ==
  ASSUME KeptInv, NEW p \in Procs, proc[p].pc # "idle"
  PROVE  Others(p)
  BY DEF KeptInv, OneCommand, Others

LEMMA AllIdle ==
  ASSUME \A q \in Procs : proc[q] = Idle, NEW p \in Procs
  PROVE  Others(p)
  BY DEF Idle, Others

(* If the other commands rest, the next state of this one and the files are all
   there is to check.                                                        *)
LEMMA AloneStep ==
  ASSUME FirstInv, FirstInv', NEW p \in Procs, Others(p), NEW r, proc' = [proc EXCEPT ![p] = r],
         KeysKept', CommandKept(proc[p])', vault'.state = "torn" => proc'[p].pc = "writing"
  PROVE  KeptInv'
<1>1. \A q \in Procs : q # p => proc'[q].pc = "idle"
  BY DEF FirstInv, VaultTypes, Others
<1>2. OneCommand' /\ TornByWriter'
  BY <1>1 DEF OneCommand, TornByWriter
<1>3. ASSUME NEW q \in Procs, q # p PROVE CommandKept(proc[q])'
  BY <1>1, <1>3 DEF CommandKept
<1>4. \A q \in Procs : CommandKept(proc[q])'
  BY <1>3
<1> QED BY <1>2, <1>4 DEF KeptInv

LEMMA NextState ==
  ASSUME FirstInv, NEW p \in Procs, NEW r, proc' = [proc EXCEPT ![p] = r]
  PROVE  proc'[p] = r
  BY DEF FirstInv, VaultTypes

LEMMA InitCheckKept ==
  ASSUME KeptInv, NEW p \in Procs, Others(p), InitCheck(p)
  PROVE  KeptInv'
<1>1. FirstInv'
  BY InitCheckFirst DEF KeptInv
<1> DEFINE r == [proc[p] EXCEPT !.pc = "init"]
<1>2. /\ vault = Absent /\ proc' = [proc EXCEPT ![p] = r]
      /\ UNCHANGED <<vault, master_pub, backup, saved, covered>>
  BY DEF InitCheck
<1>3. proc'[p].pc = "init"
  <2>1. proc[p] \in Command
    BY CommandTypes DEF KeptInv, FirstInv
  <2>2. r.pc = "init"
    BY <2>1, PcChange
  <2> HIDE DEF r
  <2>3. proc'[p] = r
    BY <1>2, NextState DEF KeptInv
  <2> QED BY <2>2, <2>3
<1> HIDE DEF r
<1>4. KeysKept'
  BY <1>2 DEF KeptInv, KeysKept, Shows, Belongs
<1>5. CommandKept(proc[p])'
  BY <1>2, <1>3 DEF CommandKept
<1>6. vault'.state # "torn"
  BY <1>2 DEF Absent
<1> QED BY <1>1, <1>2, <1>4, <1>5, <1>6, AloneStep DEF KeptInv

(* A command begins to write s, with the entries new in it. *)
LEMMA TruncateKept ==
  ASSUME KeptInv, FirstInv', NEW p \in Procs, Others(p), NEW s, NEW new, Truncate(p, s, new),
         UNCHANGED <<master_pub, backup, saved, covered>>,
         Shows(s, saved), Shows(s, new), Belongs(s)
  PROVE  KeptInv'
<1> DEFINE r == [pc |-> "writing", entries |-> s, new |-> new]
<1>1. vault' = Torn /\ proc' = [proc EXCEPT ![p] = r]
  BY DEF Truncate
<1>2. vault'.state = "torn"
  BY <1>1 DEF Torn
<1>3. proc'[p] = r
  BY <1>1, NextState DEF KeptInv
<1>4. proc'[p].pc = "writing" /\ proc'[p].entries = s /\ proc'[p].new = new
  BY <1>3
<1>5. KeysKept'
  BY <1>2 DEF KeptInv, KeysKept, Shows
<1>6. CommandKept(proc[p])'
  BY <1>1, <1>4 DEF CommandKept, Shows, Belongs
<1> HIDE DEF r
<1> QED BY <1>1, <1>4, <1>5, <1>6, AloneStep DEF KeptInv

LEMMA InitVaultKept ==
  ASSUME KeptInv, NEW p \in Procs, InitVault(p)
  PROVE  KeptInv'
<1> DEFINE e1 == Entry("master-key", Master(fresh))
           e2 == Entry("default-wallet", Random(fresh + 1, fresh + 2))
           s == <<e1, e2>>
           new == ToSet(s)
<1>1. FirstInv'
  BY InitVaultFirst DEF KeptInv
<1>2. /\ Truncate(p, s, new) /\ proc[p].pc = "init"
      /\ UNCHANGED <<master_pub, backup, saved, covered>>
  BY DEF InitVault
<1>3. saved = {} /\ master_pub = 0
  <2>1. vault.state = "absent"
    BY <1>2 DEF KeptInv, CommandKept, Absent
  <2> QED BY <2>1 DEF KeptInv, KeysKept
<1>4. ~IsWallet(e1) /\ e2.label # "master-key"
  BY DEF IsWallet, Entry, Master, Random
<1> HIDE DEF e1, e2
<1>5. new = {e1, e2} /\ Len(s) = 2 /\ s[1] = e1 /\ s[2] = e2
  <2>1. DOMAIN s = {1, 2} /\ s[1] = e1 /\ s[2] = e2 /\ Len(s) = 2
    OBVIOUS
  <2> QED BY <2>1 DEF ToSet
<1> HIDE DEF s, new
<1>6. Shows(s, saved) /\ Shows(s, new) /\ Belongs(s)
  BY <1>3, <1>4, <1>5 DEF Shows, Belongs
<1>7. Others(p)
  BY <1>2, OthersIdle
<1> QED BY <1>1, <1>2, <1>6, <1>7, TruncateKept

(* One entry more, of a label that is not the master key's. *)
LEMMA AppendShows ==
  ASSUME NEW s \in Seq(KeyEntry), NEW e \in KeyEntry, NEW S, Shows(s, S), e.label # "master-key",
         First(s, made), Belongs(s)
  PROVE  Shows(Append(s, e), S) /\ Shows(Append(s, e), {e}) /\ Belongs(Append(s, e))
<1> DEFINE t == Append(s, e)
<1>1. /\ Len(t) = Len(s) + 1 /\ Len(s) \in Nat /\ t[Len(s) + 1] = e
      /\ \A i \in 1..Len(s) : t[i] = s[i]
  OBVIOUS
<1> HIDE DEF t
<1>2. Shows(t, S)
  <2> SUFFICES ASSUME NEW x \in S, IsWallet(x)
               PROVE  x.label # "master-key" /\ \E i \in 1..Len(t) : t[i] = x
    BY DEF Shows
  <2>1. PICK i \in 1..Len(s) : s[i] = x
    BY DEF Shows
  <2>2. i \in 1..Len(t) /\ t[i] = x
    BY <1>1, <2>1
  <2> QED BY <2>2 DEF Shows
<1>3. Shows(t, {e})
  <2>1. Len(s) + 1 \in 1..Len(t)
    BY <1>1
  <2> QED BY <1>1, <2>1 DEF Shows
<1>4. Belongs(t)
  <2>1. 1 \in 1..Len(s)
    BY <1>1 DEF First
  <2> QED BY <1>1, <2>1 DEF Belongs
<1> QED BY <1>2, <1>3, <1>4 DEF t

LEMMA AppendKept ==
  ASSUME KeptInv, FirstInv', NEW p \in Procs, NEW e \in KeyEntry,
         e.label # "master-key", proc[p].pc = "opened",
         Truncate(p, Append(proc[p].entries, e), {e}),
         UNCHANGED <<master_pub, backup, saved, covered>>
  PROVE  KeptInv'
<1> DEFINE s == proc[p].entries
<1>1. s \in Seq(KeyEntry) /\ First(s, made)
  BY CommandTypes DEF KeptInv, FirstInv, FirstKept
<1>2. vault.state = "whole" /\ vault.entries = s
  BY DEF KeptInv, CommandKept
<1>3. Shows(s, saved) /\ Belongs(s)
  BY <1>2 DEF KeptInv, KeysKept
<1> DEFINE t == Append(s, e)
<1>4. Truncate(p, t, {e})
  OBVIOUS
<1> HIDE DEF s
<1>5. Shows(t, saved) /\ Shows(t, {e}) /\ Belongs(t)
  BY <1>1, <1>3, AppendShows
<1> HIDE DEF t
<1>6. Others(p)
  BY OthersIdle
<1> QED BY <1>4, <1>5, <1>6, TruncateKept

LEMMA NewWalletKept ==
  ASSUME "master-key" \notin Labels, KeptInv, NEW p \in Procs, NEW label \in Labels,
         NewWallet(p, label)
  PROVE  KeptInv'
<1> DEFINE e == Entry(label, Derived(fresh))
<1>1. FirstInv'
  BY NewWalletFirst DEF KeptInv
<1>2. /\ Truncate(p, Append(proc[p].entries, e), {e}) /\ proc[p].pc = "opened"
      /\ UNCHANGED <<master_pub, backup, saved, covered>>
  BY DEF NewWallet
<1>3. e \in KeyEntry /\ e.label # "master-key"
  <2>1. fresh \in Nat
    BY DEF KeptInv, FirstInv, VaultTypes
  <2>2. e.label = label
    BY DEF Entry
  <2> QED BY <2>1, <2>2, DerivedEntry
<1> HIDE DEF e
<1> QED BY <1>1, <1>2, <1>3, AppendKept

LEMMA RestoreWalletKept ==
  ASSUME "master-key" \notin Labels, KeptInv, NEW p \in Procs, NEW label \in Labels,
         NEW phrase \in phrases, RestoreWallet(p, label, phrase)
  PROVE  KeptInv'
<1> DEFINE e == Entry(label, Derived(phrase.ecdsa))
<1>1. FirstInv'
  BY RestoreWalletFirst DEF KeptInv
<1>2. /\ Truncate(p, Append(proc[p].entries, e), {e}) /\ proc[p].pc = "opened"
      /\ UNCHANGED <<master_pub, backup, saved, covered>>
  BY DEF RestoreWallet
<1>3. e \in KeyEntry /\ e.label # "master-key"
  <2>1. phrase.ecdsa \in Nat
    BY DEF KeptInv, FirstInv, VaultTypes
  <2>2. e.label = label
    BY DEF Entry
  <2> QED BY <2>1, <2>2, DerivedEntry
<1> HIDE DEF e
<1> QED BY <1>1, <1>2, <1>3, AppendKept

LEMMA OpenKept ==
  ASSUME KeptInv, NEW p \in Procs, Others(p), NEW pc \in {"opened", "backup"}, Open(p, pc),
         UNCHANGED <<vault, master_pub, backup, fresh, phrases, saved, covered, made, crashes>>
  PROVE  KeptInv'
<1> DEFINE r == [pc |-> pc, entries |-> vault.entries, new |-> {}]
<1>1. FirstInv'
  BY OpenFirst DEF KeptInv
<1>2. vault.state = "whole" /\ proc' = [proc EXCEPT ![p] = r]
  BY DEF Open
<1>3. proc'[p] = r
  BY <1>2, NextState DEF KeptInv
<1>4. proc'[p].pc = pc /\ proc'[p].entries = vault.entries
  BY <1>3
<1>5. KeysKept'
  BY DEF KeptInv, KeysKept, Shows, Belongs
<1>6. CommandKept(proc[p])'
  BY <1>2, <1>4 DEF CommandKept
<1> HIDE DEF r
<1> QED BY <1>1, <1>2, <1>5, <1>6, AloneStep DEF KeptInv

LEMMA WriteVaultKept ==
  ASSUME KeptInv, NEW p \in Procs, WriteVault(p)
  PROVE  KeptInv'
<1> DEFINE c == proc[p]
<1>1. FirstInv'
  BY WriteVaultFirst DEF KeptInv
<1>2. /\ c.pc = "writing" /\ c \in Command
      /\ vault = Torn /\ Shows(c.entries, saved) /\ Shows(c.entries, c.new)
      /\ Belongs(c.entries)
  BY CommandTypes DEF WriteVault, KeptInv, FirstInv, CommandKept
<1>3. vault' = Whole(c.entries) /\ UNCHANGED <<master_pub, backup, covered>>
  BY <1>2 DEF WriteVault, Filled
<1>4. vault'.state = "whole" /\ vault'.entries = c.entries /\ Others(p)
  BY <1>2, <1>3, OthersIdle DEF Whole
<1>5. CASE Head(c.entries) \in c.new
  <2> DEFINE r == [pc |-> "pub", entries |-> c.entries, new |-> c.new]
  <2>1. saved' = saved /\ proc' = [proc EXCEPT ![p] = r]
    <3>1. [proc[p] EXCEPT !.pc = "pub"] = r
      BY <1>2, PcChange
    <3> QED BY <1>5, <3>1 DEF WriteVault
  <2>2. proc'[p] = r
    BY <2>1, NextState DEF KeptInv
  <2>3. proc'[p].pc = "pub" /\ proc'[p].entries = c.entries /\ proc'[p].new = c.new
    BY <2>2
  <2> HIDE DEF r, c
  <2>4. KeysKept'
    BY <1>2, <1>3, <1>4, <2>1 DEF KeptInv, KeysKept, Shows, Belongs
  <2>5. CommandKept(proc[p])'
    BY <1>2, <1>4, <2>3 DEF CommandKept, Shows
  <2> QED BY <1>1, <1>4, <2>1, <2>4, <2>5, AloneStep DEF KeptInv
<1>6. CASE Head(c.entries) \notin c.new
  <2>1. saved' = saved \cup c.new /\ proc' = [proc EXCEPT ![p] = Idle]
    BY <1>6 DEF WriteVault
  <2>2. proc'[p].pc = "idle"
    <3>1. proc'[p] = Idle
      BY <2>1, NextState DEF KeptInv
    <3> QED BY <3>1 DEF Idle
  <2> HIDE DEF c
  <2>3. Shows(c.entries, saved')
    BY <1>2, <2>1 DEF Shows
  <2>4. KeysKept'
    BY <1>2, <1>3, <1>4, <2>3 DEF KeptInv, KeysKept, Shows, Belongs
  <2>5. CommandKept(proc[p])'
    BY <1>4, <2>2 DEF CommandKept
  <2> QED BY <1>1, <1>4, <2>1, <2>4, <2>5, AloneStep DEF KeptInv
<1> QED BY <1>5, <1>6

LEMMA InitPublicKeyKept ==
  ASSUME KeptInv, FirstInv', NEW p \in Procs, InitPublicKey(p)
  PROVE  KeptInv'
<1> DEFINE c == proc[p]
<1>1. /\ c.pc = "pub" /\ c.entries \in Seq(KeyEntry) /\ First(c.entries, made)
      /\ vault.state = "whole" /\ vault.entries = c.entries /\ Shows(c.entries, c.new)
  BY CommandTypes DEF InitPublicKey, KeptInv, FirstInv, FirstKept, CommandKept
<1>2. /\ master_pub' = Head(c.entries).key.ecdsa /\ saved' = saved \cup c.new
      /\ proc' = [proc EXCEPT ![p] = Idle] /\ UNCHANGED <<vault, backup, covered>>
  BY DEF InitPublicKey
<1>3. proc'[p].pc = "idle"
  <2>1. proc'[p] = Idle
    BY <1>2, NextState DEF KeptInv
  <2> QED BY <2>1 DEF Idle
<1> HIDE DEF c
<1>4. Head(c.entries) = c.entries[1]
  BY <1>1 DEF First
<1>5. Shows(c.entries, saved)
  BY <1>1 DEF KeptInv, KeysKept
<1>6. Shows(vault'.entries, saved') /\ Belongs(vault.entries)'
  BY <1>1, <1>2, <1>4, <1>5 DEF Shows, Belongs
<1>7. KeysKept'
  BY <1>1, <1>2, <1>6 DEF KeptInv, KeysKept, Shows
<1>8. CommandKept(proc[p])'
  BY <1>1, <1>2, <1>3 DEF CommandKept
<1>9. Others(p)
  BY <1>1, OthersIdle DEF c
<1> QED BY <1>1, <1>2, <1>7, <1>8, <1>9, AloneStep DEF KeptInv

LEMMA BackupCopyKept ==
  ASSUME KeptInv, FirstInv', NEW p \in Procs, BackupCopy(p)
  PROVE  KeptInv'
<1>1. vault.state = "whole"
  BY DEF BackupCopy, KeptInv, CommandKept
<1>2. /\ backup' = vault /\ covered' = saved /\ proc' = [proc EXCEPT ![p] = Idle]
      /\ UNCHANGED <<vault, master_pub, saved>>
  BY DEF BackupCopy
<1>3. proc'[p].pc = "idle"
  <2>1. proc'[p] = Idle
    BY <1>2, NextState DEF KeptInv
  <2> QED BY <2>1 DEF Idle
<1>4. KeysKept'
  BY <1>1, <1>2 DEF KeptInv, KeysKept, Shows, Belongs
<1>5. CommandKept(proc[p])'
  BY <1>1, <1>2, <1>3 DEF CommandKept
<1>6. Others(p)
  BY OthersIdle DEF BackupCopy
<1> QED BY <1>1, <1>2, <1>4, <1>5, <1>6, AloneStep DEF KeptInv

(* What happens to the files while no command runs. *)
LEMMA RestingKept ==
  ASSUME KeptInv, FirstInv', UNCHANGED <<proc, backup, covered>>, KeysKept',
         \A p \in Procs : proc[p] = Idle, vault'.state # "torn"
  PROVE  KeptInv'
<1>1. \A p \in Procs : proc'[p].pc = "idle"
  BY DEF Idle
<1> QED BY <1>1 DEF KeptInv, CommandKept, OneCommand, TornByWriter

LEMMA LoseDataKept ==
  ASSUME KeptInv, FirstInv', LoseData
  PROVE  KeptInv'
<1>1. /\ vault' = Absent /\ master_pub' = 0 /\ saved' = {} /\ UNCHANGED <<proc, backup, covered>>
      /\ \A p \in Procs : proc[p] = Idle
  BY DEF LoseData
<1>2. vault'.state = "absent"
  BY <1>1 DEF Absent
<1>3. KeysKept'
  BY <1>1, <1>2 DEF KeptInv, KeysKept, Shows
<1> QED BY <1>1, <1>2, <1>3, RestingKept

LEMMA CopyBackKept ==
  ASSUME KeptInv, FirstInv', CopyBack
  PROVE  KeptInv'
<1>1. /\ vault' = backup /\ saved' = covered /\ UNCHANGED <<master_pub, proc, backup, covered>>
      /\ vault = Absent /\ backup # Absent
      /\ \A p \in Procs : proc[p] = Idle
  BY DEF CopyBack
<1>2. vault'.state = "whole" /\ Shows(backup.entries, covered)
  BY <1>1 DEF KeptInv, KeysKept
<1>3. master_pub = 0
  <2>1. vault.state = "absent"
    BY <1>1 DEF Absent
  <2> QED BY <2>1 DEF KeptInv, KeysKept
<1>4. KeysKept'
  BY <1>1, <1>2, <1>3 DEF KeysKept, Shows, Belongs
<1> QED BY <1>1, <1>2, <1>4, RestingKept

(* A command that begins while commands are calm begins when none runs. *)
LEMMA BeginCalm ==
  ASSUME Begin, Calm', UNCHANGED crashes
  PROVE  Calm /\ \A q \in Procs : proc[q] = Idle
  BY Zenon DEF Begin, Calm

LEMMA NextKept ==
  ASSUME "master-key" \notin Labels, KeptInv, FirstInv', NEW p \in Procs,
         \/ InitVault(p) \/ InitPublicKey(p) \/ WriteVault(p) \/ BackupCopy(p)
         \/ \E label \in Labels :
               NewWallet(p, label) \/ \E phrase \in phrases : RestoreWallet(p, label, phrase)
  PROVE  KeptInv'
  BY InitVaultKept, InitPublicKeyKept, WriteVaultKept, BackupCopyKept, NewWalletKept, RestoreWalletKept

LEMMA NextVault ==
  ASSUME "master-key" \notin Labels
  PROVE  VaultInv /\ [Next]_vars => VaultInv'
<1> SUFFICES ASSUME VaultInv, [Next]_vars, Calm' PROVE KeptInv'
  BY NextFirst DEF VaultInv
<1>1. FirstInv'
  BY NextFirst DEF VaultInv
<1>2. ASSUME NEW p \in Procs, InitCheck(p) \/ OpenForUpdate(p) \/ BackupOpen(p) PROVE KeptInv'
  <2>1. Begin /\ UNCHANGED crashes
    BY <1>2 DEF InitCheck, OpenForUpdate, BackupOpen, Open
  <2>2. Calm /\ \A q \in Procs : proc[q] = Idle
    BY <2>1, BeginCalm
  <2>3. KeptInv /\ Others(p)
    BY <2>2, AllIdle DEF VaultInv
  <2>4. CASE InitCheck(p)
    BY <2>3, <2>4, InitCheckKept
  <2>5. CASE OpenForUpdate(p) \/ BackupOpen(p)
    BY <2>3, <2>5, OpenKept DEF OpenForUpdate, BackupOpen
  <2> QED BY <1>2, <2>4, <2>5
<1>3. ASSUME NEW p \in Procs, Crash(p) PROVE FALSE
  <2>1. crashes \in Nat /\ crashes' = crashes + 1
    BY <1>3 DEF Crash, VaultInv, FirstInv, VaultTypes
  <2> QED BY <2>1 DEF Calm
<1>4. ASSUME UNCHANGED <<raced, crashes>> PROVE KeptInv
  BY <1>4, Zenon DEF Calm, VaultInv
<1>5. ASSUME NEW p \in Procs,
             \/ InitVault(p) \/ InitPublicKey(p) \/ WriteVault(p) \/ BackupCopy(p)
             \/ \E label \in Labels :
                   NewWallet(p, label) \/ \E phrase \in phrases : RestoreWallet(p, label, phrase)
      PROVE  KeptInv'
  <2>1. UNCHANGED <<raced, crashes>>
    BY <1>5 DEF InitVault, InitPublicKey, WriteVault, BackupCopy, NewWallet, RestoreWallet
  <2> QED BY <1>1, <1>4, <1>5, <2>1, NextKept
<1>6. CASE LoseData \/ CopyBack
  <2>1. KeptInv
    BY <1>4, <1>6 DEF LoseData, CopyBack
  <2> QED BY <1>1, <1>6, <2>1, LoseDataKept, CopyBackKept
<1>7. ASSUME UNCHANGED <<vault, master_pub, proc, backup, saved, covered, raced, crashes>> PROVE KeptInv'
  <2>1. KeptInv
    BY <1>4, <1>7
  <2>2. KeysKept' /\ OneCommand' /\ TornByWriter'
    BY <1>7, <2>1 DEF KeptInv, KeysKept, Shows, Belongs, OneCommand, TornByWriter
  <2>3. \A p \in Procs : CommandKept(proc[p])'
    BY <1>7, <2>1 DEF KeptInv, CommandKept, Shows, Belongs
  <2> QED BY <1>1, <2>2, <2>3 DEF KeptInv
<1>8. ASSUME NEW label, ShowPhrase(label) PROVE KeptInv'
  BY <1>7, <1>8 DEF ShowPhrase
<1>9. CASE UNCHANGED vars
  BY <1>7, <1>9 DEF vars
<1> QED BY <1>2, <1>3, <1>5, <1>6, <1>8, <1>9 DEF Next

(* As long as no two commands have run at the same time and none has died half way,
   a wallet that was reported as saved is listed, through later commands and
   through a loss if a backup had it, and the vault begins with the key of
   master.pub; the label of the master key is not given to a wallet
   (create_vault, open_vault, save_public_key).                             *)
THEOREM VaultIsKept ==
  ASSUME "master-key" \notin Labels
  PROVE  Spec => []VaultKeepsKeys
<1>1. VaultInv => VaultKeepsKeys
  <2> SUFFICES ASSUME KeptInv, Quiet PROVE SavedIsKept /\ MasterMatches
    BY DEF VaultInv, Calm, VaultKeepsKeys, SavedIsKept, MasterMatches
  <2>1. vault \in VaultFile
    BY DEF KeptInv, FirstInv, VaultTypes
  <2>2. vault # Absent => vault.state = "whole"
    <3> SUFFICES ASSUME vault # Absent PROVE vault.state = "whole"
      OBVIOUS
    <3>1. vault.state # "torn"
      BY DEF Quiet, KeptInv, TornByWriter
    <3>2. vault.state # "absent"
      BY DEF KeptInv, KeysKept
    <3> QED BY <2>1, <3>1, <3>2 DEF VaultFile
  <2>3. vault.state = "whole" => Shows(vault.entries, saved) /\ Belongs(vault.entries)
    BY DEF KeptInv, KeysKept
  <2>4. vault.entries \in Seq(KeyEntry)
    BY <2>1 DEF VaultFile
  <2>5. SavedIsKept
    <3> SUFFICES ASSUME vault # Absent, NEW e \in saved, IsWallet(e)
                 PROVE  e \in Listed
      BY DEF SavedIsKept
    <3>1. e.label # "master-key" /\ \E i \in 1..Len(vault.entries) : vault.entries[i] = e
      BY <2>2, <2>3 DEF Shows
    <3>2. e \in ToSet(vault.entries)
      BY <2>4, <3>1 DEF ToSet
    <3> QED BY <3>1, <3>2 DEF Listed
  <2>6. MasterMatches
    <3> SUFFICES ASSUME vault.state = "whole", master_pub # 0
                 PROVE  vault.entries[1] = Entry("master-key", Master(master_pub))
      BY DEF MasterMatches
    <3> DEFINE e == vault.entries[1]
    <3>1. First(vault.entries, made)
      BY DEF KeptInv, FirstInv, FirstKept
    <3>2. e \in KeyEntry
      BY <2>4, <3>1 DEF First
    <3>3. e.label = "master-key" /\ e.key.seed = 0 /\ e.key.ecdsa = master_pub
      BY <2>3, <3>1 DEF First, Belongs
    <3> HIDE DEF e
    <3>4. e = [label |-> e.label, key |-> e.key] /\ e.key = [ecdsa |-> e.key.ecdsa, seed |-> e.key.seed]
      BY <3>2 DEF KeyEntry, Secret
    <3>5. e = Entry("master-key", Master(master_pub))
      BY <3>3, <3>4 DEF Entry, Master
    <3> QED BY <3>5 DEF e
  <2> QED BY <2>5, <2>6
<1>2. Init => VaultInv
  BY InitKept DEF VaultInv, KeptInv
<1> QED BY <1>1, <1>2, NextVault, PTL DEF Spec

-----------------------------------------------------------------------------
(* The wallet. *)

CoinType == [id : Nat, value : Nat, owner : Wallets, mined : Nat]

(* What coins are worth together. *)
LEMMA TotalType ==
  ASSUME NEW S, IsFiniteSet(S), S \subseteq CoinType
  PROVE  Total(S) \in Nat /\ Total({}) = 0
<1> DEFINE f == [c \in S |-> c.value]
<1>1. \A c \in S : f[c] \in Nat
  BY DEF CoinType
<1> HIDE DEF f
<1>2. SumFunctionOnSet(f, S) \in Nat
  BY <1>1, SumType
<1>3. Total({}) = 0
  BY FS_EmptySet, SumUnfolds DEF Total
<1> QED BY <1>2, <1>3 DEF Total, f

LEMMA TotalSplits ==
  ASSUME NEW S, IsFiniteSet(S), S \subseteq CoinType, NEW A \in SUBSET S
  PROVE  /\ IsFiniteSet(A) /\ IsFiniteSet(S \ A)
         /\ Total(S) = Total(A) + Total(S \ A)
         /\ Total(A) \in Nat /\ Total(S \ A) \in Nat /\ Total(A) <= Total(S)
<1> DEFINE f(T) == [c \in T |-> c.value]
<1>1. IsFiniteSet(A) /\ IsFiniteSet(S \ A)
  BY FS_Subset
<1>2. \A c \in S : f(S)[c] \in Int
  BY DEF CoinType
<1>3. (\A c \in A : f(S)[c] = f(A)[c]) /\ \A c \in S \ A : f(S)[c] = f(S \ A)[c]
  OBVIOUS
<1>4. Total(A) = SumFunctionOnSet(f(A), A) /\ Total(S \ A) = SumFunctionOnSet(f(S \ A), S \ A)
      /\ Total(S) = SumFunctionOnSet(f(S), S)
  BY DEF Total
<1> HIDE DEF f
<1>5. SumFunctionOnSet(f(S), A) = SumFunctionOnSet(f(A), A)
  BY <1>1, <1>3, SumOfEqual
<1>6. SumFunctionOnSet(f(S), S \ A) = SumFunctionOnSet(f(S \ A), S \ A)
  BY <1>1, <1>3, SumOfEqual
<1>7. SumFunctionOnSet(f(S), S) = SumFunctionOnSet(f(S), A) + SumFunctionOnSet(f(S), S \ A)
  BY <1>2, SumOfUnion
<1>8. Total(S) = Total(A) + Total(S \ A)
  BY <1>4, <1>5, <1>6, <1>7
<1>9. Total(A) \in Nat /\ Total(S \ A) \in Nat
  BY <1>1, TotalType
<1> QED BY <1>1, <1>8, <1>9

LEMMA TotalAdds ==
  ASSUME NEW S, IsFiniteSet(S), S \subseteq CoinType, NEW c \in CoinType, c \notin S
  PROVE  IsFiniteSet(S \cup {c}) /\ Total(S \cup {c}) = Total(S) + c.value
<1> DEFINE T == S \cup {c}
<1>1. IsFiniteSet(T) /\ T \subseteq CoinType /\ {c} \in SUBSET T /\ T \ {c} = S
  BY FS_AddElement
<1>2. Total({c}) = c.value
  <2> DEFINE f == [d \in {c} |-> d.value]
  <2>1. IsFiniteSet({}) /\ c \notin {} /\ {} \cup {c} = {c}
    BY FS_EmptySet
  <2>2. f[c] = c.value /\ c.value \in Nat /\ \A d \in {} \cup {c} : f[d] \in Int
    BY DEF CoinType
  <2> HIDE DEF f
  <2>3. SumFunctionOnSet(f, {} \cup {c}) = f[c] + SumFunctionOnSet(f, {})
    BY <2>1, <2>2, SumAdds
  <2>4. SumFunctionOnSet(f, {}) = 0
    BY <2>1, SumUnfolds
  <2> QED BY <2>1, <2>2, <2>3, <2>4 DEF Total, f
<1> HIDE DEF T
<1>3. Total(T) = Total({c}) + Total(T \ {c}) /\ Total(T \ {c}) \in Nat
  BY <1>1, TotalSplits
<1>4. c.value \in Nat
  BY DEF CoinType
<1>5. T \ {c} = S
  BY <1>1
<1>6. Total(T) = c.value + Total(S) /\ Total(S) \in Nat
  BY <1>2, <1>3, <1>5
<1>7. Total(T) = Total(S) + c.value
  BY <1>4, <1>6
<1> QED BY <1>1, <1>7 DEF T

(* Some coins are just enough if all of them are. *)
LEMMA EnoughCoins ==
  ASSUME NEW B, IsFiniteSet(B), B \subseteq CoinType, NEW n \in Nat, n > 0, Total(B) >= n
  PROVE  \E S \in SUBSET B : Total(S) >= n /\ \E c \in S : Total(S \ {c}) < n
<1> DEFINE Just(S) == Total(S) >= n /\ \E c \in S : Total(S \ {c}) < n
           P == {T \in SUBSET B : Total(T) >= n => \E S \in SUBSET T : Just(S)}
<1>0. \A T \in SUBSET B : Total(T) \in Nat
  BY TotalSplits
<1>1. {} \in P
  <2>1. Total({}) = 0
    BY TotalType
  <2> QED BY <2>1
<1>2. ASSUME NEW T \in SUBSET B, T # {}, \A x \in T : T \ {x} \in P PROVE T \in P
  <2> SUFFICES ASSUME Total(T) >= n PROVE \E S \in SUBSET T : Just(S)
    OBVIOUS
  <2>1. PICK x \in T : TRUE
    BY <1>2
  <2>2. Total(T \ {x}) \in Nat /\ T \ {x} \in SUBSET B
    BY <1>0
  <2>3. CASE Total(T \ {x}) >= n
    BY <1>2, <2>1, <2>3
  <2>4. CASE ~(Total(T \ {x}) >= n)
    <3>1. Total(T \ {x}) < n
      BY <2>2, <2>4
    <3>2. Just(T)
      BY <2>1, <3>1
    <3> QED BY <3>2
  <2> QED BY <2>3, <2>4
<1> HIDE DEF P
<1>3. \A T \in SUBSET B : T \in P
  BY <1>1, <1>2, SubsetInduction
<1> QED BY <1>3 DEF P

(* The coins are those that were mined: what a Send pays comes back as change, as
   the fee of its block or at the recipient.                                *)
WalletInv ==
  /\ height \in 0..MaxHeight /\ next \in Nat
  /\ IsFiniteSet(coins) /\ coins \subseteq CoinType
  /\ \A c \in coins : c.id < next
  /\ Total(coins) = REWARD * height

LEMMA WalletNumbers ==
  /\ FEE \in Nat /\ MIN_FEE_ARKES \in Nat /\ FEE >= MIN_FEE_ARKES
  /\ WORD \in Nat /\ WORD > 0 /\ DUST_LIMIT_ARKES \in Nat /\ DUST_LIMIT_ARKES > 0
  /\ REWARD \in Nat /\ MaxHeight \in Nat /\ REWARD * MaxHeight < WORD
  /\ COINBASE_MATURITY \in Nat /\ \A a \in Amounts : a \in Nat
  BY WalletAssumption

LEMMA Products ==
  ASSUME NEW r \in Nat, NEW m \in Nat, NEW h \in 0..m
  PROVE  r * h \in Nat /\ r * (h + 1) = r * h + r /\ r * h <= r * m
<1>1. h \in Nat /\ m - h \in Nat
  OBVIOUS
<1>2. \A a, b \in Nat : a * b \in Nat
  OBVIOUS
<1>3. r * h \in Nat /\ r * (m - h) \in Nat
  BY <1>1, <1>2
<1>4. r * m = r * h + r * (m - h)
  OBVIOUS
<1>5. r * (h + 1) = r * h + r
  BY <1>1
<1>6. r * h <= r * m
  BY <1>3, <1>4
<1> QED BY <1>3, <1>5, <1>6

(* No wallet has more than a word holds. *)
LEMMA BalanceFits ==
  ASSUME WalletInv, NEW w
  PROVE  /\ IsFiniteSet(utxos_for(w)) /\ utxos_for(w) \subseteq coins /\ utxos_for(w) \subseteq CoinType
         /\ Total(utxos_for(w)) \in Nat /\ Total(utxos_for(w)) < WORD
<1>1. utxos_for(w) \in SUBSET coins /\ IsFiniteSet(coins) /\ coins \subseteq CoinType
  BY DEF utxos_for, WalletInv
<1> DEFINE B == utxos_for(w)
<1> HIDE DEF B
<1>2. IsFiniteSet(B) /\ Total(B) \in Nat /\ Total(B) <= Total(coins)
  BY <1>1, TotalSplits DEF B
<1>3. Total(coins) < WORD /\ Total(coins) \in Nat
  <2>1. Total(coins) = REWARD * height /\ height \in 0..MaxHeight
    BY DEF WalletInv
  <2>2. REWARD * height \in Nat /\ REWARD * height <= REWARD * MaxHeight
    BY <2>1, WalletNumbers, Products
  <2> DEFINE a == REWARD * height
             b == REWARD * MaxHeight
  <2>3. a \in Nat /\ a <= b /\ b < WORD /\ WORD \in Nat /\ b \in Int
    BY <2>2, WalletNumbers
  <2> HIDE DEF a, b
  <2>4. a < WORD
    BY <2>3
  <2> QED BY <2>1, <2>3, <2>4 DEF a
<1>4. Total(B) < WORD
  BY <1>2, <1>3, WalletNumbers
<1> QED BY <1>1, <1>2, <1>4 DEF B

(* What is selected, and what is left of it. *)
LEMMA Selected ==
  ASSUME WalletInv, NEW w, NEW a \in Amounts, NEW S \in Selections(w, a)
  PROVE  /\ S \in SUBSET coins /\ IsFiniteSet(S) /\ S \subseteq CoinType /\ S \subseteq utxos_for(w)
         /\ Total(S) \in Nat /\ Total(S) < WORD /\ needed(a) \in Nat
         /\ Total(S) >= needed(a) /\ Change(S, a) \in Nat /\ Change(S, a) = Total(S) - needed(a)
<1> DEFINE B == utxos_for(w)
<1>1. S \in SUBSET B /\ Total(S) >= needed(a)
  BY DEF Selections
<1>2. IsFiniteSet(B) /\ B \subseteq coins /\ B \subseteq CoinType /\ Total(B) \in Nat /\ Total(B) < WORD
  BY BalanceFits
<1> HIDE DEF B
<1>3. IsFiniteSet(S) /\ Total(S) \in Nat /\ Total(S) <= Total(B)
  BY <1>1, <1>2, TotalSplits
<1>4. needed(a) \in Nat
  <2>1. a + FEE \in Nat /\ WORD \in Nat \ {0}
    BY WalletNumbers
  <2> QED BY <2>1 DEF needed
<1>5. Change(S, a) = Total(S) - needed(a)
  BY DEF Change
<1>6. Total(S) < WORD
  BY <1>2, <1>3, WalletNumbers
<1> DEFINE t == Total(S)
           n == needed(a)
<1>7. t \in Nat /\ n \in Nat /\ t >= n
  BY <1>1, <1>3, <1>4
<1> HIDE DEF t, n
<1>8. t - n \in Nat
  BY <1>7
<1>9. Change(S, a) \in Nat
  BY <1>5, <1>8 DEF t, n
<1> QED BY <1>1, <1>2, <1>3, <1>4, <1>5, <1>6, <1>9 DEF B

(* What a wallet has, it can send: there are coins to select ... *)
LEMMA FundedSelects ==
  ASSUME WalletInv, NEW w, NEW a \in Amounts, a >= DUST_LIMIT_ARKES, balance_of(w) >= a + FEE
  PROVE  needed(a) = a + FEE /\ Selections(w, a) # {}
<1> DEFINE B == utxos_for(w)
           n == a + FEE
<1>1. IsFiniteSet(B) /\ B \subseteq CoinType /\ Total(B) \in Nat /\ Total(B) < WORD /\ Total(B) >= n
  BY BalanceFits DEF balance_of
<1>2. n \in Nat /\ n > 0 /\ WORD \in Nat
  BY WalletNumbers
<1>3. needed(a) = n % WORD
  BY DEF needed
<1> HIDE DEF B, n
<1>4. n < WORD
  BY <1>1, <1>2
<1>5. n % WORD = n
  BY <1>2, <1>4
<1>6. PICK S \in SUBSET B : Total(S) >= n /\ \E c \in S : Total(S \ {c}) < n
  BY <1>1, <1>2, EnoughCoins
<1>7. S \in Selections(w, a)
  BY <1>3, <1>5, <1>6 DEF Selections, B
<1> QED BY <1>3, <1>5, <1>7 DEF n

(* ... and whichever are selected, the node takes the transaction. *)
LEMMA FundedIsTaken ==
  ASSUME WalletInv, NEW w, NEW a \in Amounts, a >= DUST_LIMIT_ARKES, needed(a) = a + FEE,
         NEW S \in Selections(w, a), \A c \in utxos_for(w) : ~IsImmature(c),
         Change(S, a) \notin 1 .. DUST_LIMIT_ARKES - 1
  PROVE  Verdict(S, a) = "sent"
<1> DEFINE t == Total(S)
           k == Change(S, a)
<1>1. S \subseteq utxos_for(w) /\ t \in Nat /\ t < WORD /\ t >= a + FEE /\ k = t - (a + FEE) /\ k \in Nat
  BY Selected
<1>2. ~ \E c \in S : IsImmature(c)
  BY <1>1
<1>3. ~ \E v \in OutputValues(S, a) : v < DUST_LIMIT_ARKES
  <2> SUFFICES ASSUME NEW v \in OutputValues(S, a) PROVE ~(v < DUST_LIMIT_ARKES)
    OBVIOUS
  <2>1. v = a \/ (v = k /\ k # 0)
    BY DEF OutputValues
  <2>2. k \notin 1 .. DUST_LIMIT_ARKES - 1
    OBVIOUS
  <2> HIDE DEF k
  <2> QED BY <1>1, <2>1, <2>2, WalletNumbers
<1>4. ~(a + k >= WORD \/ t < a + k) /\ EnoughFee(t - (a + k))
  <2> HIDE DEF t, k
  <2>1. a \in Nat
    BY WalletNumbers
  <2>2. t - (a + k) = FEE /\ a + k <= t
    BY <1>1, <2>1, WalletNumbers
  <2> QED BY <1>1, <2>1, <2>2, WalletNumbers DEF EnoughFee
<1> QED BY <1>2, <1>3, <1>4 DEF Verdict

Owned(T, w) == {c \in T : c.owner = w}

LEMMA OwnedAdds ==
  ASSUME NEW T, IsFiniteSet(T), T \subseteq CoinType, NEW c \in CoinType, c \notin T, NEW w
  PROVE  /\ Total(Owned(T, w)) \in Nat
         /\ Total(Owned(T \cup {c}, w)) = Total(Owned(T, w)) + (IF c.owner = w THEN c.value ELSE 0)
<1> DEFINE O == Owned(T, w)
<1>1. O \in SUBSET T /\ O \subseteq CoinType /\ c \notin O
  BY DEF Owned
<1>2. Owned(T \cup {c}, w) = IF c.owner = w THEN O \cup {c} ELSE O
  BY DEF Owned
<1> HIDE DEF O
<1>3. IsFiniteSet(O) /\ Total(O) \in Nat
  BY <1>1, TotalSplits
<1>4. Total(O \cup {c}) = Total(O) + c.value
  BY <1>1, <1>3, TotalAdds
<1> QED BY <1>2, <1>3, <1>4 DEF O

(* The coins T without S, all of which o owns. *)
Shrinks(T, S, o) ==
  \A w : /\ Total(Owned(T, w)) \in Nat
         /\ Total(Owned(T \ S, w)) = Total(Owned(T, w)) - (IF w = o THEN Total(S) ELSE 0)

LEMMA OwnedLess ==
  ASSUME NEW T, IsFiniteSet(T), T \subseteq CoinType, NEW o, NEW S \in SUBSET Owned(T, o)
  PROVE  Shrinks(T, S, o)
<1> SUFFICES ASSUME NEW w
             PROVE  /\ Total(Owned(T, w)) \in Nat
                    /\ Total(Owned(T \ S, w)) = Total(Owned(T, w)) - (IF w = o THEN Total(S) ELSE 0)
  BY DEF Shrinks
<1> DEFINE O == Owned(T, w)
<1>1. O \in SUBSET T /\ O \subseteq CoinType /\ (w = o => S \in SUBSET O) /\ S \in SUBSET T
  BY DEF Owned
<1>2. Owned(T \ S, w) = IF w = o THEN O \ S ELSE O
  BY DEF Owned
<1> HIDE DEF O
<1>3. IsFiniteSet(O) /\ Total(O) \in Nat
  BY <1>1, TotalSplits
<1>4. w = o => Total(O) = Total(S) + Total(O \ S) /\ Total(S) \in Nat /\ Total(O \ S) \in Nat
  BY <1>1, <1>3, TotalSplits
<1>5. CASE w = o
  <2> DEFINE x == Total(O)
             y == Total(S)
             z == Total(O \ S)
  <2>1. x = y + z /\ y \in Nat /\ z \in Nat
    BY <1>4, <1>5
  <2> HIDE DEF x, y, z
  <2>2. z = x - y
    BY <2>1
  <2> QED BY <1>2, <1>3, <1>5, <2>2 DEF O, x, y, z
<1>6. CASE w # o
  <2>1. Total(O) = Total(O) - 0
    BY <1>3
  <2> QED BY <1>2, <1>3, <1>6, <2>1 DEF O
<1> QED BY <1>5, <1>6

(* What the node takes pays no more than it spends. *)
LEMMA TakenPays ==
  ASSUME NEW S, NEW a, Verdict(S, a) = "sent"
  PROVE  ~(Total(S) < a + Change(S, a))
<1> DEFINE bad == a + Change(S, a) >= WORD \/ Total(S) < a + Change(S, a)
<1>1. bad => Verdict(S, a) # "sent"
  BY DEF Verdict
<1> QED BY <1>1

(* The coins U are T and a coin of value v that o owns; n is newer than all. *)
Grows(T, U, n, v, o) ==
  /\ IsFiniteSet(U) /\ U \subseteq CoinType /\ \A c \in U : c.id < n
  /\ Total(U) = Total(T) + v
  /\ \A w : Total(Owned(T, w)) \in Nat /\ Total(Owned(U, w)) = Total(Owned(T, w)) + (IF o = w THEN v ELSE 0)

LEMMA CoinEnters ==
  ASSUME NEW T, IsFiniteSet(T), T \subseteq CoinType, NEW m \in Nat, NEW n \in Nat, m < n,
         \A c \in T : c.id < m, NEW v \in Nat, NEW o \in Wallets, NEW h \in Nat
  PROVE  Grows(T, T \cup {Coin(m, v, o, h)}, n, v, o)
<1> DEFINE e == Coin(m, v, o, h)
<1>1. e \in CoinType /\ e.id = m /\ e.value = v /\ e.owner = o
  BY DEF Coin, CoinType
<1> HIDE DEF e
<1>2. e \notin T
  BY <1>1
<1>3. IsFiniteSet(T \cup {e}) /\ Total(T \cup {e}) = Total(T) + v
  BY <1>1, <1>2, TotalAdds
<1>4. ASSUME NEW c \in T \cup {e} PROVE c.id < n
  <2>1. CASE c = e
    BY <1>1, <2>1
  <2>2. CASE c \in T
    <3>1. c.id \in Nat /\ c.id < m
      BY <2>2 DEF CoinType
    <3> QED BY <3>1
  <2> QED BY <2>1, <2>2
<1>5. ASSUME NEW w
      PROVE  /\ Total(Owned(T, w)) \in Nat
             /\ Total(Owned(T \cup {e}, w)) = Total(Owned(T, w)) + (IF o = w THEN v ELSE 0)
  BY <1>1, <1>2, OwnedAdds
<1> QED BY <1>1, <1>3, <1>4, <1>5 DEF Grows, e

LEMMA MineWallet ==
  ASSUME WalletInv, NEW w \in Wallets, Mine(w)
  PROVE  WalletInv' /\ last' = last
<1> DEFINE e == Coin(next, REWARD, w, height + 1)
<1>1. /\ height' = height + 1 /\ next' = next + 3 /\ height < MaxHeight /\ last' = last
      /\ coins' = coins \cup {e}
  <2>1. coins' = (coins \ {}) \cup {} \cup {Coin(next, REWARD + 0, w, height + 1)}
    BY DEF Mine, Confirm
  <2>2. REWARD + 0 = REWARD
    BY WalletNumbers
  <2> QED BY <2>1, <2>2 DEF Mine, Confirm
<1>2. /\ height \in Nat /\ height \in 0..MaxHeight /\ next \in Nat /\ MaxHeight \in Nat /\ REWARD \in Nat
      /\ IsFiniteSet(coins) /\ coins \subseteq CoinType /\ \A c \in coins : c.id < next
  BY WalletNumbers DEF WalletInv
<1>3. next + 3 \in Nat /\ next < next + 3 /\ height + 1 \in Nat
  BY <1>2
<1>4. Grows(coins, coins \cup {e}, next + 3, REWARD, w)
  BY <1>2, <1>3, CoinEnters
<1> HIDE DEF e
<1>5. IsFiniteSet(coins') /\ coins' \subseteq CoinType /\ (\A c \in coins' : c.id < next')
      /\ Total(coins') = Total(coins) + REWARD
  BY <1>1, <1>4 DEF Grows
<1>6. Total(coins') = REWARD * height'
  BY <1>1, <1>2, <1>5, Products DEF WalletInv
<1>7. height' \in 0..MaxHeight /\ next' \in Nat
  BY <1>1, <1>2
<1> QED BY <1>1, <1>5, <1>6, <1>7 DEF WalletInv

(* The coins after a Send, for all and for each wallet. *)
LEMMA SentCoins ==
  ASSUME WalletInv, NEW from \in Wallets, NEW to \in Wallets, NEW a \in Amounts,
         NEW S \in Selections(from, a), Verdict(S, a) = "sent", Send(from, to, a, S)
  PROVE  /\ IsFiniteSet(coins') /\ coins' \subseteq CoinType /\ \A c \in coins' : c.id < next + 3
         /\ Total(coins') = Total(coins) + REWARD
         /\ \A w : Total(Owned(coins', w)) = Total(Owned(coins, w)) + (IF w = from THEN REWARD - a ELSE 0)
                                              + (IF w = to THEN a ELSE 0)
<1> DEFINE t == Total(S)
           k == Change(S, a)
           f == t - a - k
           A == Coin(next + 1, a, to, 0)
           C == Coin(next + 2, k, from, 0)
           K == Coin(next, REWARD + f, from, height + 1)
           T1 == coins \ S
           T2 == T1 \cup {K}
           T3 == T2 \cup {A}
           T4 == T3 \cup {C}
<1>1. /\ S \in SUBSET coins /\ S \subseteq utxos_for(from) /\ t \in Nat /\ k \in Nat /\ a \in Nat
      /\ next \in Nat /\ height \in Nat /\ REWARD \in Nat
      /\ IsFiniteSet(coins) /\ coins \subseteq CoinType /\ \A c \in coins : c.id < next
  BY Selected, WalletNumbers DEF WalletInv
<1>2. ~(t < a + k)
  BY TakenPays
<1>3. coins' = IF k > 0 THEN T4 ELSE T3
  <2>1. coins' = (coins \ S) \cup ({A} \cup IF k > 0 THEN {C} ELSE {}) \cup {K}
    BY DEF Send, Confirm
  <2> HIDE DEF A, C, K, k
  <2> QED BY <2>1
<1>4. f \in Nat /\ a + k + f = t
  <2> HIDE DEF t, k
  <2> QED BY <1>1, <1>2
<1>5. /\ IsFiniteSet(T1) /\ T1 \subseteq CoinType /\ \A c \in T1 : c.id < next
      /\ Total(coins) = t + Total(T1) /\ Total(T1) \in Nat
  BY <1>1, TotalSplits
<1>6. Shrinks(coins, S, from)
  <2>1. S \in SUBSET Owned(coins, from)
    BY <1>1 DEF utxos_for, Owned
  <2> QED BY <1>1, <2>1, OwnedLess
<1>7. \A w : /\ Total(Owned(coins, w)) \in Nat
              /\ Total(Owned(T1, w)) = Total(Owned(coins, w)) - (IF w = from THEN t ELSE 0)
  BY <1>6, Zenon DEF Shrinks
<1> HIDE DEF T1
<1>8. Grows(T1, T2, next + 1, REWARD + f, from)
  <2>1. REWARD + f \in Nat /\ next + 1 \in Nat /\ next < next + 1 /\ height + 1 \in Nat
    BY <1>1, <1>4
  <2> HIDE DEF f
  <2> QED BY <1>1, <1>5, <2>1, CoinEnters
<1> HIDE DEF T2
<1>9. Grows(T2, T3, next + 2, a, to)
  <2>1. /\ next + 1 \in Nat /\ next + 2 \in Nat /\ next + 1 < next + 2
        /\ IsFiniteSet(T2) /\ T2 \subseteq CoinType /\ \A c \in T2 : c.id < next + 1
    BY <1>1, <1>8 DEF Grows
  <2> QED BY <1>1, <2>1, CoinEnters
<1> HIDE DEF T3
<1>10. Grows(T3, T4, next + 3, k, from)
  <2>1. /\ next + 2 \in Nat /\ next + 3 \in Nat /\ next + 2 < next + 3
        /\ IsFiniteSet(T3) /\ T3 \subseteq CoinType /\ \A c \in T3 : c.id < next + 2
    BY <1>1, <1>9 DEF Grows
  <2> HIDE DEF k
  <2> QED BY <1>1, <2>1, CoinEnters
<1> HIDE DEF T4, t, k, f, A, C, K
<1>11. /\ IsFiniteSet(T3) /\ T3 \subseteq CoinType /\ \A c \in T3 : c.id < next + 3
       /\ IsFiniteSet(T4) /\ T4 \subseteq CoinType /\ \A c \in T4 : c.id < next + 3
  <2>1. \A c \in T3 : c.id \in Nat /\ c.id < next + 2
    BY <1>9 DEF Grows, CoinType
  <2>2. \A c \in T3 : c.id < next + 3
    BY <1>1, <2>1
  <2> QED BY <1>9, <1>10, <2>2 DEF Grows
<1>12. Total(coins') = Total(coins) + REWARD
  <2> DEFINE x1 == Total(T1)
             x2 == Total(T2)
             x3 == Total(T3)
             x4 == Total(T4)
             x == Total(coins)
             y == Total(coins')
  <2>1. x = t + x1 /\ x1 \in Nat /\ x2 = x1 + (REWARD + f) /\ x3 = x2 + a /\ x4 = x3 + k
    BY <1>5, <1>8, <1>9, <1>10 DEF Grows
  <2>2. y = IF k > 0 THEN x4 ELSE x3
    BY <1>3
  <2> HIDE DEF x, x1, x2, x3, x4, y
  <2>3. y = x + REWARD
    BY <1>1, <1>4, <2>1, <2>2
  <2> QED BY <2>3 DEF x, y
<1>13. ASSUME NEW w
       PROVE  Total(Owned(coins', w)) = Total(Owned(coins, w)) + (IF w = from THEN REWARD - a ELSE 0)
                                         + (IF w = to THEN a ELSE 0)
  <2> DEFINE x1 == Total(Owned(T1, w))
             x2 == Total(Owned(T2, w))
             x3 == Total(Owned(T3, w))
             x4 == Total(Owned(T4, w))
             x == Total(Owned(coins, w))
             y == Total(Owned(coins', w))
             mine == w = from
             his == w = to
  <2>1. /\ x \in Nat /\ x1 = x - (IF mine THEN t ELSE 0)
        /\ x2 = x1 + (IF mine THEN REWARD + f ELSE 0)
    BY <1>7, <1>8 DEF Grows
  <2>2. x3 = x2 + (IF his THEN a ELSE 0) /\ x4 = x3 + (IF mine THEN k ELSE 0)
    BY <1>9, <1>10 DEF Grows
  <2>3. y = IF k > 0 THEN x4 ELSE x3
    BY <1>3
  <2> HIDE DEF x, x1, x2, x3, x4, y, mine, his
  <2>4. y = x + (IF mine THEN REWARD - a ELSE 0) + (IF his THEN a ELSE 0)
    BY <1>1, <1>4, <2>1, <2>2, <2>3
  <2> QED BY <2>4 DEF x, y, mine, his
<1>14. IsFiniteSet(coins') /\ coins' \subseteq CoinType /\ \A c \in coins' : c.id < next + 3
  BY <1>3, <1>11
<1> QED BY <1>12, <1>13, <1>14

LEMMA SendWallet ==
  ASSUME WalletInv, NEW from \in Wallets, NEW to \in Wallets, NEW a \in Amounts,
         NEW S \in Selections(from, a), Verdict(S, a) = "sent", Send(from, to, a, S)
  PROVE  WalletInv'
<1>1. height' = height + 1 /\ next' = next + 3 /\ height < MaxHeight
  BY DEF Send, Confirm
<1>2. height \in 0..MaxHeight /\ MaxHeight \in Nat /\ REWARD \in Nat /\ next \in Nat
  BY WalletNumbers DEF WalletInv
<1>3. /\ IsFiniteSet(coins') /\ coins' \subseteq CoinType /\ \A c \in coins' : c.id < next'
      /\ Total(coins') = Total(coins) + REWARD
  BY <1>1, SentCoins
<1>4. Total(coins') = REWARD * height'
  BY <1>1, <1>2, <1>3, Products DEF WalletInv
<1>5. height' \in 0..MaxHeight /\ next' \in Nat
  BY <1>1, <1>2
<1> QED BY <1>3, <1>4, <1>5 DEF WalletInv

(* No Send is refused that the property grants. *)
LEMMA RefusedIsNotFunded ==
  ASSUME WalletInv, NEW from \in Wallets, NEW to \in Wallets, NEW a \in Amounts, NEW why,
         last' = Asked(from, to, a, why),
         Selections(from, a) = {} \/ \E S \in Selections(from, a) : Verdict(S, a) # "sent"
  PROVE  FundedSendSucceeds'
<1> SUFFICES ASSUME last'.mature, last'.clean, last'.amount >= DUST_LIMIT_ARKES,
                    last'.before[last'.from] >= last'.amount + FEE
             PROVE  FALSE
  BY DEF FundedSendSucceeds
<1>1. /\ last'.from = from /\ last'.amount = a /\ last'.before = [w \in Wallets |-> balance_of(w)]
      /\ last'.mature = (\A c \in utxos_for(from) : ~IsImmature(c))
      /\ last'.clean = (\A S \in Selections(from, a) : Change(S, a) \notin 1 .. DUST_LIMIT_ARKES - 1)
  BY DEF Asked
<1>2. a >= DUST_LIMIT_ARKES /\ balance_of(from) >= a + FEE
  BY <1>1
<1>3. needed(a) = a + FEE /\ Selections(from, a) # {}
  BY <1>2, FundedSelects
<1>4. PICK S \in Selections(from, a) : Verdict(S, a) # "sent"
  BY <1>3
<1>5. (\A c \in utxos_for(from) : ~IsImmature(c)) /\ Change(S, a) \notin 1 .. DUST_LIMIT_ARKES - 1
  BY <1>1
<1> QED BY <1>2, <1>3, <1>4, <1>5, FundedIsTaken

(* The steps of the wallet: it mines, asks in vain, or sends. *)
LEMMA WalletSteps ==
  ASSUME WalletInv, WalletNext
  PROVE  \/ WalletInv' /\ last' = last
         \/ WalletInv' /\ FundedSendSucceeds' /\ last'.result # "sent"
         \/ \E from, to \in Wallets, a \in Amounts : \E S \in Selections(from, a) :
              /\ WalletInv' /\ Verdict(S, a) = "sent" /\ Send(from, to, a, S)
              /\ last' = Asked(from, to, a, "sent")
<1>1. ASSUME NEW w \in Wallets, Mine(w) PROVE WalletInv' /\ last' = last
  BY <1>1, MineWallet
<1>2. ASSUME NEW from \in Wallets, NEW to \in Wallets, NEW a \in Amounts, InsufficientFunds(from, to, a)
      PROVE  WalletInv' /\ FundedSendSucceeds' /\ last'.result # "sent"
  <2>1. /\ Selections(from, a) = {} /\ UNCHANGED <<height, coins, next>>
        /\ last' = Asked(from, to, a, "insufficient funds")
    BY <1>2 DEF InsufficientFunds, Refused
  <2>2. last'.result # "sent"
    BY <2>1 DEF Asked
  <2>3. WalletInv'
    BY <2>1 DEF WalletInv
  <2> QED BY <2>1, <2>2, <2>3, RefusedIsNotFunded
<1>3. ASSUME NEW from \in Wallets, NEW to \in Wallets, NEW a \in Amounts, NEW S \in Selections(from, a),
             Send(from, to, a, S), Verdict(S, a) # "sent"
      PROVE  WalletInv' /\ FundedSendSucceeds' /\ last'.result # "sent"
  <2>1. UNCHANGED <<height, coins, next>> /\ last' = Asked(from, to, a, Verdict(S, a))
    BY <1>3 DEF Send, Refused
  <2>2. last'.result # "sent"
    BY <1>3, <2>1 DEF Asked
  <2>3. WalletInv'
    BY <2>1 DEF WalletInv
  <2> QED BY <1>3, <2>1, <2>2, <2>3, RefusedIsNotFunded
<1>4. ASSUME NEW from \in Wallets, NEW to \in Wallets, NEW a \in Amounts, NEW S \in Selections(from, a),
             Send(from, to, a, S), Verdict(S, a) = "sent"
      PROVE  WalletInv' /\ last' = Asked(from, to, a, "sent")
  <2>1. last' = Asked(from, to, a, "sent")
    BY <1>4 DEF Send
  <2> QED BY <1>4, <2>1, SendWallet
<1> QED BY <1>1, <1>2, <1>3, <1>4 DEF WalletNext

LEMMA InitWallet == WalletInit => WalletInv /\ FundedSendSucceeds
<1> SUFFICES ASSUME WalletInit PROVE WalletInv /\ FundedSendSucceeds
  OBVIOUS
<1>1. height = 0 /\ coins = {} /\ next = 1 /\ last.result = "none"
  BY DEF WalletInit
<1>2. IsFiniteSet({}) /\ {} \subseteq CoinType
  BY FS_EmptySet
<1>3. Total({}) = 0
  BY <1>2, TotalType
<1>4. REWARD * 0 = 0 /\ 0 \in 0..MaxHeight
  BY WalletNumbers
<1> QED BY <1>1, <1>2, <1>3, <1>4 DEF WalletInv, FundedSendSucceeds

LEMMA NextWallet ==
  ASSUME WalletInv, FundedSendSucceeds, [WalletNext]_walletVars
  PROVE  WalletInv' /\ FundedSendSucceeds'
<1>1. CASE UNCHANGED walletVars
  BY <1>1 DEF walletVars, WalletInv, FundedSendSucceeds
<1>2. CASE WalletNext
  <2>1. CASE WalletInv' /\ last' = last
    BY <2>1 DEF FundedSendSucceeds
  <2>2. ASSUME NEW from, NEW to, NEW a, last' = Asked(from, to, a, "sent") PROVE FundedSendSucceeds'
    BY <2>2 DEF FundedSendSucceeds, Asked
  <2> QED BY <1>2, <2>1, <2>2, WalletSteps
<1> QED BY <1>1, <1>2

(* A wallet with mature coins only can send what it has, unless the amount or the
   change would be dust, whichever coins are taken and in any order: for any
   wallets, amounts and limits for which the money there is fits a word
   (Wallet::send, submit_transaction).                                       *)
THEOREM FundedSends == WalletSpec => []FundedSendSucceeds
  BY InitWallet, NextWallet, PTL DEF WalletSpec

(* A Send that is confirmed moves the amount and costs its sender nothing else,
   and no other wallet gains or loses (Wallet::send, Command::Send).        *)
THEOREM SendsMoveAmounts == WalletSpec => SendMovesAmount
<1>1. ASSUME WalletInv, WalletNext
      PROVE  last' # last /\ last'.result = "sent" =>
               \A w \in Wallets :
                 balance_of(w)' = last'.before[w] + (IF w = last'.from THEN REWARD - last'.amount ELSE 0)
                                                  + (IF w = last'.to THEN last'.amount ELSE 0)
  <2> SUFFICES ASSUME last' # last, last'.result = "sent", NEW w \in Wallets
               PROVE  balance_of(w)' = last'.before[w] + (IF w = last'.from THEN REWARD - last'.amount ELSE 0)
                                                  + (IF w = last'.to THEN last'.amount ELSE 0)
    OBVIOUS
  <2>0. PICK from \in Wallets, to \in Wallets, a \in Amounts : \E S \in Selections(from, a) :
               /\ Verdict(S, a) = "sent" /\ Send(from, to, a, S)
               /\ last' = Asked(from, to, a, "sent")
    BY <1>1, WalletSteps
  <2>1. PICK S \in Selections(from, a) : /\ Verdict(S, a) = "sent" /\ Send(from, to, a, S)
                                         /\ last' = Asked(from, to, a, "sent")
    BY <2>0
  <2>2. last'.from = from /\ last'.to = to /\ last'.amount = a /\ last'.before[w] = balance_of(w)
    BY <2>1 DEF Asked
  <2>3. Total(Owned(coins', w)) = Total(Owned(coins, w)) + (IF w = from THEN REWARD - a ELSE 0)
                                              + (IF w = to THEN a ELSE 0)
    BY <1>1, <2>1, SentCoins
  <2>4. balance_of(w)' = Total(Owned(coins', w)) /\ balance_of(w) = Total(Owned(coins, w))
    BY DEF balance_of, utxos_for, Owned
  <2> QED BY <2>2, <2>3, <2>4
<1> QED BY <1>1, InitWallet, NextWallet, PTL DEF WalletSpec, SendMovesAmount
=============================================================================
