---------------------------- MODULE RateLimiter ----------------------------
(***************************************************************************)
(* One RateLimiter of security/rate_limit.rs: a sliding window of event    *)
(* times for each tracked peer, at most MAX_TRACKED_PEERS of them, the     *)
(* first inserted evicted when a new one comes.  A call holds &mut self,   *)
(* so it is one step; time passes between calls.                           *)
(***************************************************************************)
EXTENDS Integers, Sequences, SequencesExt, FiniteSets, Lists

CONSTANTS
  Peer,               \* peers that call check
  Banned,             \* peers that ban may be called for
  MAX_TRACKED_PEERS,
  max_per_window,
  window_duration,
  MAX_TIME,           \* bound: the clock stops there
  MAX_EVENTS          \* bound: events allowed to one peer

(* The limits are those of NodeRateLimiter::new and of the RPC server. *)
ASSUME LimiterAssumption ==
  /\ Banned \subseteq Peer /\ MAX_TRACKED_PEERS \in Nat \ {0}
  /\ max_per_window \in Nat \ {0} /\ window_duration \in Nat \ {0}

VARIABLES
  windows,          \* event times of each tracked peer
  insertion_order,  \* the tracked peers, first inserted first
  now,
  allowed,          \* history: when check returned true for a peer
  refused,          \* history: whether the last check returned false, and to whom
  banned_at,        \* history: when each peer was last banned, -1 for never
  evicted,          \* history: the peers whose windows were dropped for another
  ban_entries       \* history: how often ban entered a peer that was not tracked

limiter == <<windows, insertion_order>>
limiterVars == <<windows, insertion_order, now, allowed, refused, banned_at, evicted, ban_entries>>

Nobody == <<>>

LimiterInit ==
  /\ windows = <<>>
  /\ insertion_order = <<>>
  /\ now = 0
  /\ allowed = [p \in Peer |-> <<>>]
  /\ refused = Nobody
  /\ banned_at = [p \in Peer |-> -1]
  /\ evicted = {} /\ ban_entries = 0

Tracked == DOMAIN windows

Without(f, p) == [q \in DOMAIN f \ {p} |-> f[q]]

With(f, p, e) == [q \in DOMAIN f \cup {p} |-> IF q = p THEN e ELSE f[q]]

-----------------------------------------------------------------------------
(* Mutant: the window goes and its place in the order stays. *)
Evict_KeepsOrder(p) ==
  IF p \notin Tracked /\ Cardinality(Tracked) >= MAX_TRACKED_PEERS /\ insertion_order # <<>>
  THEN [windows |-> Without(windows, Head(insertion_order)), order |-> insertion_order]
  ELSE [windows |-> windows, order |-> insertion_order]

(* A new peer at the cap takes the place of the first inserted. *)
Evict(p) ==
  IF p \notin Tracked /\ Cardinality(Tracked) >= MAX_TRACKED_PEERS /\ insertion_order # <<>>
  THEN [windows |-> Without(windows, Head(insertion_order)),
        order |-> Kept(insertion_order, Peer \ {Head(insertion_order)})]
  ELSE [windows |-> windows, order |-> insertion_order]

(* The order after p is entered, for the windows w. *)
Enter(order, w, p) == IF p \in DOMAIN w THEN order ELSE Append(order, p)

Entries(w, p) == IF p \in DOMAIN w THEN w[p] ELSE <<>>

(* Mutant: an event expires one tick early. *)
retain_Early(entries) == Kept(entries, {t \in 0..now : now - t < window_duration - 1})

retain(entries) == Kept(entries, {t \in 0..now : now - t < window_duration})

Check(p) ==
  LET base == Evict(p)
      entries == retain(Entries(base.windows, p))
      ok == Len(entries) < max_per_window
  IN /\ Len(allowed[p]) < MAX_EVENTS
     /\ windows' = With(base.windows, p, IF ok THEN Append(entries, now) ELSE entries)
     /\ insertion_order' = Enter(base.order, base.windows, p)
     /\ allowed' = IF ok THEN [allowed EXCEPT ![p] = Append(@, now)] ELSE allowed
     /\ refused' = IF ok THEN Nobody ELSE <<p>>
     /\ evicted' = evicted \cup (Tracked \ DOMAIN base.windows)
     /\ UNCHANGED <<now, banned_at, ban_entries>>

BanLength == 10 * max_per_window

(* ban: nothing is evicted for the peer it enters. *)
Ban(p) ==
  /\ windows' = With(windows, p, [i \in 1..BanLength |-> now])
  /\ insertion_order' = Enter(insertion_order, windows, p)
  /\ banned_at' = [banned_at EXCEPT ![p] = now]
  /\ ban_entries' = IF p \in Tracked THEN ban_entries ELSE ban_entries + 1
  /\ refused' = Nobody
  /\ UNCHANGED <<now, allowed, evicted>>

TimePasses ==
  /\ now < MAX_TIME
  /\ now' = now + 1
  /\ refused' = Nobody
  /\ UNCHANGED <<limiter, allowed, banned_at, evicted, ban_entries>>

LimiterNext ==
  \/ \E p \in Peer : Check(p)
  \/ \E p \in Banned : Ban(p)
  \/ TimePasses

LimiterSpec == LimiterInit /\ [][LimiterNext]_limiterVars

-----------------------------------------------------------------------------
(* The eviction order lists every tracked peer once and nobody else: a peer it
   forgot would never be evicted, one it kept would make an eviction free
   nothing (check and ban keep windows and insertion_order in step).        *)
OrderListsTracked ==
  /\ ToSet(insertion_order) = Tracked
  /\ Len(insertion_order) = Cardinality(Tracked)

(* However many peers come and go, check never tracks more than the cap: the
   "attacker rotating through IP addresses" of MAX_TRACKED_PEERS.  Only a ban
   goes beyond it, by one peer.                                             *)
TrackedBounded == Cardinality(Tracked) <= MAX_TRACKED_PEERS + ban_entries

(* The eviction order and the cap hold however many peers come and go. *)
EvictionExact == OrderListsTracked /\ TrackedBounded

During(p, from) ==
  Cardinality({i \in DOMAIN allowed[p] : allowed[p][i] \in from..(from + window_duration - 1)})

(* No stretch of window_duration holds more than max_per_window allowed events
   of one of these peers ("at most `max` events per `window_secs` seconds per
   peer").                                                                   *)
MostPerWindow(peers) == \A p \in peers : \A t \in 0..now : During(p, t) <= max_per_window

(* A peer is refused only when it really used up the window that ends now, or
   was banned in it: being refused does not prolong the wait.                *)
RefusedOnlyAtLimit ==
  \A p \in ToSet(refused) :
    \/ During(p, now - window_duration + 1) >= max_per_window
    \/ banned_at[p] >= 0 /\ now - banned_at[p] < window_duration

(* The limit is exact for a peer that was never evicted, bans and all, and no
   peer is refused without reason (check, ban).                             *)
LimitExact == MostPerWindow(Peer \ evicted) /\ RefusedOnlyAtLimit
=============================================================================
