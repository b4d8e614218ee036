---------------------------- MODULE PeerManager ----------------------------
(***************************************************************************)
(* The addresses a node knows and the connections it keeps: PeerStore of   *)
(* network/peers.rs and the tasks of Node::run and connect_to_peer that    *)
(* share it behind a lock (start-up dials, feeler, outbound maintenance,   *)
(* accept loop, one handle_peer task per connection), with restarts.       *)
(*                                                                         *)
(* A step is what a task does between two acquisitions of the lock.  A     *)
(* dial (TCP and handshake) succeeds when the address is up.  Inbound      *)
(* connections come from ephemeral ports, which nobody can dial.           *)
(***************************************************************************)
EXTENDS Integers, Sequences, SequencesExt, FiniteSets, FiniteSetsExt, Lists

CONSTANTS
  Listen,            \* addresses that peers listen on
  Ephemeral,         \* source addresses of inbound connections
  Subnet,            \* the bucket of each address
  cli_peers,         \* --peer flags, in order
  bootstrap_peers,   \* what collect_bootstrap_peers returns, in order
  BUCKET_LIMIT, MIN_OUTBOUND, ANCHOR_COUNT, MAX_KNOWN_PEERS, MAX_ADDR_PER_MESSAGE,
  None,
  MAX_DISCONNECTS,   \* bound: connections that end
  MAX_RESTARTS,      \* bound: restarts of the node
  MAX_OUTAGES        \* bound: changes of what is reachable

Addr == Listen \cup Ephemeral

ASSUME PeerManagerAssumption ==
  /\ cli_peers \in Seq(Listen) /\ bootstrap_peers \in Seq(Listen)
  /\ IsFiniteSet(Listen) /\ Listen \cap Ephemeral = {} /\ None \notin Addr
  /\ DOMAIN Subnet = Addr
  /\ {BUCKET_LIMIT, MIN_OUTBOUND, ANCHOR_COUNT, MAX_KNOWN_PEERS, MAX_ADDR_PER_MESSAGE}
       \subseteq Nat \ {0}

VARIABLES
  known_peers,  \* the addresses in the buckets
  outbound, inbound,
  anchors,      \* anchors.txt
  booting,      \* addresses still to dial at start-up
  phase,        \* "peers", then "anchors", then "running"
  maintenance,  \* the outbound task: its place and what it holds
  feeler,       \* the address the feeler dials
  tasks,        \* history: live handle_peer tasks of each dialled address
  redialled,    \* history: addresses start-up dialled while connected to them
  up,           \* addresses that answer
  faults        \* disconnects, restarts and outages so far

store == <<known_peers, outbound, inbound>>
peerVars == <<store, anchors, booting, phase, maintenance, feeler, tasks, redialled, up, faults>>

Asleep == [at |-> "sleep", holds |-> {}]

-----------------------------------------------------------------------------
(* all_peers of the node command: Vec::dedup drops an element that repeats the
   one before it.                                                          *)
dedup(s) == LET places == Kept([i \in 1..Len(s) |-> i], {i \in 1..Len(s) : i = 1 \/ s[i] # s[i - 1]})
            IN [k \in 1..Len(places) |-> s[places[k]]]

all_peers == dedup(cli_peers \o bootstrap_peers)

Bucket(addrs, a) == {b \in addrs : Subnet[b] = Subnet[a]}

(* PeerStore::add_known: the known addresses addrs after it. *)
add_known(addrs, a) ==
  IF Cardinality(Bucket(addrs, a)) >= BUCKET_LIMIT THEN addrs ELSE addrs \cup {a}

(* outbound_candidates, and what random_unconnected draws from. *)
Unconnected == known_peers \ (outbound \cup inbound)

(* save_anchors: ANCHOR_COUNT of the outbound peers, in the order of a hash set. *)
SaveAnchors(out) ==
  \E S \in kSubset(Min({ANCHOR_COUNT, Cardinality(out)}), out) : anchors' = S

(* Mutant: one short is enough. *)
needs_outbound_OffByOne == Cardinality(outbound) + 1 < MIN_OUTBOUND

needs_outbound == Cardinality(outbound) < MIN_OUTBOUND

-----------------------------------------------------------------------------
PeerInit ==
  /\ known_peers = {} /\ outbound = {} /\ inbound = {}
  /\ anchors = {}
  /\ booting = all_peers /\ phase = "peers"
  /\ maintenance = Asleep /\ feeler = None
  /\ tasks = [a \in Listen |-> 0] /\ redialled = {}
  /\ up = Listen
  /\ faults = [disconnects |-> 0, restarts |-> 0, outages |-> 0]

(* connect_to_peer for the next address of the list; an error is logged. *)
BootDial ==
  /\ booting # <<>>
  /\ booting' = Tail(booting)
  /\ IF Head(booting) \in up
     THEN /\ known_peers' = add_known(known_peers, Head(booting))
          /\ outbound' = outbound \cup {Head(booting)}
          /\ tasks' = [tasks EXCEPT ![Head(booting)] = @ + 1]
          /\ redialled' = redialled \cup (outbound \cap {Head(booting)})
     ELSE UNCHANGED <<known_peers, outbound, tasks, redialled>>
  /\ UNCHANGED <<inbound, anchors, phase, maintenance, feeler, up, faults>>

(* Node::run reads the anchors once the peers of the command line are dialled. *)
LoadAnchors ==
  /\ phase = "peers" /\ booting = <<>>
  /\ phase' = "anchors"
  /\ booting' \in SetToSeqs(anchors)
  /\ UNCHANGED <<store, anchors, maintenance, feeler, tasks, redialled, up, faults>>

StartTasks ==
  /\ phase = "anchors" /\ booting = <<>>
  /\ phase' = "running"
  /\ UNCHANGED <<store, anchors, booting, maintenance, feeler, tasks, redialled, up, faults>>

-----------------------------------------------------------------------------
FeelerPick ==
  /\ phase = "running" /\ feeler = None
  /\ feeler' \in Unconnected
  /\ UNCHANGED <<store, anchors, booting, phase, maintenance, tasks, redialled, up, faults>>

(* A feeler connection closes at once; an address that does not answer is
   forgotten, connected meanwhile or not.                                  *)
FeelerDial ==
  /\ feeler # None
  /\ known_peers' = IF feeler \in up THEN known_peers ELSE known_peers \ {feeler}
  /\ feeler' = None
  /\ UNCHANGED <<outbound, inbound, anchors, booting, phase, maintenance, tasks, redialled, up, faults>>

-----------------------------------------------------------------------------
(* The outbound task wakes, saves the anchors and looks at the count. *)
MaintCheck ==
  /\ phase = "running" /\ maintenance = Asleep
  /\ SaveAnchors(outbound)
  /\ maintenance' = IF needs_outbound THEN [at |-> "candidates", holds |-> {}] ELSE Asleep
  /\ UNCHANGED <<store, booting, phase, feeler, tasks, redialled, up, faults>>

MaintCandidates ==
  /\ maintenance.at = "candidates"
  /\ maintenance' = IF Unconnected = {} THEN Asleep
                    ELSE [at |-> "deficit", holds |-> Unconnected]
  /\ UNCHANGED <<store, anchors, booting, phase, feeler, tasks, redialled, up, faults>>

(* The candidates are shuffled and as many taken as outbound peers are missing. *)
MaintDeficit ==
  LET deficit == Max({0, MIN_OUTBOUND - Cardinality(outbound)})
  IN /\ maintenance.at = "deficit"
     /\ \E S \in kSubset(Min({deficit, Cardinality(maintenance.holds)}), maintenance.holds) :
          maintenance' = IF S = {} THEN Asleep ELSE [at |-> "dial", holds |-> S]
     /\ UNCHANGED <<store, anchors, booting, phase, feeler, tasks, redialled, up, faults>>

(* Mutant: the connection is not entered. *)
MaintDial_Unmarked(a) ==
  /\ maintenance.at = "dial" /\ a \in maintenance.holds
  /\ maintenance' = IF maintenance.holds = {a} THEN Asleep
                    ELSE [maintenance EXCEPT !.holds = @ \ {a}]
  /\ tasks' = IF a \in up THEN [tasks EXCEPT ![a] = @ + 1] ELSE tasks
  /\ UNCHANGED <<store, anchors, booting, phase, feeler, redialled, up, faults>>

MaintDial(a) ==
  /\ maintenance.at = "dial" /\ a \in maintenance.holds
  /\ maintenance' = IF maintenance.holds = {a} THEN Asleep
                    ELSE [maintenance EXCEPT !.holds = @ \ {a}]
  /\ IF a \in up
     THEN outbound' = outbound \cup {a} /\ tasks' = [tasks EXCEPT ![a] = @ + 1]
     ELSE UNCHANGED <<outbound, tasks>>
  /\ UNCHANGED <<known_peers, inbound, anchors, booting, phase, feeler, redialled, up, faults>>

-----------------------------------------------------------------------------
(* The accept loop, once handshake and Version are through. *)
Accept(a) ==
  /\ phase = "running" /\ a \notin inbound
  /\ known_peers' = add_known(known_peers, a)
  /\ inbound' = inbound \cup {a}
  /\ UNCHANGED <<outbound, anchors, booting, phase, maintenance, feeler, tasks, redialled, up, faults>>

(* The addresses of an Addr message, one after the other, until the list is full. *)
add_addrs(known, addrs) ==
  LET upto[i \in 0..Len(addrs)] ==
        IF i = 0 THEN known
        ELSE IF Cardinality(upto[i - 1]) >= MAX_KNOWN_PEERS THEN upto[i - 1]
        ELSE add_known(upto[i - 1], addrs[i])
  IN upto[Len(addrs)]

(* An Addr message of a connected peer; a longer one than allowed ends the
   connection instead.                                                      *)
AddrMessage(addrs) ==
  /\ outbound \cup inbound # {}
  /\ Len(addrs) <= MAX_ADDR_PER_MESSAGE
  /\ known_peers' = add_addrs(known_peers, addrs)
  /\ UNCHANGED <<outbound, inbound, anchors, booting, phase, maintenance, feeler, tasks, redialled, up, faults>>

(* A handle_peer task ends: connection lost, protocol error or rate limit. *)
OutboundEnds(a) ==
  /\ tasks[a] > 0
  /\ faults.disconnects < MAX_DISCONNECTS
  /\ tasks' = [tasks EXCEPT ![a] = @ - 1]
  /\ outbound' = outbound \ {a}
  /\ SaveAnchors(outbound')
  /\ faults' = [faults EXCEPT !.disconnects = @ + 1]
  /\ UNCHANGED <<known_peers, inbound, booting, phase, maintenance, feeler, redialled, up>>

InboundEnds(a) ==
  /\ a \in inbound
  /\ faults.disconnects < MAX_DISCONNECTS
  /\ inbound' = inbound \ {a}
  /\ SaveAnchors(outbound)
  /\ faults' = [faults EXCEPT !.disconnects = @ + 1]
  /\ UNCHANGED <<known_peers, outbound, booting, phase, maintenance, feeler, tasks, redialled, up>>

(* The process is started again: the store is empty, the anchors are on disk. *)
Restart ==
  /\ faults.restarts < MAX_RESTARTS
  /\ faults' = [faults EXCEPT !.restarts = @ + 1]
  /\ known_peers' = {} /\ outbound' = {} /\ inbound' = {}
  /\ booting' = all_peers /\ phase' = "peers"
  /\ maintenance' = Asleep /\ feeler' = None
  /\ tasks' = [a \in Listen |-> 0] /\ redialled' = {}
  /\ UNCHANGED <<anchors, up>>

(* A peer's host goes away or comes back; its connections end on their own. *)
Outage(a) ==
  /\ faults.outages < MAX_OUTAGES
  /\ faults' = [faults EXCEPT !.outages = @ + 1]
  /\ up' = IF a \in up THEN up \ {a} ELSE up \cup {a}
  /\ UNCHANGED <<store, anchors, booting, phase, maintenance, feeler, tasks, redialled>>

Maintenance ==
  MaintCheck \/ MaintCandidates \/ MaintDeficit \/ \E a \in Addr : MaintDial(a)

PeerNext ==
  \/ BootDial \/ LoadAnchors \/ StartTasks
  \/ FeelerPick \/ FeelerDial
  \/ Maintenance
  \/ \E a \in Ephemeral : Accept(a) \/ InboundEnds(a)
  \/ \E a \in Listen : OutboundEnds(a) \/ Outage(a)
  \/ \E S \in SUBSET Listen : \E addrs \in SetToSeqs(S) : AddrMessage(addrs)
  \/ Restart

(* Tasks are scheduled and dials end; the shuffle picks every candidate again
   and again.                                                               *)
PeerFairness ==
  /\ WF_peerVars(BootDial \/ LoadAnchors \/ StartTasks)
  /\ WF_peerVars(Maintenance)
  /\ \A a \in Listen : SF_peerVars(MaintDeficit /\ a \in maintenance'.holds)
  /\ WF_peerVars(FeelerDial)

PeerSpec == PeerInit /\ [][PeerNext]_peerVars /\ PeerFairness

-----------------------------------------------------------------------------
(* A single subnet holds at most BUCKET_LIMIT addresses, by whichever of the
   four ways in (command line, anchors, accept, Addr) they came.             *)
BucketsBounded == \A a \in known_peers : Cardinality(Bucket(known_peers, a)) <= BUCKET_LIMIT

(* A peer counts as outbound exactly while a task serves a connection dialled
   to it: the count behind needs_outbound neither includes dead connections
   nor misses live ones, although the three lock sections of the maintenance
   task, disconnects and restarts interleave.  Only an address that start-up
   dials a second time (an anchor that is also a --peer) may be miscounted.  *)
OutboundExact ==
  \A a \in Listen \ redialled : tasks[a] = IF a \in outbound THEN 1 ELSE 0

(* Every address of the peer store is in a bucket within its limit, and what the
   store counts as outbound are the outbound connections there are, whatever
   tasks run between two holds of its lock (add_known, mark_outbound).      *)
PeersExact == BucketsBounded /\ OutboundExact

(* When the faults are over, the maintenance task brings the outbound peers to
   MIN_OUTBOUND, or to all that it knows and can reach, and keeps them there. *)
OutboundRestored ==
  <>[](\/ Cardinality(outbound) >= MIN_OUTBOUND
       \/ (known_peers \cap up) \ inbound \subseteq outbound)

(* What documents of the repository say and the code does not keep; README.md,
   section 4, gives the constants with which each property fails.           *)

(* No peer is dialled twice at start-up: "Deduplicate preserving order" of the
   node command.                                                             *)
DialledOnce == \A a \in Listen : tasks[a] <= 1

(* "Peers are removed from the known list immediately on disconnect". *)
ForgottenOnDisconnect ==
  [][\A a \in Listen : tasks'[a] < tasks[a] => a \notin known_peers']_peerVars

(* "total peer list capped at 4,096". *)
KnownBounded == Cardinality(known_peers) <= MAX_KNOWN_PEERS

(* Anchors are there "so a restarting node can immediately reconnect to
   recently-seen peers rather than starting cold": once written they are not
   lost again.                                                               *)
AnchorsKept == [][anchors # {} => anchors' # {}]_peerVars
=============================================================================
