------------------------------ MODULE NodeSync ------------------------------
(***************************************************************************)
(* How nodes exchange blocks: the Version greeting, headers-first          *)
(* synchronisation, and the announcement and relay of blocks by the        *)
(* handle_peer tasks of network/node.rs, over connections that deliver in  *)
(* order and may break.                                                    *)
(*                                                                         *)
(* A node keeps the blocks it knows and its tip; the blocks are valid and  *)
(* of equal work, the fork choice of Chain then compares heights and a tip *)
(* never gives way to a lower one.  Each node runs one task per            *)
(* connection; a task is sequential, tasks share the chain behind its lock.*)
(***************************************************************************)
EXTENDS Integers, Sequences, SequencesExt, FiniteSets, FiniteSetsExt, Lists

CONSTANTS
  Node,
  Link,                 \* pairs of nodes that may connect, both directions
  Block, Genesis,
  parent,               \* the parent of each block but Genesis
  Mined,                \* Node -> blocks it may mine
  Submitted,            \* Node -> blocks RPC miners may solve for it
  start,                \* Node -> its tip at the beginning
  network_magic,        \* Node -> the network it is on
  FINALITY_DEPTH,       \* depth at which side branches are pruned
  MAX_HEADERS,          \* MAX_HEADERS_PER_RESPONSE
  MAX_GETDATA_INFLIGHT,
  LOCATOR_DENSE,        \* hashes a locator lists before its steps double
  MAX_LOCATOR_HASHES,
  RELAY_CAPACITY,       \* messages the broadcast channel holds for a task
  BLOCKS_PER_MINUTE,    \* limit of the blocks rate limiter
  MAX_DROPS             \* bound: connections the network breaks

height[b \in Block] == IF b = Genesis THEN 0 ELSE 1 + height[parent[b]]

(* The chain from Genesis to a block: Blockchain::blocks when it is the tip. *)
path[b \in Block] == IF b = Genesis THEN <<b>> ELSE Append(path[parent[b]], b)

(* No block is its own ancestor: the two recursions are well founded. *)
ASSUME TreeAssumption ==
  /\ parent \in [Block \ {Genesis} -> Block]
  /\ height \in [Block -> Nat]
  /\ height = [b \in Block |-> IF b = Genesis THEN 0 ELSE 1 + height[parent[b]]]
  /\ path = [b \in Block |-> IF b = Genesis THEN <<b>> ELSE Append(path[parent[b]], b)]

ASSUME NodeSyncAssumption ==
  /\ \A l \in Link : l[1] \in Node /\ l[2] \in Node /\ l[1] # l[2] /\ <<l[2], l[1]>> \in Link
  /\ Genesis \in Block
  /\ \A n \in Node : Mined[n] \cup Submitted[n] \subseteq Block \ {Genesis}
  /\ start \in [Node -> Block]
  /\ {MAX_HEADERS, MAX_GETDATA_INFLIGHT, MAX_LOCATOR_HASHES, RELAY_CAPACITY,
      BLOCKS_PER_MINUTE} \subseteq Nat \ {0}
  /\ FINALITY_DEPTH \in Nat

VARIABLES
  known,     \* all_blocks of each node
  tip,
  task,      \* of each link <<n, m>>, n's task for m: off, greeting, subscribing or on
  chan,      \* messages under way from n to m, with those in the queue of m's task
  relay,     \* announcements waiting in the broadcast channel for n's task for m
  batch,     \* headers n's task for m is working through
  received,  \* blocks n took from m in this minute
  drops

conn == <<task, chan, relay, batch>>
vars == <<known, tip, task, chan, relay, batch, received, drops>>

(* A batch of headers before its first one; Idle when there is none. *)
NewBatch(headers) == [rest |-> headers, prev |-> Genesis, first |-> TRUE, fetch |-> <<>>]

Idle == NewBatch(<<>>)

Flip(l) == <<l[2], l[1]>>

-----------------------------------------------------------------------------
(* What n's task for m puts on the wire; nobody reads it when m's task is gone. *)
Sent(l, msgs) == IF task[Flip(l)] = "off" THEN chan[l] ELSE chan[l] \o msgs

(* The message at the head of l's incoming queue is handled and answered. *)
Answer(l, msgs) == chan' = [chan EXCEPT ![Flip(l)] = Tail(@), ![l] = Sent(l, msgs)]

Incoming(l, kind) ==
  /\ task[l] = "on" /\ batch[l] = Idle
  /\ chan[Flip(l)] # <<>> /\ Head(chan[Flip(l)]).kind = kind

(* The task of l ends: what was sent to it is lost, what it sent arrives. *)
Bail(l) ==
  /\ task' = [task EXCEPT ![l] = "off"]
  /\ chan' = [chan EXCEPT ![Flip(l)] = <<>>]
  /\ relay' = [relay EXCEPT ![l] = <<>>]
  /\ batch' = [batch EXCEPT ![l] = Idle]

(* relay_tx.send: every subscribed task of n gets the announcement; one that
   is behind loses its oldest.                                             *)
Announce(n, b, source) ==
  relay' = [l \in Link |->
    IF l[1] # n \/ task[l] # "on" THEN relay[l]
    ELSE LET queue == Append(relay[l], [hash |-> b, source |-> source])
         IN IF Len(queue) > RELAY_CAPACITY THEN Tail(queue) ELSE queue]

-----------------------------------------------------------------------------
(* Blockchain::add_block for a valid block: an unknown parent and a branch with
   a pruned block are errors, a known block is not.                        *)
AddOk(n, b) == b \in known[n] \/ ToSet(path[parent[b]]) \subseteq known[n]

(* Mutant: the cutoff is one too high. *)
Retained_Early(blocks, t) ==
  IF height[t] < FINALITY_DEPTH THEN blocks
  ELSE {x \in blocks : height[x] > height[t] - FINALITY_DEPTH + 1 \/ x \in ToSet(path[t])}

(* prune_stale_orphans. *)
Retained(blocks, t) ==
  IF height[t] < FINALITY_DEPTH THEN blocks
  ELSE {x \in blocks : height[x] > height[t] - FINALITY_DEPTH \/ x \in ToSet(path[t])}

(* The block is stored, becomes the tip when it is higher, and may be pruned
   before add_block answers Ok.                                            *)
AddBlock(n, b) ==
  /\ tip' = IF b \notin known[n] /\ height[b] > height[tip[n]] THEN [tip EXCEPT ![n] = b] ELSE tip
  /\ known' = IF b \in known[n] THEN known
              ELSE [known EXCEPT ![n] = Retained(@ \cup {b}, tip'[n])]

(* block_locator: from the tip down, one by one at first, then in steps that
   double, and Genesis.                                                    *)
block_locator(t) ==
  LET gap(k) == IF k <= LOCATOR_DENSE + 1 THEN 1 ELSE 2 ^ (k - LOCATOR_DENSE - 1)
      at[k \in 1..MAX_LOCATOR_HASHES] ==
        IF k = 1 THEN height[t] ELSE Max({0, at[k - 1] - gap(k - 1)})
      used == {k \in 1..MAX_LOCATOR_HASHES : k = 1 \/ at[k - 1] > 0}
      hashes == [k \in 1..Cardinality(used) |-> path[t][at[k] + 1]]
  IN IF Last(hashes) = Genesis THEN hashes ELSE Append(hashes, Genesis)

(* The blocks after the first hash of the locator that is on the active chain. *)
headers_after(t, locator) ==
  LET shared == {k \in DOMAIN locator : locator[k] \in ToSet(path[t])}
      from == IF shared = {} THEN 0 ELSE height[locator[Min(shared)]] + 1
      rest == SubSeq(path[t], from + 1, Len(path[t]))
  IN SubSeq(rest, 1, Min({MAX_HEADERS, Len(rest)}))

Message(kind, body) == [kind |-> kind, body |-> body]

-----------------------------------------------------------------------------
Init ==
  /\ known = [n \in Node |-> ToSet(path[start[n]])]
  /\ tip = start
  /\ task = [l \in Link |-> "off"]
  /\ chan = [l \in Link |-> <<>>]
  /\ relay = [l \in Link |-> <<>>]
  /\ batch = [l \in Link |-> Idle]
  /\ received = [l \in Link |-> 0]
  /\ drops = 0

(* A dial succeeds, or the maintenance task dials again: both sides have run the
   handshake and go on to send their Version.                               *)
Connect(l) ==
  /\ task[l] = "off" /\ task[Flip(l)] = "off"
  /\ task' = [task EXCEPT ![l] = "greeting", ![Flip(l)] = "greeting"]
  /\ chan' = [chan EXCEPT ![l] = <<>>, ![Flip(l)] = <<>>]
  /\ UNCHANGED <<known, tip, relay, batch, received, drops>>

(* connect_to_peer, the accept loop and the maintenance task read the height and
   send Version before handle_peer starts ...                               *)
Greet(l) ==
  /\ task[l] = "greeting"
  /\ task' = [task EXCEPT ![l] = "subscribing"]
  /\ chan' = [chan EXCEPT ![l] =
       Sent(l, <<Message("Version", [magic |-> network_magic[l[1]], best_height |-> height[tip[l[1]]]])>>)]
  /\ UNCHANGED <<known, tip, relay, batch, received, drops>>

(* ... which subscribes to the relay first. *)
Subscribe(l) ==
  /\ task[l] = "subscribing"
  /\ task' = [task EXCEPT ![l] = "on"]
  /\ UNCHANGED <<known, tip, chan, relay, batch, received, drops>>

(* recv or send fails because the other side is gone. *)
PeerGone(l) ==
  /\ task[l] # "off" /\ task[Flip(l)] = "off" /\ chan[Flip(l)] = <<>>
  /\ Bail(l)
  /\ UNCHANGED <<known, tip, received, drops>>

(* The network breaks a connection. *)
Break(l) ==
  /\ drops < MAX_DROPS /\ task[l] # "off"
  /\ drops' = drops + 1
  /\ task' = [task EXCEPT ![l] = "off", ![Flip(l)] = "off"]
  /\ chan' = [chan EXCEPT ![l] = <<>>, ![Flip(l)] = <<>>]
  /\ relay' = [relay EXCEPT ![l] = <<>>, ![Flip(l)] = <<>>]
  /\ batch' = [batch EXCEPT ![l] = Idle, ![Flip(l)] = Idle]
  /\ UNCHANGED <<known, tip, received>>

-----------------------------------------------------------------------------
RelaySend(l) ==
  /\ task[l] = "on" /\ batch[l] = Idle /\ relay[l] # <<>>
  /\ relay' = [relay EXCEPT ![l] = Tail(@)]
  /\ chan' = IF Head(relay[l]).source = l[2] THEN chan
             ELSE [chan EXCEPT ![l] = Sent(l, <<Message("Inv", <<Head(relay[l]).hash>>)>>)]
  /\ UNCHANGED <<known, tip, task, batch, received, drops>>

SameNetwork(n, body) == body.magic = network_magic[n]

RecvVersion(l) ==
  LET body == Head(chan[Flip(l)]).body
      behind == body.best_height > height[tip[l[1]]]
  IN /\ Incoming(l, "Version")
     /\ IF ~SameNetwork(l[1], body) THEN Bail(l)
        ELSE /\ Answer(l, <<Message("Verack", <<>>)>> \o
                          IF behind THEN <<Message("GetHeaders", block_locator(tip[l[1]]))>> ELSE <<>>)
             /\ UNCHANGED <<task, relay, batch>>
     /\ UNCHANGED <<known, tip, received, drops>>

RecvVerack(l) ==
  /\ Incoming(l, "Verack")
  /\ Answer(l, <<>>)
  /\ UNCHANGED <<known, tip, task, relay, batch, received, drops>>

RecvGetHeaders(l) ==
  LET headers == headers_after(tip[l[1]], Head(chan[Flip(l)]).body)
  IN /\ Incoming(l, "GetHeaders")
     /\ Answer(l, IF headers = <<>> THEN <<>> ELSE <<Message("Headers", headers)>>)
     /\ UNCHANGED <<known, tip, task, relay, batch, received, drops>>

RecvHeaders(l) ==
  /\ Incoming(l, "Headers")
  /\ batch' = [batch EXCEPT ![l] = NewBatch(Head(chan[Flip(l)]).body)]
  /\ Answer(l, <<>>)
  /\ UNCHANGED <<known, tip, task, relay, received, drops>>

Chunks(s) ==
  [k \in 1..((Len(s) + MAX_GETDATA_INFLIGHT - 1) \div MAX_GETDATA_INFLIGHT) |->
     Message("GetData", SubSeq(s, (k - 1) * MAX_GETDATA_INFLIGHT + 1,
                               Min({k * MAX_GETDATA_INFLIGHT, Len(s)})))]

(* Mutant: only the first unknown header of a batch is fetched. *)
Fetch_First(b, item, n) ==
  IF item \in known[n] \/ b.fetch # <<>> THEN b.fetch ELSE Append(b.fetch, item)

Fetch(b, item, n) == IF item \in known[n] THEN b.fetch ELSE Append(b.fetch, item)

(* One header of a batch, under its own hold of the chain lock; the blocks that
   are missing are requested when the batch is over or its chain breaks.     *)
HeaderStep(l) ==
  LET b == batch[l]
      header == Head(b.rest)
      linked == header # Genesis /\
                (IF b.first THEN parent[header] \in known[l[1]] ELSE parent[header] = b.prev)
      next == [rest |-> Tail(b.rest), prev |-> header, first |-> FALSE,
               fetch |-> Fetch(b, header, l[1])]
      done(x) == /\ batch' = [batch EXCEPT ![l] = Idle]
                 /\ chan' = [chan EXCEPT ![l] = Sent(l, Chunks(x))]
  IN /\ task[l] = "on" /\ b.rest # <<>>
     /\ IF ~linked THEN done(b.fetch)
        ELSE IF next.rest = <<>> THEN done(next.fetch)
        ELSE batch' = [batch EXCEPT ![l] = next] /\ UNCHANGED chan
     /\ UNCHANGED <<known, tip, task, relay, received, drops>>

(* Mutant: what is announced is requested whether it is known or not. *)
needed_All(n, items) == items

needed(n, items) == Kept(items, Block \ known[n])

RecvInv(l) ==
  LET items == needed(l[1], Head(chan[Flip(l)]).body)
  IN /\ Incoming(l, "Inv")
     /\ Answer(l, IF items = <<>> THEN <<>> ELSE <<Message("GetData", items)>>)
     /\ UNCHANGED <<known, tip, task, relay, batch, received, drops>>

RecvGetData(l) ==
  LET items == Kept(Head(chan[Flip(l)]).body, known[l[1]])
  IN /\ Incoming(l, "GetData")
     /\ Answer(l, [i \in DOMAIN items |-> Message("Block", items[i])])
     /\ UNCHANGED <<known, tip, task, relay, batch, received, drops>>

(* Mutant: only the miner of a block announces it. *)
Relays_Never(n, b) == FALSE

Relays(n, b) == AddOk(n, b)

(* A block past the limiter ends the connection; a refused one is logged. *)
RecvBlock(l) ==
  LET b == Head(chan[Flip(l)]).body
      n == l[1]
  IN /\ Incoming(l, "Block")
     /\ IF received[l] >= BLOCKS_PER_MINUTE
        THEN Bail(l) /\ UNCHANGED <<known, tip, received>>
        ELSE /\ received' = [received EXCEPT ![l] = @ + 1]
             /\ IF AddOk(n, b) THEN AddBlock(n, b) ELSE UNCHANGED <<known, tip>>
             /\ IF Relays(n, b) THEN Announce(n, b, l[2]) ELSE UNCHANGED relay
             /\ Answer(l, <<>>)
             /\ UNCHANGED <<task, batch>>
     /\ UNCHANGED drops

(* mine_block_and_relay. *)
Mine(n, b) ==
  /\ b \notin known[n] /\ parent[b] = tip[n]
  /\ AddBlock(n, b)
  /\ Announce(n, b, "nobody")
  /\ UNCHANGED <<task, chan, batch, received, drops>>

(* submit_block of rpc/methods.rs: the RPC shares the chain with the node and
   not the relay channel, so the block is announced to nobody.             *)
SubmitBlock(n, b) ==
  /\ b \notin known[n] /\ AddOk(n, b) /\ height[b] = height[tip[n]] + 1
  /\ AddBlock(n, b)
  /\ UNCHANGED <<conn, received, drops>>

(* The events of the last minute leave the limiter's windows. *)
MinutePasses ==
  /\ \E l \in Link : received[l] > 0
  /\ received' = [l \in Link |-> 0]
  /\ UNCHANGED <<known, tip, conn, drops>>

(* One message.  Nodes of this program pass each other's checks of version and
   user agent; a message past the messages limiter ends the connection, which
   Break allows at any point.                                              *)
Receive(l) ==
  \/ RecvVersion(l) \/ RecvVerack(l) \/ RecvGetHeaders(l) \/ RecvHeaders(l)
  \/ RecvInv(l) \/ RecvGetData(l) \/ RecvBlock(l)

SetUp(l) == Connect(l) \/ Greet(l) \/ Subscribe(l) \/ PeerGone(l)

Next ==
  \/ \E l \in Link : \/ SetUp(l) \/ Break(l) \/ RelaySend(l) \/ Receive(l) \/ HeaderStep(l)
  \/ \E n \in Node : \/ \E b \in Mined[n] : Mine(n, b)
                     \/ \E b \in Submitted[n] : SubmitBlock(n, b)
  \/ MinutePasses

(* Tasks are scheduled, select! polls both of its branches, messages arrive,
   dials are retried and time passes.  Nothing makes a node mine.            *)
Fairness ==
  /\ \A l \in Link :
       /\ WF_vars(SetUp(l)) /\ WF_vars(RelaySend(l))
       /\ WF_vars(Receive(l)) /\ WF_vars(HeaderStep(l))
  /\ WF_vars(MinutePasses)

Spec == Init /\ [][Next]_vars /\ Fairness

-----------------------------------------------------------------------------
(* Two nodes that end up connected agree on the height of the best chain, in
   spite of forks, broken connections, limits and reconnections ("Performs
   block sync with connected peers").                                        *)
CatchesUp == \A l \in Link : <>[](height[tip[l[1]]] = height[tip[l[2]]])

(* Nothing is under way and nothing waits to be announced. *)
Silent == \A l \in Link : chan[l] = <<>> /\ relay[l] = <<>>

(* The side blocks that n prunes, before or after it announced them. *)
Pruned(n) == {b \in Block : height[b] + FINALITY_DEPTH <= height[tip[n]]} \ ToSet(path[tip[n]])

Had(n) == known[n] \cup Pruned(n)

(* Whatever is requested of a node it has, except a side block FINALITY_DEPTH
   or more below its tip: a task announces only what its node accepted, and
   lists headers of its own chain, whichever tasks run in between.  No request
   for a block of the active chain or of a recent branch is in vain.         *)
RequestsAnswerable ==
  \A l \in Link : \A k \in DOMAIN chan[l] :
    chan[l][k].kind = "GetData" => ToSet(chan[l][k].body) \subseteq Had(l[2])

(* From when all are connected and know the same blocks, what one node takes in
   the others know in the end, unless it is a side block that is too deep for
   them by then ("Accepted block/transaction inventory announced to connected
   peers").                                                                  *)
InAgreement ==
  /\ \A l \in Link : task[l] = "on"
  /\ \A n, m \in Node : known[n] = known[m]

AcceptedSpreads ==
  [](InAgreement => [](\A b \in Block : (\E n \in Node : b \in known[n]) ~> (\A n \in Node : b \in Had(n))))

(* "Request and receive missing blocks from connected peers": a block that a
   connected peer announces is known in the end.                             *)
AnnouncedIsFetched ==
  \A l \in Link : \A b \in Block :
    (\E k \in DOMAIN chan[l] : chan[l][k].kind = "Inv" /\ b \in ToSet(chan[l][k].body))
      ~> b \in known[l[2]]
=============================================================================
