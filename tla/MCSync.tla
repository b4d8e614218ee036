------------------------------- MODULE MCSync -------------------------------
(***************************************************************************)
(* The networks: the one a configuration gives, over blocks of two         *)
(* branches that leave the genesis, and a ring of three nodes that are all *)
(* connected, so that a block comes back to where it has been.  A          *)
(* behaviour is of one network; the given one starts with no connection or *)
(* with all of them.                                                       *)
(***************************************************************************)
EXTENDS NodeSync, TLC

CONSTANT Networks   \* the networks of a run: "given", "connected", "ring"

MCParent == "a1" :> "g" @@ "a2" :> "a1" @@ "a3" :> "a2" @@ "b1" :> "g" @@ "b2" :> "b1"

MCBlock == {"g", "a1", "a2", "a3", "b1", "b2"}

Pair == {<<"n1", "n2">>, <<"n2", "n1">>}
Line == Pair \cup {<<"n2", "n3">>, <<"n3", "n2">>}

NoMining == [n \in Node |-> {}]
FirstMinesTwo == [NoMining EXCEPT !["n1"] = {"a1", "a2"}]
BothMine == [FirstMinesTwo EXCEPT !["n3"] = {"b1"}]
FirstMinesOn == [NoMining EXCEPT !["n1"] = {"a2"}]
SecondSubmits == [NoMining EXCEPT !["n2"] = {"b2"}]

AtGenesis == [n \in Node |-> "g"]
Apart == [AtGenesis EXCEPT !["n1"] = "a3", !["n2"] = "b1"]
Forked == [AtGenesis EXCEPT !["n1"] = "a1", !["n2"] = "b1"]

OneNetwork == [n \in Node |-> "net"]

-----------------------------------------------------------------------------
VARIABLE part   \* the network of this behaviour

Triangle == Line \cup {<<"n1", "n3">>, <<"n3", "n1">>}

Ring == INSTANCE NodeSync WITH
  Node <- {"n1", "n2", "n3"}, Link <- Triangle,
  Mined <- [n1 |-> {"a1"}, n2 |-> {}, n3 |-> {}],
  Submitted <- [n \in {"n1", "n2", "n3"} |-> {}],
  start <- [n \in {"n1", "n2", "n3"} |-> Genesis],
  network_magic <- [n \in {"n1", "n2", "n3"} |-> "net"],
  BLOCKS_PER_MINUTE <- 4, MAX_DROPS <- 0

(* Nodes at the genesis after their greetings: they are connected by links and
   have nothing to say.                                                     *)
Greeted(nodes, links) ==
  /\ known = [n \in nodes |-> {Genesis}]
  /\ tip = [n \in nodes |-> Genesis]
  /\ task = [l \in links |-> "on"]
  /\ chan = [l \in links |-> <<>>] /\ relay = [l \in links |-> <<>>]
  /\ batch = [l \in links |-> Idle]
  /\ received = [l \in links |-> 0] /\ drops = 0

MCInit ==
  /\ part \in Networks
  /\ CASE part = "given"     -> Init
       [] part = "connected" -> Greeted(Node, Link)
       [] part = "ring"      -> Greeted({"n1", "n2", "n3"}, Triangle)

GivenRuns == part # "ring"

MCNext ==
  /\ UNCHANGED part
  /\ \/ part = "ring" /\ Ring!Next
     \/ GivenRuns /\ Next

(* The fairness of the network that runs. *)
MCFairness ==
  /\ \A l \in Link :
       /\ WF_vars(GivenRuns /\ SetUp(l)) /\ WF_vars(GivenRuns /\ RelaySend(l))
       /\ WF_vars(GivenRuns /\ Receive(l)) /\ WF_vars(GivenRuns /\ HeaderStep(l))
  /\ WF_vars(GivenRuns /\ MinutePasses)
  /\ \A l \in Triangle :
       /\ WF_vars(part = "ring" /\ Ring!SetUp(l)) /\ WF_vars(part = "ring" /\ Ring!RelaySend(l))
       /\ WF_vars(part = "ring" /\ Ring!Receive(l)) /\ WF_vars(part = "ring" /\ Ring!HeaderStep(l))
  /\ WF_vars(part = "ring" /\ Ring!MinutePasses)

MCSpec == MCInit /\ [][MCNext]_<<part, vars>> /\ MCFairness

(* Two nodes that end up connected agree on the height of the best chain, in
   spite of forks, broken connections, limits and reconnections ("Performs
   block sync with connected peers").                                        *)
PairCatchesUp == part = "given" => CatchesUp

(* The traffic ends: announcements, requests and blocks do not chase each other
   round the network for ever, though a known block is relayed again when it
   arrives a second time (add_block answers Ok).                             *)
TrafficEnds == <>[](IF part = "ring" THEN Ring!Silent ELSE Silent)
=============================================================================
