------------------------------ MODULE MCLinks ------------------------------
(***************************************************************************)
(* What a node deals with at its edges: which peers it keeps               *)
(* (PeerManager), one encrypted connection (NoiseTransport), miners at its *)
(* RPC endpoint (RpcServer) and the nonce search of the mobile library     *)
(* (NonceSearch).  They share no variable, so a behaviour runs one of them *)
(* and leaves the others where they start.                                 *)
(*                                                                         *)
(* Peers: three listening addresses, two of them and the inbound one in a  *)
(* subnet.  Transport: small messages, and messages with one of two frames *)
(* and one that is too large, over a connection that may break.  RPC: two  *)
(* miners that use the server's names send the token in different headers, *)
(* one writes names as soak_miner does, and a client without the token     *)
(* polls, each from an address of its own.                                 *)
(***************************************************************************)
EXTENDS PeerManager, NoiseTransport, RpcServer, NonceSearch

MCSubnet == [a \in {"a", "b", "c", "e"} |-> IF a = "c" THEN "far" ELSE "near"]

MCPeers == <<"a">>

MCNoPeers == <<>>

MCLoads == {[I |-> <<2, 1, 2>>, R |-> <<1, 2>>], [I |-> <<2, 3, 1>>, R |-> <<1, 9>>]}

MCIp == [c \in Client |-> c]

MCBearer == [c \in Client |-> IF c \in {"m1", "soak"} THEN "secret" ELSE NoToken]

MCCustom == [c \in Client |-> IF c = "m2" THEN "secret" ELSE "guess"]

MCFields == [c \in Client |-> IF c = "soak" THEN "camelCase" ELSE "snake_case"]

-----------------------------------------------------------------------------
VARIABLE part   \* what this behaviour runs

MCInit ==
  /\ part \in {"peers", "connection", "rpc", "search"}
  /\ PeerInit /\ ConnectionInit /\ Init /\ SearchInit
  /\ part # "connection" => payloads = [I |-> <<2, 1, 2>>, R |-> <<1, 2>>]
  /\ part # "rpc" => mempool = 1
  /\ part # "search" => wins = {} /\ first = 0

MCNext ==
  /\ UNCHANGED part
  /\ \/ part = "peers" /\ PeerNext /\ UNCHANGED <<connectionVars, vars, searchVars>>
     \/ part = "connection" /\ ConnectionNext /\ UNCHANGED <<peerVars, vars, searchVars>>
     \/ part = "rpc" /\ Next /\ UNCHANGED <<peerVars, connectionVars, searchVars>>
     \/ part = "search" /\ SearchNext /\ UNCHANGED <<peerVars, connectionVars, vars>>

(* The fairness of the part that runs. *)
MCFairness ==
  /\ WF_peerVars(part = "peers" /\ (BootDial \/ LoadAnchors \/ StartTasks))
  /\ WF_peerVars(part = "peers" /\ Maintenance)
  /\ \A a \in Listen : SF_peerVars(part = "peers" /\ MaintDeficit /\ a \in maintenance'.holds)
  /\ WF_peerVars(part = "peers" /\ FeelerDial)
  /\ \A s \in Side :
       /\ WF_connectionVars(part = "connection" /\ Reading(s))
       /\ WF_connectionVars(part = "connection" /\ Writing(s))
  /\ WF_searchVars(part = "search" /\ Call)
  /\ WF_searchVars(part = "search" /\ (NotFound \/ Hash))

MCSpec == MCInit /\ [][MCNext]_<<part, peerVars, connectionVars, vars, searchVars>> /\ MCFairness

-----------------------------------------------------------------------------
(* Every message that one frame holds arrives, unless the connection breaks. *)
MessagesArrive == part = "connection" => AllArrive
=============================================================================
