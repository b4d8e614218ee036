----------------------------- MODULE RpcServer -----------------------------
(***************************************************************************)
(* The JSON-RPC endpoint of rpc/server.rs and the miners that use it: the  *)
(* rounds of bin/soak_miner.rs, each one getBlockTemplate, a search for a  *)
(* nonce and one submitBlock, against a chain and a mempool that peers     *)
(* change meanwhile.  Other clients poll, with a token or without.         *)
(*                                                                         *)
(* The limiter of RateLimiter is a count per minute here.  The chain is    *)
(* its height and the number of times another branch has taken over; what  *)
(* the mempool puts into a template is one of Choice.  Mining has the      *)
(* contents.  A round that fails ends the program and the controller       *)
(* starts another; soak_miner is run with one node to submit to, its       *)
(* default.                                                                *)
(***************************************************************************)
EXTENDS Integers, FiniteSets

CONSTANTS
  Miner, Poller,   \* clients
  ip,              \* client -> address
  bearer, custom,  \* client -> its token in either header, or NoToken
  fields,          \* client -> how it writes the names of parameters and results
  auth_token,      \* the token the node was started with, or NoToken
  NoToken,
  LIMIT,           \* requests per address and minute
  Choice,          \* what the mempool may put into a block
  MAX_HEIGHT,      \* bound: no template is given above it
  MAX_BRANCHES     \* bound on the reorganisations

Client == Miner \cup Poller

ASSUME RpcAssumption ==
  /\ \A c \in Client : fields[c] \in {"camelCase", "snake_case"}
  /\ LIMIT \in Nat \ {0} /\ MAX_HEIGHT \in Nat /\ MAX_BRANCHES \in Nat

VARIABLES
  height,     \* height of the tip
  branch,     \* reorganisations so far
  mempool,    \* what the next template holds
  used,       \* requests the limiter counted this minute, for each address
  template,   \* what each miner works on, or NoWork
  won         \* blocks reported as accepted: the client, the height, the branch the
              \* template was built on and the branch active at the answer

chain == <<height, branch, mempool>>
vars == <<chain, used, template, won>>

NoWork == [height |-> -1, branch |-> -1, mempool |-> -1]

Init ==
  /\ height = 0 /\ branch = 0 /\ mempool \in Choice
  /\ used = [a \in {ip[c] : c \in Client} |-> 0]
  /\ template = [c \in Miner |-> NoWork]
  /\ won = {}

-----------------------------------------------------------------------------
authorized(c) == auth_token = NoToken \/ bearer[c] = auth_token \/ custom[c] = auth_token

(* The parameters of both mining methods and the fields of their results are
   the Rust names; the methods that poll have no name of two words.        *)
ServerFields == "snake_case"

parse_request(c) == c \in Miner => fields[c] = ServerFields

(* rpc_handler counts a request before it looks at its token, and calls the
   method last.                                                            *)
Allowed(c) == used[ip[c]] < LIMIT

Count(c) == used' = IF Allowed(c) THEN [used EXCEPT ![ip[c]] = @ + 1] ELSE used

Handled(c) == Allowed(c) /\ authorized(c) /\ parse_request(c)

(* A round starts; it is over at once when no template is given. *)
FetchTemplate(c) ==
  /\ template[c] = NoWork /\ height < MAX_HEIGHT
  /\ Count(c)
  /\ template' = IF Handled(c)
                 THEN [template EXCEPT ![c] =
                        [height |-> height, branch |-> branch, mempool |-> mempool]]
                 ELSE template
  /\ UNCHANGED <<chain, won>>

(* Mutant: a template is good whatever came in since. *)
Current_Height(t) == t.mempool = mempool

(* What submit_block compares: the height, and the merkle root of the block it
   builds again.                                                           *)
Current(t) == t.height = height /\ t.mempool = mempool

(* add_block takes the block.  On the branch of the tip it is the next tip; on
   another one it stays beside the chain or takes it over.                 *)
Added(t) ==
  \/ /\ height' = height + 1 /\ mempool' \in Choice
     /\ branch' = (IF t.branch = branch THEN branch ELSE branch + 1) /\ branch' <= MAX_BRANCHES
  \/ t.branch # branch /\ UNCHANGED chain

SubmitAccepted(c) ==
  LET t == template[c]
  IN /\ t # NoWork /\ Handled(c) /\ Current(t)
     /\ Added(t)
     /\ won' = won \cup {[client |-> c, height |-> t.height + 1, built |-> t.branch, at |-> branch]}
     /\ template' = [template EXCEPT ![c] = NoWork]
     /\ Count(c)

(* Past the limit, a stale template, or an Err of add_block: the block may hold
   transactions that spend the same output, among others.                  *)
SubmitRefused(c) ==
  /\ template[c] # NoWork
  /\ template' = [template EXCEPT ![c] = NoWork]
  /\ Count(c)
  /\ UNCHANGED <<chain, won>>

(* The nonce is found and submitted; the round is over whatever the answer. *)
SubmitBlock(c) == SubmitAccepted(c) \/ SubmitRefused(c)

(* getBalance, getBlockCount, getMiningInfo, an unknown method or a wrong
   version: nothing changes but the count.                                 *)
Poll(c) ==
  /\ Count(c)
  /\ UNCHANGED <<chain, template, won>>

(* A block of a peer or of the node's own miner extends the chain; its
   transactions leave the mempool.                                         *)
PeerBlock ==
  /\ height < MAX_HEIGHT
  /\ height' = height + 1 /\ mempool' \in Choice
  /\ UNCHANGED <<branch, used, template, won>>

(* A block of a peer makes another branch the heaviest one, longer or shorter. *)
PeerReorganises ==
  /\ height > 0 /\ branch < MAX_BRANCHES
  /\ height' \in 1..MAX_HEIGHT /\ branch' = branch + 1 /\ mempool' \in Choice
  /\ UNCHANGED <<used, template, won>>

PeerTransaction ==
  /\ mempool' \in Choice
  /\ UNCHANGED <<height, branch, used, template, won>>

MinutePasses ==
  /\ used' = [a \in DOMAIN used |-> 0]
  /\ UNCHANGED <<chain, template, won>>

Next ==
  \/ \E c \in Miner : FetchTemplate(c) \/ SubmitBlock(c)
  \/ \E c \in Poller : Poll(c)
  \/ PeerBlock \/ PeerReorganises \/ PeerTransaction \/ MinutePasses

Spec == Init /\ [][Next]_vars

-----------------------------------------------------------------------------
(* Miners that solved templates of the same height are not both told that their
   block was accepted, as long as no other branch took over between the first
   template and the last answer (the height check under the chain lock).    *)
OneWinner ==
  \A v, w \in won :
    v.height = w.height /\ {v.built, v.at, w.built} = {w.at} => v = w

(* GO-LIVE-CHECKLIST.md, "Authenticated `getBlockTemplate` accepts
   `walletAddress`": no miner with the token is refused for the names it writes.
   It fails for every miner of the repository (README.md, section 4):
   GetBlockTemplateParams and SubmitBlockParams are read under their Rust names. *)
WalletAddressAccepted == \A c \in Miner : authorized(c) => parse_request(c)
=============================================================================
