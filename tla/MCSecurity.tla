----------------------------- MODULE MCSecurity -----------------------------
(***************************************************************************)
(* What guards a node and its money: the rate limiter, the vault, the      *)
(* access tokens, and the commands that spend from a wallet.  They share   *)
(* no variable, so a behaviour runs one of them and leaves the others      *)
(* where they start.                                                       *)
(***************************************************************************)
EXTENDS Vault, AccessTokens, RateLimiter, WalletSend, TLC

(* Commands have no identity, nor have peers that are never banned. *)
Symmetric == Permutations(Procs) \cup Permutations(Revokers) \cup Permutations(Peer \ Banned)

VARIABLE part   \* what this behaviour runs

-----------------------------------------------------------------------------
MCInit ==
  /\ part \in {"limit", "vault", "tokens", "sending"}
  /\ LimiterInit /\ Init /\ TokenInit /\ WalletInit

MCNext ==
  /\ UNCHANGED part
  /\ \/ part = "limit" /\ LimiterNext /\ UNCHANGED <<vars, tokenVars, walletVars>>
     \/ part = "vault" /\ Next /\ UNCHANGED <<limiterVars, tokenVars, walletVars>>
     \/ part = "tokens" /\ TokenNext /\ UNCHANGED <<limiterVars, vars, walletVars>>
     \/ part = "sending" /\ WalletNext /\ UNCHANGED <<limiterVars, vars, tokenVars>>

MCSpec == MCInit /\ [][MCNext]_<<part, limiterVars, vars, tokenVars, walletVars>>
=============================================================================
