----------------------------- MODULE NonceSearch -----------------------------
(***************************************************************************)
(* The nonce search of the mobile mining library (mobile/native/src/       *)
(* lib.rs): arkos_mine runs over a range of nonces in one thread while     *)
(* another may set the byte behind stop_flag.  Its caller is the loop that *)
(* the library documents: chunk after chunk until a nonce is found, and a  *)
(* new search when a block arrives on the network.                         *)
(*                                                                         *)
(* Hashing is external: each template has a set of nonces that meet its    *)
(* target.                                                                 *)
(***************************************************************************)
EXTENDS Integers

CONSTANTS
  MaxNonce,        \* bound: the caller gives up there
  ChunkSize,       \* nonces of one call
  CHECK_INTERVAL,  \* hashes between two looks at the flag
  First,           \* where the caller may start
  MaxStops         \* bound on the interruptions

ASSUME NonceAssumption ==
  /\ {MaxNonce, ChunkSize, CHECK_INTERVAL} \subseteq Nat \ {0}
  /\ First \subseteq 0..MaxNonce /\ MaxStops \in Nat

VARIABLES
  wins,       \* nonces that meet the target of the current template
  first,      \* the first nonce of this search
  pc,         \* idle between calls, mining in one, found
  nonce, end_nonce,
  stop_flag,
  hashes,     \* hashes since the flag was set
  stops

searchVars == <<wins, first, pc, nonce, end_nonce, stop_flag, hashes, stops>>

Template ==
  /\ wins' \in SUBSET (0..MaxNonce)
  /\ first' \in First
  /\ nonce' = first' /\ end_nonce' = first'
  /\ pc' = "idle"
  /\ stop_flag' = FALSE /\ hashes' = 0

SearchInit ==
  /\ wins \in SUBSET (0..MaxNonce)
  /\ first \in First
  /\ nonce = first /\ end_nonce = first
  /\ pc = "idle"
  /\ stop_flag = FALSE /\ hashes = 0
  /\ stops = 0

(* Mutant: the caller asks for the same chunk again. *)
Call_SameChunk ==
  /\ pc = "idle" /\ ~stop_flag /\ end_nonce <= MaxNonce
  /\ pc' = "mining"
  /\ nonce' = first
  /\ end_nonce' = first + ChunkSize
  /\ UNCHANGED <<wins, first, stop_flag, hashes, stops>>

(* The caller takes the next chunk up where the last one ended. *)
Call ==
  /\ pc = "idle" /\ ~stop_flag /\ end_nonce <= MaxNonce
  /\ pc' = "mining"
  /\ nonce' = end_nonce
  /\ end_nonce' = end_nonce + ChunkSize
  /\ UNCHANGED <<wins, first, stop_flag, hashes, stops>>

(* Mutant: the flag is looked at on entry to a call only. *)
LooksAtFlag_Entry == nonce = end_nonce - ChunkSize

LooksAtFlag == nonce % CHECK_INTERVAL = 0

(* NONCE_NOT_FOUND, for want of nonces or because of the flag. *)
NotFound ==
  /\ pc = "mining"
  /\ nonce >= end_nonce \/ (LooksAtFlag /\ stop_flag)
  /\ pc' = "idle"
  /\ UNCHANGED <<wins, first, nonce, end_nonce, stop_flag, hashes, stops>>

(* Mutant: the counter is advanced before the header is hashed. *)
Candidate_Next == nonce + 1

Candidate == nonce

Hash ==
  /\ pc = "mining" /\ nonce < end_nonce
  /\ ~(LooksAtFlag /\ stop_flag)
  /\ IF Candidate \in wins
     THEN pc' = "found" /\ nonce' = Candidate
     ELSE nonce' = nonce + 1 /\ UNCHANGED pc
  /\ hashes' = IF stop_flag THEN hashes + 1 ELSE 0
  /\ UNCHANGED <<wins, first, end_nonce, stop_flag, stops>>

(* The other thread interrupts the search, at any point of it. *)
SetFlag ==
  /\ ~stop_flag /\ stops < MaxStops
  /\ stop_flag' = TRUE /\ stops' = stops + 1
  /\ UNCHANGED <<wins, first, pc, nonce, end_nonce, hashes>>

(* The next template, once a nonce was found or the search was interrupted. *)
NewTemplate ==
  /\ pc # "mining" /\ stops < MaxStops /\ (pc = "found" \/ stop_flag)
  /\ Template
  /\ UNCHANGED stops

SearchNext == Call \/ NotFound \/ Hash \/ SetFlag \/ NewTemplate

(* The call goes on by itself; nobody has to interrupt it. *)
SearchFairness == WF_searchVars(Call) /\ WF_searchVars(NotFound \/ Hash)

SearchSpec == SearchInit /\ [][SearchNext]_searchVars /\ SearchFairness

-----------------------------------------------------------------------------
(* Chunk after chunk, no nonce is passed over: what is found is the first that
   meets the target, and every nonce behind an uninterrupted search was tried. *)
NothingSkipped ==
  ~stop_flag => \A w \in wins : w >= first => w >= nonce

(* An interrupted call returns before CHECK_INTERVAL more hashes, wherever its
   range begins ("check stop_flag every 8k hashes").                         *)
StopsSoon == hashes <= CHECK_INTERVAL

(* A search that is not interrupted finds a nonce that exists. *)
FindsOne ==
  (\E w \in wins : w >= first) ~> (pc = "found" \/ stop_flag)
=============================================================================
