---------------------------- MODULE AccessTokens ----------------------------
(***************************************************************************)
(* The access tokens of security/access.rs and the commands Grant, Revoke, *)
(* ListTokens and VerifyToken of main.rs.  Tokens live in one file per     *)
(* holder name, revoked ids in revoked.json, which Revoke reads, extends   *)
(* and writes back: fs::write empties it first, and nothing locks it.      *)
(*                                                                         *)
(* Signatures are external: a token names the key that signed it.  Grant   *)
(* signs with the first key of the vault, the key of master.pub (module    *)
(* Vault, MasterMatches).  Tokens of other keys may be presented as well.  *)
(***************************************************************************)
EXTENDS Integers, FiniteSets, SequencesExt

CONSTANTS
  Revokers,          \* Revoke commands that may run at the same time
  Names,             \* holders; the owner is one of them
  Days,              \* lifetimes a token may be given, 0 for one that never expires
  MaxTokens,         \* bound on the tokens issued
  MaxDay,            \* bound on the clock
  MaxRevokeCrashes   \* bound on the commands that die half way

VARIABLES
  today,
  issued,         \* every token handed out
  files,          \* tokens/<name>.token
  revoked,        \* revoked.json: the ids in it, or TornList
  revokers,       \* Revoke commands: what they are about to write
  reported,       \* ids whose revocation was reported
  rejected,       \* tokens that VerifyToken has rejected
  revokes_raced,  \* history: two Revoke commands ran at the same time
  revoke_crashes

tokenVars == <<today, issued, files, revoked, revokers, reported, rejected, revokes_raced, revoke_crashes>>

TornList == [ids |-> {}, whole |-> FALSE]
Ids(s) == [ids |-> s, whole |-> TRUE]

NoRevoke == [pc |-> "idle", ids |-> {}, id |-> 0]

(* issue_token: the id is a hash of a key made for the holder, so it is new. *)
issue_token(name, days, signer) ==
  [holder |-> name, id |-> Cardinality(issued) + 1, signer |-> signer,
   expires |-> IF days = 0 THEN 0 ELSE today + days]

(* After Init: the owner has a token that never expires. *)
TokenInit ==
  /\ today = 1
  /\ LET owner == [holder |-> "owner", id |-> 1, signer |-> "master", expires |-> 0]
     IN issued = {owner} /\ files = [n \in Names |-> IF n = "owner" THEN {owner} ELSE {}]
  /\ revoked = Ids({})
  /\ revokers = [p \in Revokers |-> NoRevoke]
  /\ reported = {} /\ rejected = {}
  /\ revokes_raced = FALSE /\ revoke_crashes = 0

-----------------------------------------------------------------------------
(* Grant; save overwrites the file of that name. *)
Grant(name, days) ==
  LET token == issue_token(name, days, "master")
  IN /\ Cardinality(issued) < MaxTokens
     /\ issued' = issued \cup {token}
     /\ files' = [files EXCEPT ![name] = {token}]
     /\ UNCHANGED <<today, revoked, revokers, reported, rejected, revokes_raced, revoke_crashes>>

(* A token another owner signed for a network of theirs.  *)
ForeignToken(name) ==
  /\ Cardinality(issued) < MaxTokens
  /\ issued' = issued \cup {issue_token(name, 0, "other")}
  /\ UNCHANGED <<today, files, revoked, revokers, reported, rejected, revokes_raced, revoke_crashes>>

(* Revoke loads the list (none when there is no file) and adds the id; a list
   that does not parse is an error.                                         *)
RevokeLoad(p, id) ==
  /\ revokers[p] = NoRevoke /\ revoked.whole
  /\ revokers' = [revokers EXCEPT ![p] = [pc |-> "loaded", ids |-> revoked.ids \cup {id}, id |-> id]]
  /\ revokes_raced' = (revokes_raced \/ \E q \in Revokers : revokers[q] # NoRevoke)
  /\ UNCHANGED <<today, issued, files, revoked, reported, rejected, revoke_crashes>>

(* RevocationList::save in two steps. *)
RevokeTruncate(p) ==
  /\ revokers[p].pc = "loaded"
  /\ revoked' = TornList
  /\ revokers' = [revokers EXCEPT ![p].pc = "writing"]
  /\ UNCHANGED <<today, issued, files, reported, rejected, revokes_raced, revoke_crashes>>

RevokeWrite(p) ==
  /\ revokers[p].pc = "writing"
  /\ revoked' = Ids(revokers[p].ids)
  /\ reported' = reported \cup {revokers[p].id}
  /\ revokers' = [revokers EXCEPT ![p] = NoRevoke]
  /\ UNCHANGED <<today, issued, files, rejected, revokes_raced, revoke_crashes>>

(* VerifyToken takes a list that does not load for an empty one. *)
RevokedIds == revoked.ids

(* Mutant: the list is consulted for tokens that expire only. *)
Valid_Forever(token) ==
  /\ token.signer = "master"
  /\ token.expires > 0 => today <= token.expires /\ token.id \notin RevokedIds

(* verify_with_revocation: signature, expiry, revocation. *)
Valid(token) ==
  /\ token.signer = "master"
  /\ token.expires > 0 => today <= token.expires
  /\ token.id \notin RevokedIds

VerifyToken(token) ==
  /\ ~Valid(token)
  /\ rejected' = rejected \cup {token}
  /\ UNCHANGED <<today, issued, files, revoked, revokers, reported, revokes_raced, revoke_crashes>>

DayPasses ==
  /\ today < MaxDay
  /\ today' = today + 1
  /\ UNCHANGED <<issued, files, revoked, revokers, reported, rejected, revokes_raced, revoke_crashes>>

RevokeCrash(p) ==
  /\ revokers[p] # NoRevoke /\ revoke_crashes < MaxRevokeCrashes
  /\ revokers' = [revokers EXCEPT ![p] = NoRevoke]
  /\ revoke_crashes' = revoke_crashes + 1
  /\ UNCHANGED <<today, issued, files, revoked, reported, rejected, revokes_raced>>

TokenNext ==
  \/ \E name \in Names : ForeignToken(name) \/ \E days \in Days : Grant(name, days)
  \/ \E p \in Revokers :
        \/ RevokeTruncate(p) \/ RevokeWrite(p) \/ RevokeCrash(p)
        \/ \E token \in issued : RevokeLoad(p, token.id)
  \/ \E token \in issued : VerifyToken(token)
  \/ DayPasses

TokenSpec == TokenInit /\ [][TokenNext]_tokenVars

-----------------------------------------------------------------------------
ListAtRest == \A p \in Revokers : revokers[p].pc # "writing"

(* A token whose revocation was reported is not accepted again, whatever is
   granted and revoked after it ("The token is immediately invalid").       *)
RevokedIsInvalid == ListAtRest => \A t \in issued : t.id \in reported => ~Valid(t)

(* What VerifyToken has rejected it rejects ever after, for each of its three
   reasons.                                                                 *)
RejectedForGood == ListAtRest => \A t \in rejected : ~Valid(t)

(* As long as no two Revoke commands ran at the same time and none died half way
   (nothing locks the list), no token comes back, for either reason.        *)
NoneComesBack == ~revokes_raced /\ revoke_crashes = 0 => RevokedIsInvalid /\ RejectedForGood

(* What documents of the repository say and the code does not keep; README.md,
   section 4, gives the constants with which each property fails.           *)

(* There is no window, either, in which a revoked token appears valid. *)
NoWindow == \A t \in issued : t.id \in reported => ~Valid(t)

(* ListTokens: the tokens of the directory.  A valid token is one of them, so
   that its id can be found and revoked.                                    *)
ListedTokens == UNION {files[n] : n \in Names}

ValidIsListed == \A t \in issued : Valid(t) => t \in ListedTokens
=============================================================================
