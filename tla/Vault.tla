------------------------------- MODULE Vault -------------------------------
(***************************************************************************)
(* The encrypted key file of security/vault.rs and the commands of main.rs *)
(* that read and rewrite it: Init, NewWallet, ShowPhrase, RestoreWallet,   *)
(* Backup.  Each command is a process of its own; a rewrite is fs::write,  *)
(* which empties the file before it fills it.  There is no lock.           *)
(*                                                                         *)
(* A key is the pair of its secrets, which determines the address.  The    *)
(* encryption is external: a whole file opens, a partial one does not.     *)
(***************************************************************************)
EXTENDS Integers, Sequences, SequencesExt

CONSTANTS
  Procs,       \* commands that may run at the same time
  Labels,      \* labels the user gives to wallets
  MaxKeys,     \* bound on the secrets generated
  MaxCrashes   \* bound on the commands that die half way

VARIABLES
  vault,      \* vault.enc: its state and, if whole, its entries
  master_pub, \* master.pub: the master key, or 0
  proc,       \* what each process is doing
  backup,     \* the copy made by Backup
  fresh,      \* the next secret the generator returns
  phrases,    \* phrases the user was shown, with the wallet each stands for
  restored,   \* wallets a phrase was meant for, with those it gave
  saved,      \* entries reported as saved
  covered,    \* entries reported as saved when the last backup was reported
  made,       \* history: the pairs of entries that Inits have generated
  raced,      \* history: two commands ran at the same time
  crashes

vars == <<vault, master_pub, proc, backup, fresh, phrases, restored, saved, covered, made, raced,
          crashes>>

Absent == [state |-> "absent", entries |-> <<>>]
Torn == [state |-> "torn", entries |-> <<>>]
Whole(entries) == [state |-> "whole", entries |-> entries]

Entry(label, key) == [label |-> label, key |-> key]

Idle == [pc |-> "idle", entries |-> <<>>, new |-> {}]

Init ==
  /\ vault = Absent /\ backup = Absent
  /\ master_pub = 0
  /\ proc = [p \in Procs |-> Idle]
  /\ fresh = 1
  /\ phrases = {} /\ restored = {} /\ saved = {} /\ covered = {}
  /\ made = {} /\ raced = FALSE /\ crashes = 0

-----------------------------------------------------------------------------
(* MasterKey::generate: no wallet, so no second secret. *)
Master(n) == [ecdsa |-> n, seed |-> 0]

(* HybridKeyPair::generate: independent secrets. *)
Random(n, m) == [ecdsa |-> n, seed |-> m]

(* from_ecdsa_secret_bytes: the ML-DSA seed is a function of the other secret. *)
Derived(n) == [ecdsa |-> n, seed |-> n]

(* Wallet::from_secret_hex refuses an entry that is not a hybrid key. *)
IsWallet(entry) == entry.key.seed # 0

LabelsOf(entries) == {entries[i].label : i \in DOMAIN entries}

(* The first entry with a label. *)
Named(entries, label) ==
  SelectInSeq(entries, LAMBDA e : e.label = label)

-----------------------------------------------------------------------------
(* A command begins. *)
Begin == raced' = (raced \/ \E q \in Procs : proc[q] # Idle)

(* create_vault begins to write: the file is emptied. *)
Truncate(p, entries, new) ==
  /\ vault' = Torn
  /\ proc' = [proc EXCEPT ![p] = [pc |-> "writing", entries |-> entries, new |-> new]]

(* Init goes on only if there is no vault, and asks for a passphrase. *)
InitCheck(p) ==
  /\ proc[p] = Idle /\ vault = Absent
  /\ proc' = [proc EXCEPT ![p].pc = "init"]
  /\ Begin
  /\ UNCHANGED <<vault, master_pub, backup, fresh, phrases, restored, saved, covered, made, crashes>>

InitVault(p) ==
  LET entries == << Entry("master-key", Master(fresh)),
                    Entry("default-wallet", Random(fresh + 1, fresh + 2)) >>
  IN /\ proc[p].pc = "init" /\ fresh + 2 <= MaxKeys
     /\ Truncate(p, entries, ToSet(entries))
     /\ fresh' = fresh + 3
     /\ made' = made \cup {entries}
     /\ UNCHANGED <<master_pub, backup, phrases, restored, saved, covered, raced, crashes>>

(* Mutant: a vault that does not open counts as an empty one. *)
Open_Default(p, pc) ==
  /\ proc[p] = Idle /\ vault.state # "absent"
  /\ proc' = [proc EXCEPT ![p] = [pc |-> pc, entries |-> vault.entries, new |-> {}]]
  /\ Begin

(* open_vault: a file that is not there or not whole is an error. *)
Open(p, pc) ==
  /\ proc[p] = Idle /\ vault.state = "whole"
  /\ proc' = [proc EXCEPT ![p] = [pc |-> pc, entries |-> vault.entries, new |-> {}]]
  /\ Begin

OpenForUpdate(p) ==
  /\ Open(p, "opened")
  /\ UNCHANGED <<vault, master_pub, backup, fresh, phrases, restored, saved, covered, made, crashes>>

(* NewWallet: generate_with_phrase, and the whole vault is written again. *)
NewWallet(p, label) ==
  LET new == Entry(label, Derived(fresh))
  IN /\ proc[p].pc = "opened" /\ fresh <= MaxKeys
     /\ Truncate(p, Append(proc[p].entries, new), {new})
     /\ fresh' = fresh + 1
     /\ UNCHANGED <<master_pub, backup, phrases, restored, saved, covered, made, raced, crashes>>

(* RestoreWallet: a label may not be there already. *)
RestoreWallet(p, label, phrase) ==
  LET new == Entry(label, Derived(phrase.ecdsa))
  IN /\ proc[p].pc = "opened" /\ label \notin LabelsOf(proc[p].entries)
     /\ Truncate(p, Append(proc[p].entries, new), {new})
     /\ restored' = restored \cup {<<phrase.of, new.key>>}
     /\ UNCHANGED <<master_pub, backup, fresh, phrases, saved, covered, made, raced, crashes>>

(* Mutant: only what the command adds is written. *)
Filled_OnlyNew(p) == SetToSeq(proc[p].new)

Filled(p) == proc[p].entries

(* create_vault writes the contents and the command reports.  Where another
   process wrote to the emptied file in between, the longer of the two contents
   may leave its end behind.  Init has its public key still to save.         *)
WriteVault(p) ==
  /\ proc[p].pc = "writing"
  /\ \E v \in {Whole(Filled(p))} \cup IF vault = Torn THEN {} ELSE {Torn} : vault' = v
  /\ IF Head(proc[p].entries) \in proc[p].new
     THEN proc' = [proc EXCEPT ![p].pc = "pub"] /\ UNCHANGED <<saved, phrases>>
     ELSE /\ proc' = [proc EXCEPT ![p] = Idle]
          /\ saved' = saved \cup proc[p].new
          /\ phrases' = phrases \cup {[ecdsa |-> e.key.ecdsa, of |-> e.key] : e \in proc[p].new}
  /\ UNCHANGED <<master_pub, backup, fresh, restored, covered, made, raced, crashes>>

(* Init ends: save_public_key, and the owner's token (see AccessTokens). *)
InitPublicKey(p) ==
  /\ proc[p].pc = "pub"
  /\ master_pub' = Head(proc[p].entries).key.ecdsa
  /\ saved' = saved \cup proc[p].new
  /\ proc' = [proc EXCEPT ![p] = Idle]
  /\ UNCHANGED <<vault, backup, fresh, phrases, restored, covered, made, raced, crashes>>

(* ShowPhrase: the phrase is the ECDSA secret of the wallet found; the user
   takes it for the phrase of a wallet of this label.                       *)
ShowPhrase(label) ==
  /\ vault.state = "whole" /\ label \in LabelsOf(vault.entries)
  /\ LET found == vault.entries[Named(vault.entries, label)]
     IN /\ IsWallet(found)
        /\ phrases' = phrases \cup {[ecdsa |-> found.key.ecdsa, of |-> found.key]}
  /\ UNCHANGED <<vault, master_pub, proc, backup, fresh, restored, saved, covered, made, raced, crashes>>

(* Backup: the passphrase is verified on the vault, then the file is copied. *)
BackupOpen(p) ==
  /\ Open(p, "backup")
  /\ UNCHANGED <<vault, master_pub, backup, fresh, phrases, restored, saved, covered, made, crashes>>

BackupCopy(p) ==
  /\ proc[p].pc = "backup" /\ vault # Absent
  /\ backup' = vault /\ covered' = saved
  /\ proc' = [proc EXCEPT ![p] = Idle]
  /\ UNCHANGED <<vault, master_pub, fresh, phrases, restored, saved, made, raced, crashes>>

(* What ListWallets shows. *)
Listed == {e \in ToSet(vault.entries) : IsWallet(e) /\ e.label # "master-key"}

-----------------------------------------------------------------------------
(* The process is killed. *)
Crash(p) ==
  /\ proc[p] # Idle /\ crashes < MaxCrashes
  /\ proc' = [proc EXCEPT ![p] = Idle]
  /\ crashes' = crashes + 1
  /\ UNCHANGED <<vault, master_pub, backup, fresh, phrases, restored, saved, covered, made, raced>>

(* The data directory is lost; later the user copies the backup back. *)
LoseData ==
  /\ backup # Absent /\ vault # Absent /\ \A p \in Procs : proc[p] = Idle
  /\ vault' = Absent /\ master_pub' = 0 /\ saved' = {}
  /\ UNCHANGED <<proc, backup, fresh, phrases, restored, covered, made, raced, crashes>>

CopyBack ==
  /\ vault = Absent /\ backup # Absent /\ \A p \in Procs : proc[p] = Idle
  /\ vault' = backup /\ saved' = covered
  /\ UNCHANGED <<master_pub, proc, backup, fresh, phrases, restored, covered, made, raced, crashes>>

Next ==
  \/ \E p \in Procs :
        \/ InitCheck(p) \/ InitVault(p) \/ InitPublicKey(p) \/ OpenForUpdate(p)
        \/ WriteVault(p) \/ BackupOpen(p) \/ BackupCopy(p) \/ Crash(p)
        \/ \E label \in Labels :
              NewWallet(p, label) \/ \E phrase \in phrases : RestoreWallet(p, label, phrase)
  \/ \E label \in Labels \cup {"default-wallet"} : ShowPhrase(label)
  \/ LoseData \/ CopyBack

Spec == Init /\ [][Next]_vars

-----------------------------------------------------------------------------
Quiet == \A p \in Procs : proc[p].pc \notin {"writing", "pub"}

(* Every wallet reported as saved is listed from then on, through later
   commands, and through a loss if it was reported before the backup.       *)
SavedIsKept ==
  Quiet /\ vault # Absent => {e \in saved : IsWallet(e)} \subseteq Listed

(* A vault that opens starts with the key whose public half is in master.pub:
   Grant signs with secret_keys[0], VerifyToken checks against master.pub.   *)
MasterMatches ==
  Quiet /\ vault.state = "whole" /\ master_pub # 0 =>
    vault.entries[1] = Entry("master-key", Master(master_pub))

(* As long as no two commands ran at the same time and none died half way
   (nothing locks the file), the vault keeps its keys.                      *)
VaultKeepsKeys == ~raced /\ crashes = 0 => SavedIsKept /\ MasterMatches

(* Also with commands that run at the same time and commands that die, a vault
   that opens begins with the master key and the default wallet that one Init
   generated together: no rewrite drops, swaps or replaces the two, and of two
   Inits that both found no vault one leaves both its keys, not one of each.
   While only one Init went so far, they are the keys of that one.          *)
FirstKeysSurvive ==
  vault.state = "whole" =>
    Len(vault.entries) >= 2 /\ <<vault.entries[1], vault.entries[2]>> \in made

(* What documents of the repository say and the code does not keep; README.md,
   section 4, gives the constants with which each property fails.           *)

(* A phrase restores the wallet it was shown for ("restores both ECDSA + ML-DSA
   keys deterministically").                                                *)
PhraseRestores == \A r \in restored : r[1] = r[2]

(* Every wallet is the one its label finds ("For each wallet you also have a
   24-word BIP39 phrase (show-phrase --label <name>)").                      *)
LabelFindsWallet ==
  \A i \in DOMAIN vault.entries : Named(vault.entries, vault.entries[i].label) = i

(* Init never replaces keys it made before ("Vault already exists", and Init
   returns), as long as the vault was not lost.                             *)
InitMakesOne == backup = Absent => \A x, y \in made : x = y

(* A vault Init made comes with master.pub ("Saves your public master key"). *)
PublicKeySaved ==
  Quiet /\ vault.state = "whole" /\ backup = Absent => master_pub # 0
=============================================================================
