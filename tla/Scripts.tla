------------------------------ MODULE Scripts ------------------------------
(***************************************************************************)
(* The locking scripts of transaction/tx.rs and evaluate_script of         *)
(* chain.rs, for one output and one input that spends it, as the chain     *)
(* grows and with it the time the script sees.                             *)
(*                                                                         *)
(* A script is its time locks, from the outermost in, and what they wrap:  *)
(* one key hash, or m of a list of keys.  A signature is a key and whether *)
(* it verifies for this transaction; the ciphers are external.             *)
(***************************************************************************)
EXTENDS Integers, Sequences, FiniteSets, FiniteSetsExt, SequencesExt

CONSTANTS
  Keys,
  Times,        \* lock times
  MaxLocks,     \* bound on nested time locks
  MaxWitnesses, \* bound on the witnesses of an input
  MaxTime

Signature == [key : Keys, valid : BOOLEAN]

P2PKH == [kind : {"P2PKH"}, keys : {<<k>> : k \in Keys}, m : {1}]
P2MS == UNION {[kind : {"P2MS"}, keys : BoundedSeq(Keys, 2), m : {m}] : m \in 1 .. 2}

Script == [locks : BoundedSeq(Times, MaxLocks), inner : P2PKH \cup P2MS]

VARIABLES script, signature, witnesses, block_time

vars == <<script, signature, witnesses, block_time>>

Init ==
  /\ script \in Script
  /\ signature \in Signature
  /\ witnesses \in BoundedSeq(Signature, MaxWitnesses)
  /\ block_time = 0

-----------------------------------------------------------------------------
(* The key hash determines the key. *)
SatisfiesP2PKH(inner) == signature.valid /\ signature.key = inner.keys[1]

Signers == <<signature>> \o witnesses

(* The first m signers are looked at, and each must be good. *)
SatisfiesP2MS(inner) ==
  LET counted == {i \in 1 .. Min({inner.m, Len(Signers)}) :
                    Signers[i].valid /\ Signers[i].key \in ToSet(inner.keys)}
  IN Len(Signers) >= inner.m /\ Cardinality(counted) >= inner.m

(* Mutant: only the outermost lock counts. *)
Unlocked_Outermost(locks) == locks = <<>> \/ block_time >= locks[1]

Unlocked(locks) == \A i \in DOMAIN locks : block_time >= locks[i]

evaluate_script ==
  /\ Unlocked(script.locks)
  /\ IF script.inner.kind = "P2PKH" THEN SatisfiesP2PKH(script.inner) ELSE SatisfiesP2MS(script.inner)

Grow ==
  /\ block_time < MaxTime
  /\ block_time' = block_time + 1
  /\ UNCHANGED <<script, signature, witnesses>>

Next == Grow

Spec == Init /\ [][Next]_vars

-----------------------------------------------------------------------------
(* What the scripts say: who has signed, and when the last lock opens. *)
Signed == {s.key : s \in {t \in ToSet(Signers) : t.valid}}

OneEach == \A i, j \in DOMAIN Signers : i # j => Signers[i].key # Signers[j].key

Owners == ToSet(script.inner.keys)

(* For an input with as many signatures as the script asks for, each of another
   key, the evaluation says what the script means: enough owners have signed,
   and the last of the nested locks is over.                                *)
MeansWhatItSays ==
  OneEach /\ Len(Signers) = script.inner.m =>
    ( evaluate_script <=>
        /\ Cardinality(Signed \cap Owners) >= script.inner.m
        /\ block_time >= Max({0} \cup ToSet(script.locks)) )

(* A document says so and the code does not keep it: README.md, section 4. *)

(* Each of the m signatures covers "a distinct key from `pubkeys`". *)
DistinctKeys ==
  evaluate_script /\ Cardinality(Owners) >= script.inner.m =>
    Cardinality(Signed \cap Owners) >= script.inner.m
=============================================================================
