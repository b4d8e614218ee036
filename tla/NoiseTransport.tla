--------------------------- MODULE NoiseTransport ---------------------------
(***************************************************************************)
(* One connection of network/noise.rs and peer.rs between an initiator and *)
(* a responder: three Noise handshake messages, the ML-KEM exchange, then  *)
(* application messages cut into frames.  A frame is two writes, a length  *)
(* and a body, and two reads; after the handshake each side reads and      *)
(* writes from different tasks.                                            *)
(*                                                                         *)
(* The ciphers are external: a body opens with the key and the counter it  *)
(* was sealed with.  A message is its size; parsing one needs all of it.   *)
(***************************************************************************)
EXTENDS Integers, Sequences, SequencesExt

CONSTANTS
  Loads,        \* what there may be to send
  CHUNK,        \* plaintext of a frame: NOISE_MAX_PLAINTEXT less the inner tag
  MAX_MSG_SIZE

Side == {"I", "R"}

ASSUME TransportAssumption ==
  /\ Loads \subseteq [Side -> Seq(Nat)]
  /\ CHUNK \in Nat \ {0} /\ MAX_MSG_SIZE \in Nat

VARIABLES
  payloads, \* the sizes of the messages each side sends, in order
  stage,    \* the step of the script each side is at; Open when it is through
  out,      \* writes of the current frame that are not done
  wire,     \* what the other side has written and this one has not read
  reading,  \* whether a side waits for a length or a body
  noise,    \* Noise nonces of each side, sending and receiving
  pq,       \* send_counter and recv_counter
  pq_key,
  todo,     \* messages a side has left to send; the rest of the current one first
  got,      \* messages a side has parsed
  error     \* why a side closed the connection, or "none"

connectionVars == <<payloads, stage, out, wire, reading, noise, pq, pq_key, todo, got, error>>

Other(s) == IF s = "I" THEN "R" ELSE "I"

(* Mutant: both sides start the ML-KEM exchange by reading. *)
Script_BothRead == [I |-> <<"write e", "read", "write s", "read", "write ek">>,
                    R |-> <<"read", "write e", "read", "read", "write ct">>]

(* connect and accept: the handshake of Noise_XX (e; e, ee, s, es; s, se), then
   the encapsulation key and its ciphertext.                                *)
Script == [I |-> <<"write e", "read", "write s", "write ek", "read">>,
           R |-> <<"read", "write e", "read", "read", "write ct">>]

Open == 6

Step(s) == Script[s][stage[s]]

Writes == {"write e", "write s", "write ek", "write ct"}

ConnectionInit ==
  /\ payloads \in Loads
  /\ stage = [s \in Side |-> 1]
  /\ out = [s \in Side |-> <<>>]
  /\ wire = [s \in Side |-> <<>>]
  /\ reading = [s \in Side |-> "len"]
  /\ noise = [s \in Side |-> [send |-> 0, recv |-> 0]]
  /\ pq = [s \in Side |-> [send |-> 0, recv |-> 0]]
  /\ pq_key = [s \in Side |-> "none"]
  /\ todo = payloads
  /\ got = [s \in Side |-> <<>>]
  /\ error = [s \in Side |-> "none"]

Live(s) == error[s] = "none"

-----------------------------------------------------------------------------
(* A frame with its Noise nonce (0 within the handshake, which keeps none), and
   what it holds: its two writes.                                           *)
Frame(nonce, content) == << [part |-> "len"], [part |-> "body", nonce |-> nonce, holds |-> content] >>

(* The messages of the ML-KEM exchange go through the transport. *)
Sealed(content) == content \in {"write ek", "write ct"}

(* handshake, noise_send_raw: the next message of the script is written.  The
   responder has its key with the ciphertext.                               *)
HandshakeWrite(s) ==
  /\ Live(s) /\ stage[s] < Open /\ Step(s) \in Writes /\ out[s] = <<>>
  /\ out' = [out EXCEPT ![s] = Frame(noise[s].send, Step(s))]
  /\ noise' = IF Sealed(Step(s)) THEN [noise EXCEPT ![s].send = @ + 1] ELSE noise
  /\ pq_key' = IF Step(s) = "write ct" THEN [pq_key EXCEPT ![s] = "shared"] ELSE pq_key
  /\ UNCHANGED <<payloads, stage, wire, reading, pq, todo, got, error>>

(* write_all of the length, then of the body; a handshake goes on only then. *)
Write(s) ==
  /\ Live(s) /\ out[s] # <<>>
  /\ wire' = [wire EXCEPT ![Other(s)] = Append(@, Head(out[s]))]
  /\ out' = [out EXCEPT ![s] = Tail(@)]
  /\ stage' = IF stage[s] < Open /\ Len(out[s]) = 1 THEN [stage EXCEPT ![s] = @ + 1] ELSE stage
  /\ UNCHANGED <<payloads, reading, noise, pq, pq_key, todo, got, error>>

(* Within the handshake a side reads when the script says so; after it the
   connection is split and the reader task does nothing else.               *)
Reads(s) == Live(s) /\ wire[s] # <<>> /\ (stage[s] < Open => Step(s) = "read")

(* Mutant: a read that is cancelled after the length starts over. *)
ReadLen_Cancelled(s) ==
  /\ Reads(s) /\ reading[s] = "len"
  /\ wire' = [wire EXCEPT ![s] = Tail(@)]
  /\ \E r \in {"len", "body"} : reading' = [reading EXCEPT ![s] = r]
  /\ error' = IF Head(wire[s]).part # "len" THEN [error EXCEPT ![s] = "framing"] ELSE error
  /\ UNCHANGED <<payloads, stage, out, noise, pq, pq_key, todo, got>>

(* read_exact of the length.  The bytes of a body taken for one are too large a
   length, or one whose body does not open: the connection ends.            *)
ReadLen(s) ==
  /\ Reads(s) /\ reading[s] = "len"
  /\ wire' = [wire EXCEPT ![s] = Tail(@)]
  /\ reading' = [reading EXCEPT ![s] = "body"]
  /\ error' = IF Head(wire[s]).part # "len" THEN [error EXCEPT ![s] = "framing"] ELSE error
  /\ UNCHANGED <<payloads, stage, out, noise, pq, pq_key, todo, got>>

(* The body of a handshake message: one of the ML-KEM exchange is opened by the
   transport; the ciphertext gives the initiator its key.                   *)
ReadHandshake(s) ==
  LET body == Head(wire[s])
      sealed == Sealed(body.holds)
  IN /\ Reads(s) /\ stage[s] < Open /\ reading[s] = "body"
     /\ wire' = [wire EXCEPT ![s] = Tail(@)]
     /\ reading' = [reading EXCEPT ![s] = "len"]
     /\ IF sealed /\ body.nonce # noise[s].recv
        THEN error' = [error EXCEPT ![s] = "noise"] /\ UNCHANGED <<stage, noise, pq_key>>
        ELSE /\ stage' = [stage EXCEPT ![s] = @ + 1]
             /\ noise' = IF sealed THEN [noise EXCEPT ![s].recv = @ + 1] ELSE noise
             /\ pq_key' = IF body.holds = "write ct" THEN [pq_key EXCEPT ![s] = "shared"] ELSE pq_key
             /\ UNCHANGED error
     /\ UNCHANGED <<payloads, out, pq, todo, got>>

-----------------------------------------------------------------------------
(* What of the rest of a message fits into a frame. *)
Chunk(size) == IF size > CHUNK THEN CHUNK ELSE size

TooLarge(size) == size > MAX_MSG_SIZE

(* Peer::send and send_raw: the next frame of the message at hand; the message
   is over when nothing of it is left.  One that is too large is an error.   *)
SendFrame(s) ==
  LET size == Head(todo[s])
      total == payloads[s][Len(payloads[s]) - Len(todo[s]) + 1]
  IN /\ Live(s) /\ stage[s] = Open /\ out[s] = <<>> /\ todo[s] # <<>>
     /\ IF TooLarge(total)
        THEN error' = [error EXCEPT ![s] = "size"] /\ UNCHANGED <<out, noise, pq, todo>>
        ELSE /\ out' = [out EXCEPT ![s] =
                  Frame(noise[s].send, [counter |-> pq[s].send, key |-> pq_key[s],
                                        size |-> total, chunk |-> Chunk(size)])]
             /\ noise' = [noise EXCEPT ![s].send = @ + 1]
             /\ pq' = [pq EXCEPT ![s].send = @ + 1]
             /\ todo' = [todo EXCEPT ![s] = IF size > CHUNK THEN <<size - CHUNK>> \o Tail(@)
                                            ELSE Tail(@)]
             /\ UNCHANGED error
     /\ UNCHANGED <<payloads, stage, wire, reading, pq_key, got>>

counted(c) == [c EXCEPT !.recv = @ + 1]

(* PeerReader::recv parses what one frame holds. *)
Parses(content) == content.chunk = content.size

(* read_message, pq_decrypt and from_slice, in this order. *)
Opens(s, body) ==
  CASE body.nonce # noise[s].recv -> "noise"
    [] body.holds.counter # pq[s].recv \/ body.holds.key # pq_key[s] -> "pq"
    [] ~Parses(body.holds) -> "parse"
    [] OTHER -> "none"

(* recv_raw and the parser: a frame is opened twice and read as a message; an
   error ends the reader task and with it the connection.                   *)
ReadFrame(s) ==
  LET body == Head(wire[s])
      verdict == Opens(s, body)
  IN /\ Reads(s) /\ stage[s] = Open /\ reading[s] = "body"
     /\ wire' = [wire EXCEPT ![s] = Tail(@)]
     /\ reading' = [reading EXCEPT ![s] = "len"]
     /\ error' = [error EXCEPT ![s] = verdict]
     /\ noise' = IF verdict # "noise" THEN [noise EXCEPT ![s].recv = @ + 1] ELSE noise
     /\ pq' = IF verdict \in {"none", "parse"} THEN [pq EXCEPT ![s] = counted(@)] ELSE pq
     /\ got' = IF verdict = "none" THEN [got EXCEPT ![s] = Append(@, body.holds.size)] ELSE got
     /\ UNCHANGED <<payloads, stage, out, pq_key, todo>>

(* The other side closed or the network broke, at any moment. *)
Closed(s) ==
  /\ Live(s)
  /\ error' = [error EXCEPT ![s] = "closed"]
  /\ UNCHANGED <<payloads, stage, out, wire, reading, noise, pq, pq_key, todo, got>>

Reading(s) == ReadLen(s) \/ ReadHandshake(s) \/ ReadFrame(s)

Writing(s) == HandshakeWrite(s) \/ Write(s) \/ SendFrame(s)

ConnectionNext == \E s \in Side : Reading(s) \/ Writing(s) \/ Closed(s)

(* Each side's reader and writer run; the network delivers. *)
ConnectionFairness ==
  \A s \in Side : WF_connectionVars(Reading(s)) /\ WF_connectionVars(Writing(s))

ConnectionSpec == ConnectionInit /\ [][ConnectionNext]_connectionVars /\ ConnectionFairness

-----------------------------------------------------------------------------
(* The messages of a side that one frame holds. *)
Fits(s) == \A i \in DOMAIN payloads[s] : payloads[s][i] <= CHUNK

(* The two sides stay in step: framing, nonces of both layers and keys agree
   with what the other side sent, whatever reads and writes interleave, also
   when one side is through the handshake before the other.  So a side that
   closes over a message has one that is too large to send, or was sent one
   of several frames.                                                       *)
InStep ==
  \A s \in Side :
    /\ error[s] \in {"none", "closed", "size", "parse"}
    /\ error[s] = "size" => \E i \in DOMAIN payloads[s] : TooLarge(payloads[s][i])
    /\ error[s] = "parse" => ~Fits(Other(s))

(* What a side has read is what the other sent, in that order and without gaps,
   even if the connection breaks in the middle of a frame.                  *)
InOrder == \A s \in Side : IsPrefix(got[s], payloads[Other(s)])

(* What arrives is what was sent, and no side closes over a message that nobody
   tampered with and one frame holds (noise_send, recv_raw, pq_encrypt).    *)
SidesAgree == InOrder /\ InStep

Broken == \E s \in Side : error[s] = "closed"

(* Every message arrives, if one frame holds it and the connection does not
   break (Peer::send, PeerReader::recv).                                    *)
AllArrive ==
  (\A s \in Side : Fits(s) /\ \A i \in DOMAIN payloads[s] : ~TooLarge(payloads[s][i]))
    => \A s \in Side : <>(got[s] = payloads[Other(s)] \/ Broken)

(* What the code says and does not keep; README.md, section 4: "Larger payloads
   are automatically split across multiple transport frames".               *)
LargeArrive == \A s \in Side : <>(got[s] = payloads[Other(s)] \/ Broken)
=============================================================================
