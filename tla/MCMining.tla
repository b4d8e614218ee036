------------------------------ MODULE MCMining ------------------------------
(***************************************************************************)
(* Mining over every block the miners can build up to MAX_HEIGHT, and two  *)
(* blocks from peers, the first of which gives alice the outputs that her  *)
(* payments spend.  A block is named by its path from the genesis, a       *)
(* coinbase by miner, value and height.                                    *)
(***************************************************************************)
EXTENDS Mining

CONSTANTS
  Pay,              \* the payments of a run
  MAX_BLOCK_BYTES   \* the size limit of Block::validate

Id(name) == <<name, 0, 0>>

Pays(who, v) == [value |-> v, owner |-> who, lock_until |-> 0]

Spend(from, k, v, sz) ==
  [inputs |-> << <<from, k>> >>, outputs |-> <<Pays("alice", v)>>, is_coinbase |-> FALSE,
   coinbase_extra |-> 0, signers |-> {"alice"}, magic |-> "net", size |-> sz]

(* p3 spends the output of p1; rival spends the output p1 spends. *)
Payments == [
  p1    |-> Spend(<<"peer", 8, 1>>, 1, 2, 1),
  p2    |-> Spend(<<"peer", 8, 1>>, 2, 3, 2),
  p3    |-> Spend(Id("p1"), 1, 1, 2),
  rival |-> Spend(<<"peer", 8, 1>>, 1, 1, 3)]

PaymentFee == [p1 |-> 1, p2 |-> 2, p3 |-> 1, rival |-> 2]

(* p1 and p2 have the same fee rate. *)
ByRate == <<"p1", "p2", "rival", "p3">>

MCCoinbase(who, v, h) == <<who, v, h>>

MCTxid ==
  ({"local", "rpc", "peer"} \X (0..12) \X (0..4)) \cup {Id(n) : n \in Pay \cup {"null"}}

MCTx == [t \in MCTxid |->
  IF t[1] \in Pay THEN Payments[t[1]]
  ELSE [inputs |-> << <<Id("null"), 1>> >>, is_coinbase |-> TRUE, coinbase_extra |-> t[3],
        outputs |-> IF t = <<"peer", 8, 1>>
                    THEN <<Pays("alice", 3), Pays("alice", 5)>>
                    ELSE <<Pays(t[1], t[2])>>,
        signers |-> {}, magic |-> "net", size |-> 1]]

MCRank == [t \in MCTxid |->
  IF t[1] \in Pay THEN CHOOSE i \in 1..4 : ByRate[i] = t[1]
  ELSE 10 + t[2] + 20 * t[3] + 200 * (CASE t[1] = "local" -> 0 [] t[1] = "rpc" -> 1
                                      [] t[1] = "peer" -> 2 [] OTHER -> 3)]

-----------------------------------------------------------------------------
(* A block is the sequence of the bodies from the genesis up to it; miners'
   clocks stand still, so the timestamp follows from the height.            *)
MCTime == <<9, 10, 10, 11>>

MCHashOf(p, txs, ts) == CHOOSE b \in {Append(p, txs)} : ts = MCTime[Len(b)]

Trunk == << << <<"peer", 8, 1>> >> >>

MCPeerBlock == {Trunk, Append(Trunk, << <<"peer", 4, 2>> >>)}

Reward(h) == 8 \div (2 ^ (h \div 2))

MintedOn(p) == 8 + FoldLeft(LAMBDA sum, body : sum + Head(body)[2], 0, p)

Capped(p) == Min({Reward(Len(p) + 1), IF MintedOn(p) >= 22 THEN 0 ELSE 22 - MintedOn(p)})

(* Payments a miner can put on p: those that were admitted, at height 2 or
   above, and are not in p.                                                 *)
Picks(p) ==
  LET used == UNION {{p[i][k][1] : k \in DOMAIN p[i]} : i \in DOMAIN p}
      free == IF Len(p) >= 2 /\ p[1] = Trunk[1] THEN Pay \ used ELSE {}
  IN {S \in SUBSET free : Cardinality(S) <= TAKE_LIMIT /\ ("p3" \in S => "p1" \in used)}

(* The blocks the miners can put on p, and the ones that ignore the cap. *)
Built(p, reward) ==
  UNION {LET names == SelectSeq(ByRate, LAMBDA n : n \in S)
             body == [i \in DOMAIN names |-> Id(names[i])]
             fees == MapThenSumSet(LAMBDA n : PaymentFee[n], S)
         IN {Append(p, <<MCCoinbase("local", reward + fees, Len(p) + 1)>> \o body),
             Append(p, <<MCCoinbase("rpc", reward, Len(p) + 1)>> \o body)}
         : S \in Picks(p)}

level[d \in 0..4] ==
  IF d = 0 THEN {<<>>}
  ELSE UNION {Built(p, Capped(p)) : p \in level[d - 1]} \cup {p \in MCPeerBlock : Len(p) = d}

MCHash ==
  UNION {level[d] : d \in 0..MAX_HEIGHT}
    \cup UNION {UNION {Built(p, Reward(d)) : p \in level[d - 1]} : d \in 1..MAX_HEIGHT}

Size(body) == FoldLeft(LAMBDA sum, t : sum + MCTx[t].size, 0, body)

MCBlock == [b \in MCHash |->
  [prev_hash |-> IF b = <<>> THEN b ELSE Front(b), height |-> Len(b), bits |-> "lo",
   timestamp |-> IF b = <<>> THEN 1 ELSE MCTime[Len(b)],
   well_formed |-> b = <<>> \/ Size(Last(b)) <= MAX_BLOCK_BYTES,
   transactions |-> IF b = <<>> THEN << <<"peer", 8, 0>> >> ELSE Last(b)]]

MCGenesis == <<>>

MCNextBits == [b \in MCHash |-> "lo"]

MCWork == [lo |-> 1]

(* Every block has the one difficulty of the instance. *)
ASSUME SameDifficulty
=============================================================================
