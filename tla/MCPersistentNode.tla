--------------------------- MODULE MCPersistentNode ---------------------------
(***************************************************************************)
(* Genesis, two branches of equal work whose longer forms compete, a block *)
(* that does not apply and its child, a replacement and its predecessor.   *)
(***************************************************************************)
EXTENDS PersistentNode

Tx(id, ins, outs, lock) ==
    [txid |-> id, inputs |-> ins, outputs |-> outs, lock_time |-> lock]
In(txid, pos, signer) == [prev |-> <<txid, pos>>, signer |-> signer]
Out(value, owner) == [value |-> value, owner |-> owner]
Coinbase(id, value, owner, lock) == Tx(id, <<>>, <<Out(value, owner)>>, lock)

\* t1 and its replacement t2 spend the genesis coin with fees 1 and 2; t3
\* spends the coinbase of a1.
t1 == Tx(11, <<In(1, 1, "alice")>>, <<Out(2, "bob")>>, 0)
t2 == Tx(12, <<In(1, 1, "alice")>>, <<Out(1, "bob")>>, 0)
t3 == Tx(13, <<In(2, 1, "alice")>>, <<Out(3, "bob")>>, 0)

MCTransactions == {t1, t2, t3}

Blk(hash, prev, work, txs) ==
    [hash |-> hash, prev_blockhash |-> prev, work |-> work, pow_met |-> TRUE,
     merkle_ok |-> TRUE, transactions |-> txs]

Genesis == Blk("g", "zero", 1, <<Coinbase(1, 3, "alice", 0)>>)
A1 == Blk("a1", "g", 1, <<Coinbase(2, 3, "alice", 1)>>)
B1 == Blk("b1", "g", 1, <<Coinbase(3, 3, "bob", 2), t1>>)
B2 == Blk("b2", "b1", 1, <<Coinbase(4, 3, "bob", 3)>>)

\* Pays itself too much, and weighs more than a1 and b1.
X1 == Blk("x1", "g", 2, <<Coinbase(5, 4, "bob", 4)>>)

\* Mined by this node on a1 with t2 and t3 pending.
M2 == Blk("m2", "a1", 3, <<Coinbase(6, 5, "miner", 9), t2, t3>>)

MCBlocks == {Genesis, A1, B1, B2, X1, M2}

MCTiedBlocks == {Genesis, A1, B1}


MCHashRank ==
    [h \in Hashes |->
       CASE h = "a1" -> 2 [] h = "b1" -> 1 [] h = "b2" -> 3 [] h = "g" -> 4
         [] h = "m2" -> 5 [] h = "x1" -> 6]

MCMineRequests ==
    { [subsidy |-> 3, miner |-> "miner", uniqueness |-> 9, work |-> 3,
       max_transactions |-> 2] }
==============================================================================
