------------------------------- MODULE MCNode -------------------------------
(***************************************************************************)
(* A genesis block with two outputs, two branches of equal and of greater  *)
(* work that confirm conflicting transactions, blocks the node can mine    *)
(* itself, and transactions that replace, overlap and evict each other.    *)
(***************************************************************************)
EXTENDS NodeRefinement

Tx(id, ins, outs, lock) ==
    [txid |-> id, inputs |-> ins, outputs |-> outs, lock_time |-> lock]
In(txid, pos, signer) == [prev |-> <<txid, pos>>, signer |-> signer]
Out(value, owner) == [value |-> value, owner |-> owner]

Coinbase(id, value, owner, lock) == Tx(id, <<>>, <<Out(value, owner)>>, lock)

\* Coinbases.  c0 pays alice two outputs.
c0 == Tx(1, <<>>, <<Out(2, "alice"), Out(1, "alice")>>, 0)
c1 == Coinbase(2, 3, "alice", 1)
c2 == Coinbase(3, 3, "bob", 2)

\* Spends of the first output of c0, fees 1, 0 and 0 (the last a payment of
\* one coin with change); of the second, fees 0 and 1; of c1, fee 2; of
\* both, fee 4; one signed by the wrong key; and a payment of nothing.
t1 == Tx(11, <<In(1, 1, "alice")>>, <<Out(1, "bob")>>, 0)
t2 == Tx(12, <<In(1, 1, "alice")>>, <<Out(2, "bob")>>, 0)
t3 == Tx(13, <<In(1, 1, "alice")>>, <<Out(1, "bob"), Out(1, "alice")>>, 5)
t4 == Tx(14, <<In(1, 2, "alice")>>, <<Out(1, "carol")>>, 0)
t5 == Tx(15, <<In(1, 2, "alice")>>, <<Out(0, "carol")>>, 0)
t6 == Tx(16, <<In(2, 1, "alice")>>, <<Out(1, "bob")>>, 0)
t7 == Tx(17, <<In(1, 1, "alice"), In(2, 1, "alice")>>, <<Out(1, "bob")>>, 0)
t8 == Tx(18, <<In(1, 1, "bob")>>, <<Out(1, "bob")>>, 0)
t9 == Tx(19, <<>>, <<Out(0, "bob")>>, 6)

MCTransactions == {t1, t2, t3, t4, t5, t6, t7, t8, t9}

Blk(hash, prev, work, txs) ==
    [hash |-> hash, prev_blockhash |-> prev, work |-> work, pow_met |-> TRUE,
     merkle_ok |-> TRUE, transactions |-> txs]

MCBlocks ==
    { Blk("g", "zero", 1, <<c0>>),
      Blk("a1", "g", 1, <<c1>>), Blk("a2", "a1", 1, <<c2, t6, t2>>),
      Blk("b1", "g", 1, <<c2, t1>>), Blk("b2", "b1", 2, <<c1, t4>>),
      \* mined by this node on g, with nothing or t1 pending, and on a1
      Blk("m0", "g", 1, <<Coinbase(4, 3, "miner", 9)>>),
      Blk("m1", "g", 1, <<Coinbase(5, 4, "miner", 9), t1>>),
      Blk("m2", "a1", 1, <<Coinbase(6, 6, "miner", 9), t1, t6>>),
      \* mined for a request whose subsidy exceeds the allowed one
      Blk("x1", "g", 2, <<Coinbase(7, 4, "bob", 3)>>),
      Blk("x2", "x1", 2, <<c1>>) }

MCMineRequests ==
    { [subsidy |-> 3, miner |-> "miner", uniqueness |-> 9, work |-> 1,
       max_transactions |-> 2],
      [subsidy |-> 4, miner |-> "bob", uniqueness |-> 3, work |-> 2,
       max_transactions |-> 0] }

MCPayments ==
    { [senders |-> {"alice"}, change |-> "alice", recipient |-> "bob",
       amount |-> 1, uniqueness |-> 5],
      [senders |-> {"dave"}, change |-> "dave", recipient |-> "bob",
       amount |-> 0, uniqueness |-> 6] }
==============================================================================
