---------------------------- MODULE MCChainIndex ----------------------------
(***************************************************************************)
(* Two rival genesis blocks, a fork with a light and a heavy branch, a     *)
(* tie, a branch whose work overflows, a block without a known parent and  *)
(* one that fails validation.                                              *)
(***************************************************************************)
EXTENDS ChainIndexSpec

Coinbase == [txid |-> 0, inputs |-> <<>>,
             outputs |-> << [value |-> 1, owner |-> "miner"] >>]

Blk(hash, prev, work) ==
    [hash |-> hash, prev_blockhash |-> prev, work |-> work, pow_met |-> TRUE,
     merkle_ok |-> TRUE, transactions |-> <<Coinbase>>]

MCBlocks ==
    { Blk("g", "zero", 1), Blk("g2", "zero", 2),
      Blk("a1", "g", 1), Blk("a2", "a1", 1), Blk("a3", "a2", 2),
      Blk("b1", "g", 2), Blk("b2", "b1", 1), Blk("b3", "b2", 4),
      Blk("c1", "g", 3), Blk("c2", "c1", 1), Blk("c3", "c1", 2),
      Blk("d3", "a2", 1), Blk("d2", "b1", 1), Blk("e2", "a1", 3),
      Blk("h1", "g2", 1), Blk("h2", "h1", 3), Blk("lost", "unknown", 5),
      [Blk("bad", "g", 5) EXCEPT !.merkle_ok = FALSE] }
==============================================================================
