------------------------------ MODULE MCPeerSync ------------------------------
(***************************************************************************)
(* A genesis block and two rival children, of which the second outweighs   *)
(* the first at the same height.                                           *)
(***************************************************************************)
EXTENDS PeerSync

Coinbase(id) == [txid |-> id, inputs |-> <<>>,
                 outputs |-> << [value |-> 1, owner |-> "miner"] >>]

Blk(hash, prev, work, id) ==
    [hash |-> hash, prev_blockhash |-> prev, work |-> work, pow_met |-> TRUE,
     merkle_ok |-> TRUE, transactions |-> <<Coinbase(id)>>]

MCBlocks ==
    { Blk("g", "zero", 1, 1), Blk("a1", "g", 1, 2), Blk("b1", "g", 2, 3) }
==============================================================================
