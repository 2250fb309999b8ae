--------------------------- MODULE ChainIndexSpec ---------------------------
(***************************************************************************)
(* A chain index fed blocks of the set Blocks in any order and any number  *)
(* of times: what a node's fork choice promises whoever calls              *)
(* insert_block.                                                           *)
(***************************************************************************)
EXTENDS ChainIndex

VARIABLE chain

Init == chain = EmptyChain

InsertBlock(b) == chain' = insert_block(chain, b)

Next == \E b \in Blocks : InsertBlock(b)

Spec == Init /\ [][Next]_chain

------------------------------------------------------------------------------
\* Every indexed hash is a block's, with a height and a work that fits u128
\* (insert_block refuses a sum that does not).
ChainTypeOK == IsChain(chain)

\* The best tip is an indexed block that no indexed block outweighs, and
\* there is one as soon as anything is indexed (update_best_tip).
BestTipHeaviest == TipIsHeaviest(chain)

\* The index is a tree with a single root in which work grows from parent to
\* child, whatever order blocks were offered in (insert_block).
EntriesFormATree == IsTree(chain)

\* No indexed block extends the best tip: the node never sits on a block
\* whose child it has already indexed (branch_count, update_best_tip).
TipIsBranchHead ==
    DOMAIN chain.entries # {} => chain.best_tip \in BranchHeads(chain)

\* The best tip moves only to a block that was just indexed and that has
\* strictly more work; equal work never unseats the first tip seen, and an
\* entry once indexed is never altered or dropped (insert_block).
TipMovesOnlyToMoreWork == [][OnlyGains(chain, chain')]_chain
==============================================================================
