-------------------------- MODULE ChainIndexProofs --------------------------
(***************************************************************************)
(* The fork choice of ChainIndexSpec is correct for every set of blocks    *)
(* and every order they are offered in.                                    *)
(***************************************************************************)
EXTENDS ChainIndexSpec, ChainLemmas

\* The inductive invariant holds in every state of every behaviour.
THEOREM ChainInvariance == Spec => []ChainInv(chain)
<1>1. Init => ChainInv(chain)
  BY EmptyChainInv DEF Init
<1>2. ASSUME ChainInv(chain), [Next]_chain
      PROVE  ChainInv(chain')
  BY <1>2, InsertChainInv DEF Next, InsertBlock
<1>3. ChainInv(chain) /\ [Next]_chain => ChainInv(chain)'
  BY <1>2
<1>. QED
  BY <1>1, <1>3, PTL DEF Spec

\* Entries are well typed and no cumulative work overflows (insert_block).
THEOREM TypeCorrectness == Spec => []ChainTypeOK
<1>1. ChainInv(chain) => ChainTypeOK
  BY DEF ChainInv, ChainTypeOK
<1>. QED
  BY <1>1, ChainInvariance, PTL

\* No indexed block outweighs the best tip (update_best_tip).
THEOREM BestTipIsHeaviest == Spec => []BestTipHeaviest
<1>1. ChainInv(chain) => BestTipHeaviest
  BY DEF ChainInv, BestTipHeaviest
<1>. QED
  BY <1>1, ChainInvariance, PTL

\* The index is a tree with one root in which work grows from parent to
\* child (insert_block).
THEOREM IndexIsATree == Spec => []EntriesFormATree
<1>1. ChainInv(chain) => EntriesFormATree
  BY DEF ChainInv, EntriesFormATree
<1>. QED
  BY <1>1, ChainInvariance, PTL

\* The best tip has no indexed child: branch_count counts it as a head.
THEOREM BestTipIsAHead == Spec => []TipIsBranchHead
<1>1. ChainInv(chain) => TipIsBranchHead
  BY TipHasNoChild
     DEF ChainInv, TipIsHeaviest, TipIsBranchHead, BranchHeads, IsIndexed
<1>. QED
  BY <1>1, ChainInvariance, PTL

\* The tip moves only to strictly more work, and no entry ever changes
\* (insert_block).
THEOREM TipGainsWork == Spec => TipMovesOnlyToMoreWork
<1>1. ChainInv(chain) /\ [Next]_chain => [OnlyGains(chain, chain')]_chain
  BY InsertOnlyGains DEF Next, InsertBlock
<1>. QED
  BY <1>1, ChainInvariance, PTL DEF Spec, TipMovesOnlyToMoreWork
==============================================================================
