------------------------ MODULE NodeRefinementProofs ------------------------
(***************************************************************************)
(* The node implements ChainIndexSpec.                                     *)
(***************************************************************************)
EXTENDS NodeRefinement, NodeProofs

\* The instance defines insert_block as the node does.
LEMMA InsertBlockAgrees ==
    ASSUME NEW c, NEW b
    PROVE  insert_block(c, b) = Chain!insert_block(c, b)
<1>1. validate_block(b) = Chain!validate_block(b)
  BY DEF validate_block, is_coinbase, Chain!validate_block, Chain!is_coinbase
<1>2. insert_block_error(c, b) = Chain!insert_block_error(c, b)
  BY <1>1 DEF insert_block_error, IsIndexed,
              Chain!insert_block_error, Chain!IsIndexed
<1>3. NewEntry(c, b) = Chain!NewEntry(c, b)
  BY DEF NewEntry, Chain!NewEntry
<1>4. ASSUME NEW e
      PROVE  update_best_tip(e, c.best_tip, b.hash)
               = Chain!update_best_tip(e, c.best_tip, b.hash)
  BY DEF update_best_tip, Chain!update_best_tip
<1>. QED
  BY <1>2, <1>3, <1>4 DEF insert_block, IsIndexed,
                          Chain!insert_block, Chain!IsIndexed

\* The node's chain index only takes the steps of ChainIndexSpec: every
\* theorem about that specification holds of node.chain.
THEOREM NodeImplementsChain == Spec => ChainRefinement
<1>1. Init => IsNode(node) /\ Chain!Init
  <2>1. Init => IsNode(node)
    BY DEF Init, EmptyNode, IsNode
  <2>2. Init => Chain!Init
    BY DEF Init, EmptyNode, EmptyChain, Chain!Init, Chain!EmptyChain
  <2>. QED
    BY <2>1, <2>2
<1>2. IsNode(node) /\ [Next]_node => IsNode(node)' /\ [Chain!Next]_(node.chain)
  <2>. SUFFICES ASSUME IsNode(node), [Next]_node
                PROVE  IsNode(node)' /\ [Chain!Next]_(node.chain)
    OBVIOUS
  <2>1. ASSUME NEW b \in Blocks
        PROVE  insert_block(node.chain, b) = Chain!insert_block(node.chain, b)
    BY InsertBlockAgrees
  <2>. QED
    BY StepIndexes, <2>1 DEF Chain!Next, Chain!InsertBlock
<1>. QED
  BY <1>1, <1>2, PTL DEF Spec, ChainRefinement, Chain!Spec
==============================================================================
