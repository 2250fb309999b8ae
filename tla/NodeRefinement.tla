--------------------------- MODULE NodeRefinement ---------------------------
(***************************************************************************)
(* The node as a user of the chain index: hidden behind accept_block and   *)
(* mine_block, node.chain behaves as ChainIndexSpec says.                  *)
(***************************************************************************)
EXTENDS NodeSpec

Chain == INSTANCE ChainIndexSpec WITH chain <- node.chain

\* The node's chain index only ever takes the steps of ChainIndexSpec, so
\* what is proved of that specification holds of the node's fork choice.
ChainRefinement == Chain!Spec
==============================================================================
