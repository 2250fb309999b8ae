------------------------------- MODULE NodeSpec -------------------------------
(***************************************************************************)
(* One node driven by its callers: blocks and transactions arrive in any   *)
(* order and any number of times, payments are built from the active set,  *)
(* and blocks are mined on the best tip.                                   *)
(***************************************************************************)
EXTENDS NodeState

CONSTANTS
    Transactions,   \* transactions that may be submitted
    MineRequests,   \* arguments of mine_block
    Payments        \* arguments of submit_payment

\* Transaction ids identify transactions.
ASSUME TransactionsAssumption ==
    \A s, t \in Transactions : s.txid = t.txid => s = t

VARIABLE node

Init == node = EmptyNode

AcceptBlock(b) == node' = accept_block(node, b).node

SubmitTransaction(tx) == node' = submit_transaction(node, tx).node

SubmitPayment(p) ==
    \E tx \in Transactions :
        /\ IsPaymentFor(tx, node.active_utxos, p)
        /\ node' = submit_transaction(node, tx).node

MineBlock(req) ==
    /\ FeesKnown(node, SelectedTransactions(node, req))
    /\ \E b \in Blocks : /\ IsSolvedCandidate(b, node, req)
                         /\ node' = mine_block(node, b).node

Next ==
    \/ \E b \in Blocks : AcceptBlock(b)
    \/ \E tx \in Transactions : SubmitTransaction(tx)
    \/ \E p \in Payments : SubmitPayment(p)
    \/ \E req \in MineRequests : MineBlock(req)

Spec == Init /\ [][Next]_node

------------------------------------------------------------------------------
\* The index, the bodies and the pool talk about the same blocks and about
\* submitted transactions only (accept_block, submit_transaction).
NodeTypeOK ==
    /\ IsNode(node)
    /\ IsChain(node.chain)
    /\ BodiesMatchIndex(node)
    /\ node.mempool \subseteq Transactions

\* Every cached UTXO set is what its block makes of its parent's cached set:
\* a snapshot equals a replay of its branch from genesis, however branches
\* were interleaved and retried, and a block without one did not apply or
\* has such an ancestor (ensure_snapshot).
SnapshotsFollowTheBranch == SnapshotsFollow(node)

\* If the best tip's block applies, the active set is its set: a reorg or an
\* extension never leaves the node spending from another branch
\* (accept_block).
ActiveSetIsTheTips == ActiveMatchesTip(node)

\* Every pending transaction is valid against the active set, also right
\* after a reorg: the two expect calls of Mempool::submit never panic
\* (prune_invalid, submit).
PendingStayValid == PoolIsValid(node)

\* No two pending transactions spend the same output (submit).
PendingNeverConflict == PoolIsDisjoint(node)

\* The pool never outgrows MAX_MEMPOOL_TRANSACTIONS.
PoolStaysBounded == Cardinality(node.mempool) <= MaxMempool

\* A branch never holds more coins than its blocks were allowed to mint,
\* fees, change and rewards included (apply_block).
NoInflation ==
    \A h \in DOMAIN node.utxo_snapshots :
        TotalValue(node.utxo_snapshots[h])
          <= BlockSubsidy * (node.chain.entries[h].height + 1)

\* While no block is indexed a pending transaction only leaves the pool for a
\* newcomer whose fee is not below or equal to its own (replacement and
\* eviction).
DisplacedOnlyByHigherFee ==
    [][ node'.chain = node.chain =>
          \A t \in node.mempool \ node'.mempool :
            \E s \in node'.mempool \ node.mempool :
              ~(transaction_fee(node.active_utxos, s)
                  <= transaction_fee(node.active_utxos, t)) ]_node

\* The tip the node prefers is a valid one: its block and all its ancestors
\* apply (accept_block).
PreferredTipIsValid ==
    node.chain.best_tip # NoHash =>
        node.chain.best_tip \in DOMAIN node.utxo_snapshots

\* Whatever is pending, the candidate of a mining request is valid up to its
\* nonce, so that the search of solve_candidate can end.
CandidatesAreSolvable ==
    \A req \in MineRequests :
        LET txs == SelectedTransactions(node, req)
        IN  \A i \in DOMAIN txs : ~is_coinbase(txs[i])
==============================================================================
