---------------------------- MODULE PersistentNode ----------------------------
(***************************************************************************)
(* A serving node and its SQLite file.  The server handles one event at a  *)
(* time: it changes the node in memory, then persists the change with one  *)
(* SQL transaction (a pending transaction) or with several (a block),      *)
(* src/src/server.rs.  The process may stop between any two of them; what  *)
(* is in memory is lost, and `wobble serve` rebuilds the node from the     *)
(* store, or refuses to start.  A SQL transaction may also fail (a full    *)
(* disk, a store that another process has locked): the handler gives up    *)
(* with an error and the server goes on.  While no server runs, the debug  *)
(* commands of src/src/main.rs load the store, work on it and rewrite it.  *)
(***************************************************************************)
EXTENDS SqliteStore

CONSTANTS
    Transactions,   \* transactions that may be announced
    MineRequests,   \* arguments of mine_pending
    TornSaves,      \* whether the process may stop while a block is saved
    FailingSaves    \* whether a SQL transaction may fail, once

ASSUME TornSavesAssumption == TornSaves \in BOOLEAN /\ FailingSaves \in BOOLEAN

VARIABLES
    node,      \* NodeState of the running server
    store,     \* the SQLite file
    saving,    \* [steps, hash]: SQL transactions still to run for a block
    up,        \* the server is running
    torn       \* history: how saves were interrupted since the last full
               \* rewrite, by a stop ("stopped") or an error ("failed")

vars == <<node, store, saving, up, torn>>

Saved == [steps |-> <<>>, hash |-> NoHash]

Idle == up /\ saving = Saved

Init ==
    /\ node = EmptyNode
    /\ store = EmptyStore
    /\ saving = Saved
    /\ up = TRUE
    /\ torn = {}

\* handle_state_mutating_peer_message on announce_tx.
AnnounceTx(tx) ==
    LET submitted == submit_transaction(node, tx)
    IN  /\ Idle
        /\ node' = submitted.node
        /\ store' = IF submitted.err \in {"None", "DuplicateTransaction"}
                      THEN save_mempool_transaction(store, tx)
                      ELSE store
        /\ UNCHANGED <<saving, up, torn>>

\* The row of a pending transaction cannot be written.
AnnounceTxUnsaved(tx) ==
    LET submitted == submit_transaction(node, tx)
    IN  /\ Idle
        /\ FailingSaves /\ "failed" \notin torn
        /\ submitted.err \in {"None", "DuplicateTransaction"}
        /\ node' = submitted.node
        /\ torn' = torn \cup {"failed"}
        /\ UNCHANGED <<store, saving, up>>

\* Deliberate fault: whatever the index took is saved.
PersistBlock_Fault(result, h) ==
    /\ node' = result.node
    /\ saving' = IF h \in DOMAIN node'.blocks
                   THEN [steps |-> SaveSteps(node', h, node.chain.best_tip,
                                             node.mempool),
                         hash |-> h]
                   ELSE saving
    /\ UNCHANGED <<store, up, torn>>

\* A block has been accepted, or not, with result [err, node].
PersistBlock(result, h) ==
    /\ node' = result.node
    /\ saving' = IF result.err = "None"
                   THEN [steps |-> SaveSteps(node', h, node.chain.best_tip,
                                             node.mempool),
                         hash |-> h]
                   ELSE saving
    /\ UNCHANGED <<store, up, torn>>

\* handle_state_mutating_peer_message on announce_block; a block fetched
\* during sync or solved by the miner is accepted and saved the same way.
AnnounceBlock(b) ==
    /\ Idle
    /\ PersistBlock(accept_block(node, b), b.hash)

\* handle_peer_mine_pending
MinePending(req) ==
    /\ Idle
    /\ FeesKnown(node, SelectedTransactions(node, req))
    /\ \E b \in Blocks : /\ IsSolvedCandidate(b, node, req)
                         /\ PersistBlock(mine_block(node, b), b.hash)

\* The next SQL transaction of save_accepted_block_state.
Save ==
    /\ up
    /\ saving.steps # <<>>
    /\ store' = SaveStep(Head(saving.steps), store, node, saving.hash)
    /\ saving' = IF Len(saving.steps) = 1
                   THEN Saved
                   ELSE [saving EXCEPT !.steps = Tail(@)]
    /\ UNCHANGED <<node, up, torn>>

\* It fails: what was saved before it stays, the rest is given up.
SaveFails ==
    /\ up
    /\ saving.steps # <<>>
    /\ FailingSaves /\ "failed" \notin torn
    /\ saving' = Saved
    /\ torn' = torn \cup {"failed"}
    /\ UNCHANGED <<node, store, up>>

Stop ==
    /\ Idle \/ (up /\ TornSaves)
    /\ up' = FALSE
    /\ node' = EmptyNode
    /\ saving' = Saved
    /\ torn' = IF saving = Saved THEN torn ELSE torn \cup {"stopped"}
    /\ UNCHANGED store

\* run_serve on a store that loads; otherwise the command fails.
Start ==
    LET loaded == load_node_state(store)
    IN  /\ ~up
        /\ loaded.err = "None"
        /\ up' = TRUE
        /\ node' = loaded.node
        /\ UNCHANGED <<store, saving, torn>>

\* A debug command ends with save_sqlite_state of the result [err, node]; it
\* saves nothing if the node refused.
Rewrite(result) ==
    /\ result.err = "None"
    /\ store' = save_node_state(result.node)
    /\ torn' = {}
    /\ UNCHANGED <<node, saving, up>>

\* debug submit-payment and submit-transfer
DebugSubmit(tx) ==
    LET loaded == load_node_state(store)
    IN  /\ ~up
        /\ loaded.err = "None"
        /\ Rewrite(submit_transaction(loaded.node, tx))

\* debug mine-coinbase and mine-pending
DebugMine(req) ==
    LET loaded == load_node_state(store)
    IN  /\ ~up
        /\ loaded.err = "None"
        /\ FeesKnown(loaded.node, SelectedTransactions(loaded.node, req))
        /\ \E b \in Blocks : /\ IsSolvedCandidate(b, loaded.node, req)
                             /\ Rewrite(mine_block(loaded.node, b))

Next ==
    \/ \E tx \in Transactions : AnnounceTx(tx) \/ AnnounceTxUnsaved(tx) \/ DebugSubmit(tx)
    \/ \E b \in Blocks : AnnounceBlock(b)
    \/ \E req \in MineRequests : MinePending(req) \/ DebugMine(req)
    \/ Save
    \/ SaveFails
    \/ Stop
    \/ Start

Spec == Init /\ [][Next]_vars

------------------------------------------------------------------------------
\* Wherever the process stops, the stored blocks replay: every one is there
\* with its ancestors and applies (load_blocks_in_height_order,
\* from_persisted), although the node also indexes blocks that do not apply.
StoredBlocksReplay ==
    "failed" \in torn \/ from_persisted(StoredBlocks(store), {}).err = "None"

\* Between two events the stored UTXO set is the active one, through reorgs,
\* side branches, blocks that do not apply and restarts
\* (save_accepted_block), unless a save failed.
StoredUtxosAreActive ==
    (Idle /\ "failed" \notin torn) => store.active_utxos = node.active_utxos

\* Every announced transaction spends something.  The pool also admits one
\* without inputs; it stays pending when a block has it as its coinbase, and
\* its row is then either missing or taken for a pending one.
AllSpend == \A tx \in Transactions : tx.inputs # <<>>

\* Between two events every pending transaction is on disk
\* (save_mempool_transaction, delete_stale_mempool_transactions), unless a
\* save failed, and if all transactions spend something.
PendingAreStored ==
    (Idle /\ "failed" \notin torn /\ AllSpend) => node.mempool \subseteq store.mempool

\* A node rebuilt from the store is as sound as one that never stopped, even
\* if saves were torn or failed: its cached sets are replays, its active set
\* is the tip's and what is pending is valid (load_node_state).
RebuiltNodeIsSound ==
    up => SnapshotsFollow(node) /\ ActiveMatchesTip(node) /\ PoolIsValid(node)

TipIsValid == node.chain.best_tip \in DOMAIN node.utxo_snapshots

\* If no save was torn or failed, the wallet index confirms exactly the
\* transactions of the best chain, each in its block, whenever that chain is
\* valid and all transactions spend something: reorgs rewrite it
\* (block_save_requires_mempool_index_refresh).
IndexFollowsBestChain ==
    (Idle /\ torn = {} /\ TipIsValid /\ AllSpend) =>
        LET confirmed(rows) == { r \in rows : r.block # NoHash }
        IN  confirmed(load_indexed_transactions(store))
              = confirmed(Range(build_transaction_index(node).transactions))

\* No transaction id occurs in two blocks of the best chain.
TxidsAreUnique ==
    \A g, h \in BestChain(node) :
        g # h => Txids(TxsOf(node, g)) \cap Txids(TxsOf(node, h)) = {}

Keys == { out.owner : out \in UNION { ToSet(tx.outputs) :
            tx \in UNION { ToSet(b.transactions) : b \in Blocks } } }

\* The confirmed history a key is shown adds up to its balance: what the
\* key edges say it received, less what they say it spent, is what the
\* stored UTXO set says it has (wallet_transaction_lines, run_balance).  It
\* holds through reorgs, replacements, restarts and debug rewrites, if no
\* save was torn or failed, no txid is confirmed twice and all transactions
\* spend something.
WalletHistoryAddsUp ==
    (Idle /\ torn = {} /\ TipIsValid /\ TxidsAreUnique /\ AllSpend) =>
        \A key \in Keys :
            Balance(store, {key})
              = MapThenSumSet(
                    LAMBDA t : WalletNet(load_transaction_key_edges(store, t), {key}),
                    { t \in load_transactions_for_keys(store, {key}) :
                        store.transactions[t].block # NoHash })

\* Another block has the work of the best tip.
TipIsTied ==
    \E h \in DOMAIN node.chain.entries :
        /\ h # node.chain.best_tip
        /\ node.chain.entries[h].cumulative_work
             = node.chain.entries[node.chain.best_tip].cumulative_work

\* Between two events the store can be loaded again, also after torn saves
\* that could be loaded, unless a save failed, the best tip does not apply
\* or another branch has the same work (load_node_state).
SettledStoreLoads ==
    (Idle /\ "failed" \notin torn /\ TipIsValid /\ ~TipIsTied) =>
        load_node_state(store).err = "None"

\* "recover best chain, UTXO state, and mempool safely after crash" (design.md):
\* what is on disk between two events can be loaded again (load_node_state).
IdleStoreLoads == Idle => load_node_state(store).err = "None"

\* The same wherever the process stops, between two SQL transactions of one
\* block included (save_accepted_block).
StoreAlwaysLoads == load_node_state(store).err = "None"

\* "`mempool_transactions` stores the current pending transaction set": a
\* restart brings back no transaction the pool had given up
\* (save_mempool_transaction).
PendingNeverConflictAcrossRestarts == PoolIsDisjoint(node)
==============================================================================
