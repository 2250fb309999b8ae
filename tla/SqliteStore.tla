------------------------------ MODULE SqliteStore ------------------------------
(***************************************************************************)
(* The persistent store of src/src/sqlite_store.rs.  A store is a record   *)
(*   blocks       : block hash -> [block, height], the tables blocks and   *)
(*                  chain_entries (always written together)                *)
(*   best_tip     : the metadata row, or NoHash                            *)
(*   active_utxos : the active UTXO set                                    *)
(*   mempool      : the pending transactions                               *)
(*   transactions : txid -> [tx, block], the rows of the wallet index;     *)
(*                  block is NoHash for a pending transaction              *)
(*   edges        : txid -> the rows of transaction_keys, in the order     *)
(*                  they were written                                      *)
(* Each save_ operator is one SQL transaction and takes effect as a whole. *)
(***************************************************************************)
EXTENDS NodeState

CONSTANT
    HashRank    \* block hash -> its rank in the order of the hex strings

ASSUME HashRankAssumption ==
    /\ HashRank \in [Hashes -> Nat]
    /\ \A g, h \in Hashes : HashRank[g] = HashRank[h] => g = h

EmptyStore ==
    [blocks       |-> [h \in {} |-> 0],
     best_tip     |-> NoHash,
     active_utxos |-> EmptyUtxos,
     mempool      |-> {},
     transactions |-> [t \in {} |-> 0],
     edges        |-> [t \in {} |-> <<>>]]

\* best_chain_entries: the hashes from genesis to the best tip.
best_chain_entries(n) ==
    LET tip == n.chain.best_tip
        height == n.chain.entries[tip].height
        up[i \in 0..height] ==
            IF i = 0 THEN tip ELSE n.chain.entries[up[i - 1]].parent
    IN  IF tip = NoHash THEN <<>> ELSE [i \in 1..(height + 1) |-> up[height + 1 - i]]

\* best_chain_contains: the best tip and its ancestors.
BestChain(n) ==
    IF n.chain.best_tip = NoHash
      THEN {}
      ELSE {n.chain.best_tip} \cup ToSet(best_chain_entries(n))

Txids(txs) == { t.txid : t \in txs }

TxsOf(n, h) == ToSet(n.blocks[h].transactions)

------------------------------------------------------------------------------
(***************************************************************************)
(* Key edges: which keys a transaction spends from and pays to.            *)
(***************************************************************************)
Edge(role, output, vout) ==
    [role |-> role, key |-> output.owner, value |-> output.value, vout |-> vout]

\* The outputs at an outpoint, among those of the transactions in known.
OutputsAt(known, prev) ==
    { t.outputs[prev[2]] : t \in { k \in known : k.txid = prev[1]
                                                  /\ prev[2] \in DOMAIN k.outputs } }

\* Deliberate fault: an input is written down with the key that signs it.
append_transaction_key_edges_Fault(tx, known) ==
    [i \in DOMAIN tx.inputs |->
        Edge("input", [owner |-> tx.inputs[i].signer, value |-> 0], tx.inputs[i].prev[2])]
      \o [i \in DOMAIN tx.outputs |-> Edge("output", tx.outputs[i], i)]

\* append_transaction_key_edges: an input whose output is not among those of
\* known leaves no edge.
append_transaction_key_edges(tx, known) ==
    LET resolved == SelectSeq(tx.inputs, LAMBDA in : OutputsAt(known, in.prev) # {})
    IN  [i \in DOMAIN resolved |->
            Edge("input", CHOOSE o \in OutputsAt(known, resolved[i].prev) : TRUE,
                 resolved[i].prev[2])]
          \o [i \in DOMAIN tx.outputs |-> Edge("output", tx.outputs[i], i)]

\* load_output finds an output in the persisted rows.
Persisted(s) == { s.transactions[t].tx : t \in DOMAIN s.transactions }

build_transaction_key_edges_for_persisted_context(s, tx) ==
    append_transaction_key_edges(tx, Persisted(s))

\* Outputs of the block come before persisted ones.
append_transaction_key_edges_with_fallback(s, txs, i) ==
    append_transaction_key_edges(txs[i], ToSet(SubSeq(txs, 1, i - 1)) \cup Persisted(s))

\* build_confirmed_block_index: the edges of the block's transactions.
build_confirmed_block_index(s, txs) ==
    [t \in Txids(ToSet(txs)) |->
        append_transaction_key_edges_with_fallback(
            s, txs, CHOOSE i \in DOMAIN txs : txs[i].txid = t)]

------------------------------------------------------------------------------
save_block_record(s, n, h) ==
    [s EXCEPT !.blocks = With(@, h, [block |-> n.blocks[h],
                                     height |-> n.chain.entries[h].height]),
              !.best_tip = n.chain.best_tip]

save_active_utxos(s, n) == [s EXCEPT !.active_utxos = n.active_utxos]

save_mempool(s, n) == [s EXCEPT !.mempool = n.mempool]

\* Deliberate fault: the row takes the place of the whole table.
save_mempool_transaction_Fault(s, tx) ==
    [s EXCEPT !.mempool = {tx},
              !.transactions = With(@, tx.txid, [tx |-> tx, block |-> NoHash])]

\* One pending row, its index row and its edges; whatever the transaction
\* replaced or evicted keeps its rows.
save_mempool_transaction(s, tx) ==
    [s EXCEPT !.mempool = @ \cup {tx},
              !.transactions = With(@, tx.txid, [tx |-> tx, block |-> NoHash]),
              !.edges = With(@, tx.txid,
                             build_transaction_key_edges_for_persisted_context(s, tx))]

\* A stale transaction loses its pending rows, and its edges whatever the
\* status of its index row.
delete_stale_mempool_transactions(s, n) ==
    LET stale == Txids(s.mempool \ n.mempool)
        gone == { t \in DOMAIN s.transactions \cap stale :
                    s.transactions[t].block = NoHash }
    IN  [s EXCEPT !.mempool = @ \cap n.mempool,
                  !.transactions = [t \in DOMAIN @ \ gone |-> @[t]],
                  !.edges = [t \in DOMAIN @ \ stale |-> @[t]]]

Rows(txs, h) == [t \in Txids(ToSet(txs)) |->
                    [tx |-> CHOOSE x \in ToSet(txs) : x.txid = t, block |-> h]]

\* The rows of one block of the best chain.
save_confirmed_block_transactions(s, n, h) ==
    [s EXCEPT !.mempool = @ \ TxsOf(n, h),
              !.transactions = Rows(n.blocks[h].transactions, h) @@ @,
              !.edges = build_confirmed_block_index(s, n.blocks[h].transactions) @@ @]

\* The transactions of the index in the order build_transaction_index meets
\* them: block by block up the best chain, then the pending ones by txid.
ConfirmedRows(n) ==
    FlattenSeq([i \in DOMAIN best_chain_entries(n) |->
        LET h == best_chain_entries(n)[i]
        IN  [j \in DOMAIN n.blocks[h].transactions |->
                [tx |-> n.blocks[h].transactions[j], block |-> h]]])

PendingRows(n) ==
    LET sorted == SetToSortSeq(n.mempool, LAMBDA t, u : t.txid < u.txid)
    IN  [i \in DOMAIN sorted |-> [tx |-> sorted[i], block |-> NoHash]]

\* A row whose txid has been met before is left out.
FirstOfEachTxid(rows) ==
    LET first(i) == \A j \in 1..(i - 1) : rows[j].tx.txid # rows[i].tx.txid
        kept == SetToSortSeq({ i \in DOMAIN rows : first(i) }, LAMBDA i, j : i < j)
    IN  [i \in DOMAIN kept |-> rows[kept[i]]]

IndexOfRows(rows) ==
    LET at(t) == CHOOSE i \in DOMAIN rows : rows[i].tx.txid = t
        ids == { rows[i].tx.txid : i \in DOMAIN rows }
    IN  [transactions |-> [t \in ids |-> rows[at(t)]],
         edges |-> [t \in ids |->
                      append_transaction_key_edges(
                          rows[at(t)].tx, { rows[j].tx : j \in 1..(at(t) - 1) })]]

build_transaction_index(n) ==
    IndexOfRows(FirstOfEachTxid(ConfirmedRows(n) \o PendingRows(n)))

PutIndex(s, index) ==
    [s EXCEPT !.transactions = index.transactions, !.edges = index.edges]

save_transaction_index(s, n) == PutIndex(s, build_transaction_index(n))

\* save_node_state: every table is rewritten, in one SQL transaction.
save_node_state(n) ==
    PutIndex([blocks       |-> [h \in DOMAIN n.chain.entries |->
                                  [block |-> n.blocks[h],
                                   height |-> n.chain.entries[h].height]],
              best_tip     |-> n.chain.best_tip,
              active_utxos |-> n.active_utxos,
              mempool      |-> n.mempool,
              transactions |-> EmptyStore.transactions,
              edges        |-> EmptyStore.edges],
             build_transaction_index(n))

\* Deliberate fault: a reorg is saved like an extension.
block_save_requires_mempool_index_refresh_Fault(n, h, prev_tip, prev_pool) ==
    /\ n.chain.best_tip = h
    /\ Txids(prev_pool \ n.mempool) # Txids(ToSet(Tail(n.blocks[h].transactions)))

\* Whether the save of block h must also rewrite the pool and the index: it
\* became the tip without extending the previous one, or pruned more or less
\* than its own transactions.
block_save_requires_mempool_index_refresh(n, h, prev_tip, prev_pool) ==
    /\ n.chain.best_tip = h
    /\ \/ n.chain.entries[h].parent # prev_tip
       \/ Txids(prev_pool \ n.mempool) # Txids(ToSet(Tail(n.blocks[h].transactions)))

\* Deliberate fault: the active set is left for the next reorg to write.
SaveSteps_Fault(n, h, prev_tip, prev_pool) ==
    <<"block_record">>
      \o (IF h \in BestChain(n) THEN <<"stale", "confirmed">> ELSE <<>>)
      \o (IF block_save_requires_mempool_index_refresh(n, h, prev_tip, prev_pool)
            THEN <<"active_utxos", "mempool", "index">> ELSE <<>>)

\* save_accepted_block_state: the SQL transactions, in order, that persist
\* block h once the node has accepted it.
SaveSteps(n, h, prev_tip, prev_pool) ==
    <<"block_record">>
      \o (IF h \in BestChain(n)
            THEN <<"active_utxos", "stale", "confirmed">> ELSE <<>>)
      \o (IF block_save_requires_mempool_index_refresh(n, h, prev_tip, prev_pool)
            THEN <<"mempool", "index">> ELSE <<>>)

SaveStep(step, s, n, h) ==
    CASE step = "block_record" -> save_block_record(s, n, h)
      [] step = "active_utxos" -> save_active_utxos(s, n)
      [] step = "stale"        -> delete_stale_mempool_transactions(s, n)
      [] step = "confirmed"    -> save_confirmed_block_transactions(s, n, h)
      [] step = "mempool"      -> save_mempool(s, n)
      [] step = "index"        -> save_transaction_index(s, n)

------------------------------------------------------------------------------
\* load_blocks_in_height_order
StoredBlocks(s) ==
    LET sorted == SetToSortSeq(DOMAIN s.blocks,
                    LAMBDA g, h :
                      \/ s.blocks[g].height < s.blocks[h].height
                      \/ /\ s.blocks[g].height = s.blocks[h].height
                         /\ HashRank[g] < HashRank[h])
    IN  [i \in DOMAIN sorted |-> s.blocks[sorted[i]].block]

\* Deliberate fault: the stored pool is taken over as it is.
CompareWithStored_Fault(s, loaded) ==
    [err |-> IF loaded.err # "None" THEN "NodeState"
             ELSE IF loaded.node.chain.best_tip # s.best_tip
               THEN "RebuiltBestTipMismatch"
             ELSE IF loaded.node.active_utxos # s.active_utxos
               THEN "RebuiltUtxoMismatch"
             ELSE "None",
     node |-> [loaded.node EXCEPT !.mempool = s.mempool]]

\* The rebuilt node is compared with what was stored.
CompareWithStored(s, loaded) ==
    [err |-> IF loaded.err # "None" THEN "NodeState"
             ELSE IF loaded.node.chain.best_tip # s.best_tip
               THEN "RebuiltBestTipMismatch"
             ELSE IF loaded.node.active_utxos # s.active_utxos
               THEN "RebuiltUtxoMismatch"
             ELSE IF loaded.node.mempool # s.mempool
               THEN "RebuiltMempoolMismatch"
             ELSE "None",
     node |-> loaded.node]

load_node_state(s) ==
    CompareWithStored(s, from_persisted(StoredBlocks(s), s.mempool))

------------------------------------------------------------------------------
(***************************************************************************)
(* What the wallet commands read.                                          *)
(***************************************************************************)
load_indexed_transactions(s) == Range(s.transactions)

load_transaction_key_edges(s, t) == IF t \in DOMAIN s.edges THEN s.edges[t] ELSE <<>>

\* The ids of the indexed transactions that mention one of the keys; the
\* code also sorts them, confirmed ones first.
load_transactions_for_keys(s, keys) ==
    { t \in DOMAIN s.transactions :
        \E i \in DOMAIN load_transaction_key_edges(s, t) :
            load_transaction_key_edges(s, t)[i].key \in keys }

\* The value the edges of one role move from or to the keys.
EdgeTotal(edges, role, keys) ==
    MapThenSumSet(LAMBDA i : edges[i].value,
                  { i \in DOMAIN edges : edges[i].role = role /\ edges[i].key \in keys })

\* format_wallet_transaction_line: what a transaction means for the wallet.
WalletNet(edges, keys) ==
    EdgeTotal(edges, "output", keys) - EdgeTotal(edges, "input", keys)

\* run_balance
Balance(s, keys) ==
    MapThenSumSet(LAMBDA o : s.active_utxos[o].value,
                  { o \in DOMAIN s.active_utxos : s.active_utxos[o].owner \in keys })

==============================================================================
