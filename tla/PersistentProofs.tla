--------------------------- MODULE PersistentProofs ---------------------------
(***************************************************************************)
(* The stored UTXO set is the active one between two events, for every set *)
(* of blocks, transactions and mining requests, with stops anywhere,       *)
(* restarts and debug rewrites.  The validity rules, the replay and the    *)
(* wallet index are never expanded.                                        *)
(***************************************************************************)
EXTENDS PersistentNode, NodeLemmas, SequenceTheorems

IsStore(s) ==
    s = [blocks |-> s.blocks, best_tip |-> s.best_tip,
         active_utxos |-> s.active_utxos, mempool |-> s.mempool,
         transactions |-> s.transactions, edges |-> s.edges]

StepNames == {"block_record", "active_utxos", "stale", "confirmed", "mempool", "index"}

\* Only one SQL transaction of a save writes the UTXO table.
LEMMA StepWritesUtxos ==
    ASSUME NEW s, IsStore(s), NEW n, NEW h, NEW step \in StepNames
    PROVE  /\ IsStore(SaveStep(step, s, n, h))
           /\ SaveStep(step, s, n, h).active_utxos
                = IF step = "active_utxos" THEN n.active_utxos ELSE s.active_utxos
<1>1. CASE step = "block_record"
  BY <1>1 DEF SaveStep, save_block_record, IsStore
<1>2. CASE step = "active_utxos"
  BY <1>2 DEF SaveStep, save_active_utxos, IsStore
<1>3. CASE step = "stale"
  BY <1>3 DEF SaveStep, delete_stale_mempool_transactions, IsStore
<1>4. CASE step = "confirmed"
  BY <1>4 DEF SaveStep, save_confirmed_block_transactions, IsStore
<1>5. CASE step = "mempool"
  BY <1>5 DEF SaveStep, save_mempool, IsStore
<1>6. CASE step = "index"
  BY <1>6 DEF SaveStep, save_transaction_index, PutIndex, IsStore
<1>. QED
  BY <1>1, <1>2, <1>3, <1>4, <1>5, <1>6 DEF StepNames

\* accept_block changes the active set only for a block that it makes the tip.
LEMMA AcceptMovesActive ==
    ASSUME NEW n, IsNode(n), NEW b
    PROVE  LET m == accept_block(n, b)
           IN  \/ m.node.active_utxos = n.active_utxos
               \/ m.err = "None" /\ m.node.chain.best_tip = b.hash
<1>. DEFINE ix == Indexed(n, b)
            sn == Snapshotted(ix, b.hash)
<1>1. IsNode(ix) /\ ix.active_utxos = n.active_utxos
  BY DEF IsNode, Indexed
<1>2. IsNode(sn) /\ sn.active_utxos = n.active_utxos
  BY <1>1 DEF IsNode, Snapshotted
<1>3. ASSUME NEW m, IsNode(m)
      PROVE  LET a == activate(m, b.hash)
             IN  a.active_utxos = m.active_utxos \/ a.chain.best_tip = b.hash
  BY <1>3, UpdateActiveAndPool DEF activate
<1>. QED
  BY <1>1, <1>2, <1>3, AcceptShape

\* So does mine_block, which only takes mined transactions off the pool.
LEMMA MineMovesActive ==
    ASSUME NEW n, IsNode(n), NEW b
    PROVE  LET m == mine_block(n, b)
           IN  \/ m.node.active_utxos = n.active_utxos
               \/ m.err = "None" /\ m.node.chain.best_tip = b.hash
<1>. DEFINE a == accept_block(n, b)
            pool == a.node.mempool \ ToSet(Tail(b.transactions))
<1>1. IsNode(a.node)
  BY AcceptIndexes
<1>2. ASSUME NEW m, IsNode(m), NEW p
      PROVE  /\ [m EXCEPT !.mempool = p].active_utxos = m.active_utxos
             /\ [m EXCEPT !.mempool = p].chain = m.chain
  BY <1>2 DEF IsNode
<1>3. mine_block(n, b) = IF a.err # "None"
                           THEN a
                           ELSE [err |-> "None", node |-> [a.node EXCEPT !.mempool = pool]]
  BY DEF mine_block
<1>4. \/ a.node.active_utxos = n.active_utxos
      \/ a.err = "None" /\ a.node.chain.best_tip = b.hash
  BY AcceptMovesActive
<1>. HIDE DEF a, pool
<1>. QED
  BY <1>1, <1>2, <1>3, <1>4

\* mine_block leaves a record with the fields of a node.
LEMMA MineIsNode ==
    ASSUME NEW n, IsNode(n), NEW b
    PROVE  IsNode(mine_block(n, b).node)
<1>. DEFINE a == accept_block(n, b)
            pool == a.node.mempool \ ToSet(Tail(b.transactions))
<1>1. IsNode(a.node)
  BY AcceptIndexes
<1>2. ASSUME NEW m, IsNode(m), NEW p
      PROVE  IsNode([m EXCEPT !.mempool = p])
  BY <1>2 DEF IsNode
<1>3. mine_block(n, b) = IF a.err # "None"
                           THEN a
                           ELSE [err |-> "None", node |-> [a.node EXCEPT !.mempool = pool]]
  BY DEF mine_block
<1>. HIDE DEF a, pool
<1>. QED
  BY <1>1, <1>2, <1>3

\* The UTXO table is among the tables that the steps write.
WritesUtxos(steps) == \E i \in DOMAIN steps : steps[i] = "active_utxos"

\* The save of a block on the best chain writes the UTXO table.
LEMMA SaveStepsShape ==
    ASSUME NEW n, NEW h, NEW prev_tip, NEW prev_pool
    PROVE  /\ SaveSteps(n, h, prev_tip, prev_pool) \in Seq(StepNames)
           /\ (n.chain.best_tip = h /\ h # NoHash) =>
                WritesUtxos(SaveSteps(n, h, prev_tip, prev_pool))
<1>. DEFINE best == h \in BestChain(n)
            refresh == block_save_requires_mempool_index_refresh(n, h, prev_tip, prev_pool)
            written == IF best THEN <<"active_utxos", "stale", "confirmed">> ELSE <<>>
            rest == IF refresh THEN <<"mempool", "index">> ELSE <<>>
            steps == <<"block_record">> \o written \o rest
<1>1. SaveSteps(n, h, prev_tip, prev_pool) = steps
  BY DEF SaveSteps
<1>2. (n.chain.best_tip = h /\ h # NoHash) => best
  BY DEF BestChain
<1>3. /\ written \in Seq(StepNames) /\ rest \in Seq(StepNames)
      /\ <<"block_record">> \in Seq(StepNames) /\ Len(<<"block_record">>) = 1
  <2>1. /\ <<"active_utxos", "stale", "confirmed">> \in Seq(StepNames)
        /\ <<"mempool", "index">> \in Seq(StepNames)
        /\ <<"block_record">> \in Seq(StepNames)
    BY DEF StepNames
  <2>2. <<>> \in Seq(StepNames)
    OBVIOUS
  <2>3. Len(<<"block_record">>) = 1
    OBVIOUS
  <2>. HIDE DEF best, refresh
  <2>. QED
    BY <2>1, <2>2, <2>3, Zenon
<1>4. best => Len(written) = 3 /\ written[1] = "active_utxos"
  OBVIOUS
<1>5. ASSUME NEW r \in Seq(StepNames), NEW s \in Seq(StepNames), NEW t \in Seq(StepNames)
      PROVE  /\ r \o s \in Seq(StepNames)
             /\ (r \o s) \o t \in Seq(StepNames)
             /\ Len((r \o s) \o t) = Len(r) + Len(s) + Len(t)
             /\ (Len(r) = 1 /\ Len(s) = 3) => ((r \o s) \o t)[2] = s[1]
  <2>1. r \o s \in Seq(StepNames) /\ Len(r \o s) = Len(r) + Len(s)
    OBVIOUS
  <2>2. ASSUME Len(r) = 1, Len(s) = 3
        PROVE  (r \o s)[2] = s[1]
    <3>1. \A i \in 1..(Len(r) + Len(s)) :
            (r \o s)[i] = IF i <= Len(r) THEN r[i] ELSE s[i - Len(r)]
      BY ConcatProperties
    <3>2. 2 \in 1..(Len(r) + Len(s)) /\ ~(2 <= Len(r)) /\ 2 - Len(r) = 1
      BY <2>2
    <3>. QED
      BY <3>1, <3>2, Zenon
  <2>. DEFINE rs == r \o s
  <2>. HIDE DEF rs
  <2>3. rs \in Seq(StepNames) => /\ rs \o t \in Seq(StepNames)
                                 /\ Len(rs \o t) = Len(rs) + Len(t)
                                 /\ Len(rs) = 4 => (rs \o t)[2] = rs[2]
    OBVIOUS
  <2>. QED
    BY <2>1, <2>2, <2>3 DEF rs
<1>. HIDE DEF best, refresh, written, rest
<1>6. steps \in Seq(StepNames)
  BY <1>3, <1>5
<1>7. best => 2 \in DOMAIN steps /\ steps[2] = "active_utxos"
  BY <1>3, <1>4, <1>5
<1>. QED
  BY <1>1, <1>2, <1>6, <1>7 DEF WritesUtxos

------------------------------------------------------------------------------
\* The UTXO table is still to be written by the save in progress.
UtxosToWrite == WritesUtxos(saving.steps)

PersistInv ==
    /\ IsNode(node)
    /\ IsStore(store)
    /\ saving.steps \in Seq(StepNames)
    /\ saving = [steps |-> saving.steps, hash |-> saving.hash]
    /\ (up /\ "failed" \notin torn) =>
         store.active_utxos = node.active_utxos \/ UtxosToWrite

\* A save that has finished has no step left.
LEMMA SavedSteps == Saved.steps = <<>> /\ Saved.steps \in Seq(StepNames)
                      /\ Saved = [steps |-> Saved.steps, hash |-> Saved.hash]
  BY DEF Saved

\* A fresh node and a fresh store agree.
LEMMA PersistInit == Init => PersistInv
<1>1. IsNode(EmptyNode)
  BY DEF EmptyNode, IsNode
<1>2. IsStore(EmptyStore) /\ EmptyStore.active_utxos = EmptyNode.active_utxos
  BY DEF IsStore, EmptyStore, EmptyNode
<1>. QED
  BY <1>1, <1>2, SavedSteps DEF Init, PersistInv

\* A node rebuilt from the store has the stored UTXO set.
LEMMA LoadedMatches ==
    ASSUME NEW s
    PROVE  /\ IsNode(load_node_state(s).node)
           /\ load_node_state(s).err = "None" =>
                load_node_state(s).node.active_utxos = s.active_utxos
<1>. DEFINE f == from_persisted(StoredBlocks(s), s.mempool)
<1>1. IsNode(f.node)
  BY DEF from_persisted, AttachPool, IsNode
<1>. HIDE DEF f
<1>2. /\ CompareWithStored(s, f).node = f.node
      /\ CompareWithStored(s, f).err = "None" => f.node.active_utxos = s.active_utxos
  BY DEF CompareWithStored
<1>. QED
  BY <1>1, <1>2 DEF load_node_state, f

\* A full rewrite stores the active set.
LEMMA RewriteMatches ==
    ASSUME NEW n
    PROVE  IsStore(save_node_state(n))
<1>. DEFINE i == build_transaction_index(n)
            s == [blocks       |-> [h \in DOMAIN n.chain.entries |->
                                     [block |-> n.blocks[h],
                                      height |-> n.chain.entries[h].height]],
                  best_tip     |-> n.chain.best_tip,
                  active_utxos |-> n.active_utxos,
                  mempool      |-> n.mempool,
                  transactions |-> EmptyStore.transactions,
                  edges        |-> EmptyStore.edges]
<1>1. save_node_state(n) = PutIndex(s, i)
  BY DEF save_node_state
<1>2. IsStore(s)
  BY DEF IsStore
<1>. HIDE DEF s, i
<1>. QED
  BY <1>1, <1>2 DEF PutIndex, IsStore

\* One row of the pool leaves the UTXO table alone.
LEMMA RowKeepsUtxos ==
    ASSUME NEW s, IsStore(s), NEW tx
    PROVE  /\ IsStore(save_mempool_transaction(s, tx))
           /\ save_mempool_transaction(s, tx).active_utxos = s.active_utxos
<1>. DEFINE p == s.mempool \cup {tx}
            t == With(s.transactions, tx.txid, [tx |-> tx, block |-> NoHash])
            e == With(s.edges, tx.txid,
                      build_transaction_key_edges_for_persisted_context(s, tx))
            q == [s EXCEPT !.mempool = p]
            r == [q EXCEPT !.transactions = t]
<1>1. save_mempool_transaction(s, tx)
        = [s EXCEPT !.mempool = p, !.transactions = t, !.edges = e]
  BY DEF save_mempool_transaction
<1>. HIDE DEF p, t, e
<1>2. [s EXCEPT !.mempool = p, !.transactions = t, !.edges = e] = [r EXCEPT !.edges = e]
  BY DEF IsStore
<1>3. IsStore(q) /\ q.active_utxos = s.active_utxos
  BY DEF IsStore
<1>. HIDE DEF q
<1>4. IsStore(r) /\ r.active_utxos = q.active_utxos
  BY <1>3 DEF IsStore
<1>. HIDE DEF r
<1>5. /\ IsStore([r EXCEPT !.edges = e])
      /\ [r EXCEPT !.edges = e].active_utxos = r.active_utxos
  BY <1>4 DEF IsStore
<1>. QED
  BY <1>1, <1>2, <1>3, <1>4, <1>5

\* A block that has been accepted is saved with its UTXO set.
LEMMA PersistBlockInv ==
    ASSUME PersistInv, Idle, NEW result, NEW h, h # NoHash,
           IsNode(result.node),
           \/ result.node.active_utxos = node.active_utxos
           \/ result.err = "None" /\ result.node.chain.best_tip = h,
           PersistBlock(result, h)
    PROVE  PersistInv'
<1>. DEFINE steps == SaveSteps(node', h, node.chain.best_tip, node.mempool)
<1>1. /\ IsNode(node') /\ node' = result.node
      /\ store' = store /\ up' = up /\ torn' = torn /\ IsStore(store')
  BY DEF PersistBlock, PersistInv
<1>2. CASE result.err = "None"
  <2>1. saving' = [steps |-> steps, hash |-> h]
    BY <1>2 DEF PersistBlock
  <2>2. /\ steps \in Seq(StepNames)
        /\ node'.chain.best_tip = h => WritesUtxos(steps)
    BY SaveStepsShape
  <2>. HIDE DEF steps
  <2>4. saving'.steps = steps /\ saving' = [steps |-> saving'.steps, hash |-> saving'.hash]
    BY <2>1
  <2>5. (up /\ "failed" \notin torn) => store.active_utxos = node.active_utxos
    <3>1. saving.steps = <<>>
      BY SavedSteps DEF Idle
    <3>. QED
      BY <3>1 DEF PersistInv, UtxosToWrite, WritesUtxos
  <2>. QED
    BY <1>1, <2>2, <2>4, <2>5 DEF PersistInv, UtxosToWrite
<1>3. CASE result.err # "None"
  <2>1. saving' = saving
    BY <1>3 DEF PersistBlock
  <2>. QED
    BY <1>1, <1>3, <2>1 DEF PersistInv, UtxosToWrite
<1>. QED
  BY <1>2, <1>3

\* A pending transaction leaves the active set alone.
LEMMA SubmitKeepsActive ==
    ASSUME NEW n, IsNode(n), NEW tx
    PROVE  submit_transaction(n, tx).node.active_utxos = n.active_utxos
<1>1. submit_transaction(n, tx).node
        = [chain |-> n.chain, active_utxos |-> n.active_utxos,
           mempool |-> submit(n.active_utxos, n.mempool, tx),
           blocks |-> n.blocks, utxo_snapshots |-> n.utxo_snapshots]
  BY SubmitShape
<1>. QED
  BY <1>1

\* The hash of a block is told apart from the absent one.
LEMMA BlockHash == ASSUME NEW b \in Blocks PROVE b.hash # NoHash
  BY BlocksAssumption

\* One step per action.
LEMMA PersistNext == PersistInv /\ [Next]_vars => PersistInv'
<1>. SUFFICES ASSUME PersistInv, [Next]_vars
              PROVE  PersistInv'
  OBVIOUS
<1>1. ASSUME NEW tx \in Transactions, AnnounceTx(tx)
      PROVE  PersistInv'
  <2>1. IsNode(node') /\ node'.active_utxos = node.active_utxos
    <3>1. IsNode(node) /\ node' = submit_transaction(node, tx).node
      BY <1>1 DEF AnnounceTx, PersistInv
    <3>2. submit_transaction(node, tx).node.active_utxos = node.active_utxos
      BY <3>1, SubmitKeepsActive
    <3>. QED
      BY <3>1, <3>2, SubmitShape
  <2>2. IsStore(store') /\ store'.active_utxos = store.active_utxos
    BY <1>1, RowKeepsUtxos DEF AnnounceTx, PersistInv
  <2>. QED
    BY <1>1, <2>1, <2>2 DEF AnnounceTx, PersistInv, UtxosToWrite
<1>2. ASSUME NEW tx \in Transactions, AnnounceTxUnsaved(tx)
      PROVE  PersistInv'
  <2>1. IsNode(node') /\ node'.active_utxos = node.active_utxos
    <3>1. IsNode(node) /\ node' = submit_transaction(node, tx).node
      BY <1>2 DEF AnnounceTxUnsaved, PersistInv
    <3>2. submit_transaction(node, tx).node.active_utxos = node.active_utxos
      BY <3>1, SubmitKeepsActive
    <3>. QED
      BY <3>1, <3>2, SubmitShape
  <2>. QED
    BY <1>2, <2>1 DEF AnnounceTxUnsaved, PersistInv, UtxosToWrite
<1>3. ASSUME NEW tx \in Transactions, DebugSubmit(tx)
      PROVE  PersistInv'
  <2>1. ~up' /\ node' = node /\ saving' = saving /\ IsStore(store')
    BY <1>3, RewriteMatches DEF DebugSubmit, Rewrite
  <2>. QED
    BY <2>1 DEF PersistInv, UtxosToWrite
<1>4. ASSUME NEW b \in Blocks, AnnounceBlock(b)
      PROVE  PersistInv'
  <2>1. IsNode(node) /\ Idle /\ PersistBlock(accept_block(node, b), b.hash)
    BY <1>4 DEF AnnounceBlock, PersistInv
  <2>. QED
    BY <2>1, AcceptIndexes, AcceptMovesActive, BlockHash, PersistBlockInv
<1>5. ASSUME NEW req \in MineRequests, MinePending(req)
      PROVE  PersistInv'
  <2>1. PICK b \in Blocks : PersistBlock(mine_block(node, b), b.hash)
    BY <1>5 DEF MinePending
  <2>2. IsNode(node) /\ Idle
    BY <1>5 DEF MinePending, PersistInv
  <2>3. IsNode(mine_block(node, b).node) /\ b.hash # NoHash
    BY <2>2, MineIsNode, BlockHash
  <2>4. \/ mine_block(node, b).node.active_utxos = node.active_utxos
        \/ /\ mine_block(node, b).err = "None"
           /\ mine_block(node, b).node.chain.best_tip = b.hash
    BY <2>2, MineMovesActive
  <2>. QED
    BY <2>1, <2>2, <2>3, <2>4, PersistBlockInv
<1>6. ASSUME NEW req \in MineRequests, DebugMine(req)
      PROVE  PersistInv'
  <2>1. ~up' /\ node' = node /\ saving' = saving /\ IsStore(store')
    BY <1>6, RewriteMatches DEF DebugMine, Rewrite
  <2>. QED
    BY <2>1 DEF PersistInv, UtxosToWrite
<1>7. ASSUME Save
      PROVE  PersistInv'
  <2>. DEFINE steps == saving.steps
              step == Head(steps)
  <2>1. steps \in Seq(StepNames) /\ steps # <<>> /\ IsNode(node) /\ IsStore(store)
    BY <1>7 DEF Save, PersistInv
  <2>2. step \in StepNames /\ Tail(steps) \in Seq(StepNames)
    BY <2>1
  <2>3. store' = SaveStep(step, store, node, saving.hash)
          /\ node' = node /\ up' = up /\ torn' = torn
    BY <1>7 DEF Save
  <2>4. /\ IsStore(store')
        /\ store'.active_utxos = IF step = "active_utxos" THEN node.active_utxos
                                 ELSE store.active_utxos
    BY <2>1, <2>2, <2>3, StepWritesUtxos
  <2>5. /\ saving'.steps = Tail(steps)
        /\ saving' = [steps |-> saving'.steps, hash |-> saving'.hash]
    <3>1. CASE Len(steps) = 1
      <4>1. Tail(steps) = <<>>
        <5>1. Tail(steps) \in Seq(StepNames) /\ Len(Tail(steps)) = 0
          BY <2>1, <3>1
        <5>. QED
          BY <5>1, EmptySeq
      <4>. QED
        BY <1>7, <3>1, <4>1, SavedSteps DEF Save
    <3>2. CASE Len(steps) # 1
      BY <1>7, <3>2 DEF Save, PersistInv
    <3>. QED
      BY <3>1, <3>2
  <2>6. WritesUtxos(steps) => step = "active_utxos" \/ WritesUtxos(Tail(steps))
    <3>. SUFFICES ASSUME NEW i \in DOMAIN steps, steps[i] = "active_utxos", i # 1
                  PROVE  \E j \in DOMAIN Tail(steps) : Tail(steps)[j] = "active_utxos"
      BY <2>1 DEF WritesUtxos
    <3>1. i - 1 \in DOMAIN Tail(steps) /\ Tail(steps)[i - 1] = steps[i]
      BY <2>1
    <3>. QED
      BY <3>1
  <2>. QED
    BY <2>2, <2>3, <2>4, <2>5, <2>6 DEF PersistInv, UtxosToWrite
<1>8. ASSUME SaveFails
      PROVE  PersistInv'
  BY <1>8, SavedSteps DEF SaveFails, PersistInv
<1>9. ASSUME Stop
      PROVE  PersistInv'
  <2>1. IsNode(EmptyNode)
    BY DEF EmptyNode, IsNode
  <2>. QED
    BY <1>9, <2>1, SavedSteps DEF Stop, PersistInv
<1>10. ASSUME Start
       PROVE  PersistInv'
  <2>1. IsNode(node') /\ node'.active_utxos = store.active_utxos
    BY <1>10, LoadedMatches DEF Start
  <2>. QED
    BY <1>10, <2>1 DEF Start, PersistInv
<1>11. CASE UNCHANGED vars
  BY <1>11 DEF vars, PersistInv, UtxosToWrite
<1>. QED
  BY <1>1, <1>2, <1>3, <1>4, <1>5, <1>6, <1>7, <1>8, <1>9, <1>10, <1>11 DEF Next

\* Between two events the stored UTXO set is the active one, through reorgs,
\* side branches, blocks that do not apply, stops between any two SQL
\* transactions, restarts and debug rewrites, unless a save failed
\* (save_accepted_block, load_node_state).
THEOREM StoredUtxosMatch == Spec => []StoredUtxosAreActive
<1>1. PersistInv => StoredUtxosAreActive
  <2>. SUFFICES ASSUME PersistInv, Idle, "failed" \notin torn
                PROVE  store.active_utxos = node.active_utxos
    BY DEF StoredUtxosAreActive
  <2>1. saving.steps = <<>> /\ up
    BY SavedSteps DEF Idle
  <2>2. ~UtxosToWrite
    BY <2>1 DEF UtxosToWrite, WritesUtxos
  <2>. QED
    BY <2>1, <2>2 DEF PersistInv
<1>. QED
  BY PersistInit, PersistNext, <1>1, PTL DEF Spec
==============================================================================
