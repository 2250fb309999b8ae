----------------------------- MODULE NodeProofs -----------------------------
(***************************************************************************)
(* What accept_block, submit_transaction and mine_block preserve, for      *)
(* every set of blocks, transactions, payments and mining requests.  The   *)
(* ledger operators (validate_transaction, transaction_fee, BlockApplies,  *)
(* apply_block) are never expanded: the proofs hold whatever the validity  *)
(* rules are.                                                              *)
(***************************************************************************)
EXTENDS NodeSpec, NodeLemmas

\* Every step indexes one block or leaves the index alone.
LEMMA StepIndexes ==
    ASSUME IsNode(node), [Next]_node
    PROVE  /\ IsNode(node)'
           /\ [\E b \in Blocks : node'.chain = insert_block(node.chain, b)]_(node.chain)
<1>1. CASE UNCHANGED node
  BY <1>1 DEF IsNode
<1>2. CASE \E b \in Blocks : AcceptBlock(b)
  BY <1>2, AcceptIndexes DEF AcceptBlock
<1>3. CASE \E tx \in Transactions : SubmitTransaction(tx)
  <2>1. PICK tx : node' = submit_transaction(node, tx).node
    BY <1>3 DEF SubmitTransaction
  <2>. QED
    BY <2>1, SubmitShape
<1>4. CASE \E p \in Payments : SubmitPayment(p)
  <2>1. PICK tx : node' = submit_transaction(node, tx).node
    BY <1>4 DEF SubmitPayment
  <2>. QED
    BY <2>1, SubmitShape
<1>5. CASE \E req \in MineRequests : MineBlock(req)
  <2>1. PICK b \in Blocks : node' = mine_block(node, b).node
    BY <1>5 DEF MineBlock
  <2>2. node'.chain = accept_block(node, b).node.chain
    BY <2>1, MineShape
  <2>. QED
    BY <2>1, <2>2, MineShape, AcceptIndexes
<1>. QED
  BY <1>1, <1>2, <1>3, <1>4, <1>5 DEF Next

------------------------------------------------------------------------------
(***************************************************************************)
(* The inductive invariant of a node.  That a snapshot follows its branch  *)
(* needs the index to be a tree: a block that gains a snapshot must not be *)
(* the parent of one that was already refused.                             *)
(***************************************************************************)
Structure(n) ==
    /\ IsNode(n)
    /\ ChainInv(n.chain)
    /\ BodiesMatchIndex(n)
    /\ SnapshotsFollow(n)

PoolInv(n) ==
    /\ n.mempool \subseteq Transactions
    /\ PoolIsValid(n)
    /\ PoolIsDisjoint(n)

NodeInv(n) == Structure(n) /\ ActiveMatchesTip(n) /\ PoolInv(n)

\* activate, spelled out.
LEMMA ActivateShape ==
    ASSUME NEW m, IsNode(m), NEW h
    PROVE  activate(m, h)
             = IF m.chain.best_tip = h
                 THEN [chain |-> m.chain, active_utxos |-> m.utxo_snapshots[h],
                       mempool |-> prune_invalid(m.utxo_snapshots[h], m.mempool),
                       blocks |-> m.blocks, utxo_snapshots |-> m.utxo_snapshots]
                 ELSE m
<1>. DEFINE u == m.utxo_snapshots[h]
            p == prune_invalid(u, m.mempool)
<1>1. [m EXCEPT !.active_utxos = u, !.mempool = p]
        = [chain |-> m.chain, active_utxos |-> u, mempool |-> p,
           blocks |-> m.blocks, utxo_snapshots |-> m.utxo_snapshots]
  <2>. HIDE DEF u, p
  <2>. QED
    BY UpdateActiveAndPool, Zenon
<1>2. activate(m, h) = IF m.chain.best_tip = h
                         THEN [m EXCEPT !.active_utxos = u, !.mempool = p]
                         ELSE m
  BY DEF activate
<1>. QED
  BY <1>1, <1>2

\* Switching the active set leaves a sound node: the pool is pruned against
\* the new set.
LEMMA ActivateInv ==
    ASSUME NEW m, Structure(m), PoolInv(m), NEW h,
           h # NoHash,
           m.chain.best_tip # h => ActiveMatchesTip(m)
    PROVE  NodeInv(activate(m, h))
<1>1. CASE m.chain.best_tip = h
  <2>. DEFINE a == [chain |-> m.chain, active_utxos |-> m.utxo_snapshots[h],
                    mempool |-> prune_invalid(m.utxo_snapshots[h], m.mempool),
                    blocks |-> m.blocks, utxo_snapshots |-> m.utxo_snapshots]
  <2>1. activate(m, h) = a
    BY <1>1, ActivateShape DEF Structure
  <2>2. Structure(a)
    BY DEF Structure, IsNode, BodiesMatchIndex, SnapshotsFollow, ParentKnown,
           Applies, ParentUtxos
  <2>3. ActiveMatchesTip(a)
    BY <1>1 DEF ActiveMatchesTip
  <2>4. PoolInv(a)
    BY DEF PoolInv, PoolIsValid, PoolIsDisjoint, prune_invalid
  <2>. QED
    BY <2>1, <2>2, <2>3, <2>4 DEF NodeInv
<1>2. CASE m.chain.best_tip # h
  BY <1>2, ActivateShape DEF Structure, NodeInv
<1>. QED
  BY <1>1, <1>2

\* A block that was already indexed changes neither index nor bodies.
LEMMA KnownBlock ==
    ASSUME NEW n, Structure(n), NEW b \in Blocks, IsIndexed(n.chain, b.hash)
    PROVE  Indexed(n, b) = n
<1>1. insert_block(n.chain, b) = n.chain
  BY DEF insert_block
<1>2. OrInsert(n.blocks, b.hash, b) = n.blocks
  BY DEF Structure, BodiesMatchIndex, IsIndexed, OrInsert
<1>. QED
  BY <1>1, <1>2 DEF Indexed, Structure, IsNode

\* A block that is not indexed yet and that insert_block takes.
NewBlock(n, b) ==
    /\ insert_block_error(n.chain, b) = "None"
    /\ ~IsIndexed(n.chain, b.hash)

\* Indexing a new block changes nothing about the blocks already indexed.
LEMMA NewBlockIndexed ==
    ASSUME NEW n, Structure(n), NEW b \in Blocks, NewBlock(n, b),
           NEW ix, ix = Indexed(n, b)
    PROVE  /\ IsNode(ix)
           /\ ChainInv(ix.chain)
           /\ BodiesMatchIndex(ix)
           /\ ix.utxo_snapshots = n.utxo_snapshots
           /\ ix.active_utxos = n.active_utxos
           /\ ix.mempool = n.mempool
           /\ DOMAIN ix.chain.entries = DOMAIN n.chain.entries \cup {b.hash}
           /\ b.hash \notin DOMAIN n.chain.entries
           /\ ix.chain.best_tip \in {n.chain.best_tip, b.hash}
           /\ ix.chain.best_tip # NoHash
           /\ \A h \in DOMAIN n.chain.entries :
                /\ ix.chain.entries[h] = n.chain.entries[h]
                /\ ix.blocks[h] = n.blocks[h]
           /\ \A h \in DOMAIN ix.chain.entries :
                ix.chain.entries[h].parent # NoHash =>
                  ix.chain.entries[h].parent \in DOMAIN n.chain.entries
<1>. DEFINE c == n.chain
            d == insert_block(n.chain, b)
<1>1. /\ ix.chain = d
      /\ ix.blocks = OrInsert(n.blocks, b.hash, b)
      /\ ix.utxo_snapshots = n.utxo_snapshots
      /\ ix.active_utxos = n.active_utxos
      /\ ix.mempool = n.mempool
      /\ IsNode(ix)
  BY DEF Indexed, IsNode
<1>2. b.hash \notin DOMAIN c.entries
  BY DEF NewBlock, IsIndexed
<1>3. d # c
  <2>1. d.entries = [h \in DOMAIN c.entries \cup {b.hash} |->
                       IF h = b.hash THEN NewEntry(c, b) ELSE c.entries[h]]
    BY DEF NewBlock, insert_block
  <2>2. b.hash \in DOMAIN d.entries
    BY <2>1
  <2>. QED
    BY <1>2, <2>2
<1>4. ChainInv(c) /\ IsChain(c)
  BY DEF Structure, ChainInv
<1>5. ChainInv(d)
  BY <1>4, InsertChainInv
<1>6. /\ DOMAIN d.entries = DOMAIN c.entries \cup {b.hash}
      /\ \A h \in DOMAIN c.entries : d.entries[h] = c.entries[h]
      /\ d.entries[b.hash] = NewEntry(c, b)
      /\ d.best_tip = update_best_tip(d.entries, c.best_tip, b.hash)
      /\ DOMAIN c.entries # {} => b.prev_blockhash \in DOMAIN c.entries
  BY <1>3, <1>4, InsertCases DEF IsIndexed
<1>7. d.best_tip \in {c.best_tip, b.hash} /\ d.best_tip # NoHash
  <2>1. b.hash # NoHash
    BY BlocksAssumption
  <2>. QED
    BY <1>6, <2>1 DEF update_best_tip
<1>8. /\ DOMAIN ix.blocks = DOMAIN n.blocks \cup {b.hash}
      /\ ix.blocks[b.hash] = b
      /\ \A h \in DOMAIN n.blocks : ix.blocks[h] = n.blocks[h]
  <2>1. b.hash \notin DOMAIN n.blocks
    BY <1>2 DEF Structure, BodiesMatchIndex
  <2>. QED
    BY <1>1, <2>1 DEF OrInsert, With
<1>9. \/ NewEntry(c, b).parent = NoHash /\ b.prev_blockhash = DefaultHash
      \/ /\ NewEntry(c, b).parent = b.prev_blockhash
         /\ b.prev_blockhash \in DOMAIN c.entries
         /\ b.prev_blockhash # NoHash
  BY <1>2, <1>6, BlocksAssumption
     DEF NewEntry, NewBlock, insert_block_error, IsIndexed
<1>10. BodiesMatchIndex(ix)
  BY <1>1, <1>2, <1>6, <1>8, <1>9 DEF Structure, BodiesMatchIndex
<1>11. \A h \in DOMAIN c.entries :
         c.entries[h].parent # NoHash => c.entries[h].parent \in DOMAIN c.entries
  BY <1>4 DEF ChainInv, IsTree, IsIndexed
<1>12. \A h \in DOMAIN d.entries :
         d.entries[h].parent # NoHash => d.entries[h].parent \in DOMAIN c.entries
  BY <1>6, <1>9, <1>11
<1>13. DOMAIN n.blocks = DOMAIN c.entries
  BY DEF Structure, BodiesMatchIndex
<1>. QED
  BY <1>1, <1>2, <1>5, <1>6, <1>7, <1>8, <1>10, <1>12, <1>13

\* A block that does not apply is indexed without harm: as the best tip it
\* has no set, so the active set keeps its old owner.
LEMMA IndexedInv ==
    ASSUME NEW n, NodeInv(n), NEW b \in Blocks, NewBlock(n, b),
           NEW ix, ix = Indexed(n, b),
           ~(ParentKnown(ix, b.hash) /\ Applies(ix, b.hash))
    PROVE  NodeInv(ix)
<1>1. Structure(n) /\ ActiveMatchesTip(n) /\ PoolInv(n)
  BY DEF NodeInv
<1>2. /\ IsNode(ix) /\ ChainInv(ix.chain) /\ BodiesMatchIndex(ix)
      /\ ix.utxo_snapshots = n.utxo_snapshots
      /\ ix.active_utxos = n.active_utxos
      /\ ix.mempool = n.mempool
      /\ DOMAIN ix.chain.entries = DOMAIN n.chain.entries \cup {b.hash}
      /\ b.hash \notin DOMAIN n.chain.entries
      /\ ix.chain.best_tip \in {n.chain.best_tip, b.hash}
      /\ ix.chain.best_tip # NoHash
      /\ \A h \in DOMAIN n.chain.entries :
           /\ ix.chain.entries[h] = n.chain.entries[h]
           /\ ix.blocks[h] = n.blocks[h]
  BY <1>1, NewBlockIndexed
<1>3. DOMAIN n.utxo_snapshots \subseteq DOMAIN n.chain.entries
  BY <1>1 DEF Structure, SnapshotsFollow
<1>4. ASSUME NEW h \in DOMAIN n.chain.entries
      PROVE  /\ ParentKnown(ix, h) <=> ParentKnown(n, h)
             /\ Applies(ix, h) <=> Applies(n, h)
             /\ ParentUtxos(ix, h) = ParentUtxos(n, h)
  BY <1>2 DEF ParentKnown, Applies, ParentUtxos
<1>5. SnapshotsFollow(ix)
  BY <1>1, <1>2, <1>3, <1>4 DEF Structure, SnapshotsFollow
<1>6. ActiveMatchesTip(ix)
  BY <1>1, <1>2, <1>3 DEF ActiveMatchesTip
<1>7. PoolInv(ix)
  BY <1>1, <1>2 DEF PoolInv, PoolIsValid, PoolIsDisjoint
<1>. QED
  BY <1>2, <1>5, <1>6, <1>7 DEF NodeInv, Structure

\* A block that applies gets its set, and no older entry has it as parent.
LEMMA SnapshottedInv ==
    ASSUME NEW n, NodeInv(n), NEW b \in Blocks, NewBlock(n, b),
           NEW ix, ix = Indexed(n, b),
           ParentKnown(ix, b.hash), Applies(ix, b.hash),
           NEW sn, sn = Snapshotted(ix, b.hash)
    PROVE  /\ Structure(sn)
           /\ PoolInv(sn)
           /\ sn.chain.best_tip # b.hash => ActiveMatchesTip(sn)
<1>. DEFINE x == b.hash
            set == apply_block(ParentUtxos(ix, x), ix.blocks[x],
                               ix.chain.entries[x].height)
<1>1. Structure(n) /\ ActiveMatchesTip(n) /\ PoolInv(n)
  BY DEF NodeInv
<1>2. /\ IsNode(ix) /\ ChainInv(ix.chain) /\ BodiesMatchIndex(ix)
      /\ ix.utxo_snapshots = n.utxo_snapshots
      /\ ix.active_utxos = n.active_utxos
      /\ ix.mempool = n.mempool
      /\ DOMAIN ix.chain.entries = DOMAIN n.chain.entries \cup {x}
      /\ x \notin DOMAIN n.chain.entries
      /\ ix.chain.best_tip \in {n.chain.best_tip, x}
      /\ ix.chain.best_tip # NoHash
      /\ \A h \in DOMAIN n.chain.entries :
           /\ ix.chain.entries[h] = n.chain.entries[h]
           /\ ix.blocks[h] = n.blocks[h]
      /\ \A h \in DOMAIN ix.chain.entries :
           ix.chain.entries[h].parent # NoHash =>
             ix.chain.entries[h].parent \in DOMAIN n.chain.entries
  BY <1>1, NewBlockIndexed
<1>3. DOMAIN n.utxo_snapshots \subseteq DOMAIN n.chain.entries
  BY <1>1 DEF Structure, SnapshotsFollow
<1>4. /\ IsNode(sn)
      /\ sn.chain = ix.chain
      /\ sn.blocks = ix.blocks
      /\ sn.active_utxos = ix.active_utxos
      /\ sn.mempool = ix.mempool
  BY <1>2 DEF Snapshotted, IsNode
<1>5. /\ DOMAIN sn.utxo_snapshots = DOMAIN n.utxo_snapshots \cup {x}
      /\ sn.utxo_snapshots[x] = set
      /\ \A h \in DOMAIN n.utxo_snapshots :
           sn.utxo_snapshots[h] = n.utxo_snapshots[h]
  <2>1. sn.utxo_snapshots = With(ix.utxo_snapshots, x, set)
    BY <1>2 DEF Snapshotted, IsNode
  <2>. HIDE DEF set
  <2>. QED
    BY <1>2, <1>3, <2>1 DEF With
<1>6. ASSUME NEW h \in DOMAIN ix.chain.entries
      PROVE  /\ ParentKnown(sn, h) <=> ParentKnown(ix, h)
             /\ ParentKnown(ix, h) => ParentUtxos(sn, h) = ParentUtxos(ix, h)
             /\ ParentKnown(ix, h) => (Applies(sn, h) <=> Applies(ix, h))
  <2>1. ix.chain.entries[h].parent # x \/ ix.chain.entries[h].parent = NoHash
    BY <1>2
  <2>2. ParentKnown(sn, h) <=> ParentKnown(ix, h)
    BY <1>2, <1>4, <1>5, <2>1 DEF ParentKnown
  <2>3. ParentKnown(ix, h) => ParentUtxos(sn, h) = ParentUtxos(ix, h)
    <3>1. ix.chain.entries[h].parent \in DOMAIN n.utxo_snapshots =>
            sn.utxo_snapshots[ix.chain.entries[h].parent]
              = ix.utxo_snapshots[ix.chain.entries[h].parent]
      BY <1>2, <1>5
    <3>. QED
      BY <1>2, <1>4, <3>1 DEF ParentKnown, ParentUtxos
  <2>. QED
    BY <1>4, <2>2, <2>3 DEF Applies
<1>7. ASSUME NEW h \in DOMAIN n.chain.entries
      PROVE  /\ ParentKnown(ix, h) <=> ParentKnown(n, h)
             /\ Applies(ix, h) <=> Applies(n, h)
             /\ ParentUtxos(ix, h) = ParentUtxos(n, h)
  BY <1>2 DEF ParentKnown, Applies, ParentUtxos
<1>8. SnapshotsFollow(sn)
  <2>1. DOMAIN sn.utxo_snapshots \subseteq DOMAIN sn.chain.entries
    BY <1>2, <1>3, <1>4, <1>5
  <2>2. /\ x \in DOMAIN sn.utxo_snapshots
        /\ ParentKnown(sn, x)
        /\ Applies(sn, x)
        /\ sn.utxo_snapshots[x]
             = apply_block(ParentUtxos(sn, x), sn.blocks[x],
                           sn.chain.entries[x].height)
    BY <1>2, <1>4, <1>5, <1>6
  <2>3. ASSUME NEW h \in DOMAIN n.chain.entries
        PROVE  IF h \in DOMAIN sn.utxo_snapshots
                 THEN /\ ParentKnown(sn, h)
                      /\ Applies(sn, h)
                      /\ sn.utxo_snapshots[h]
                           = apply_block(ParentUtxos(sn, h), sn.blocks[h],
                                         sn.chain.entries[h].height)
                 ELSE ParentKnown(sn, h) => ~Applies(sn, h)
    <3>1. h \in DOMAIN sn.utxo_snapshots <=> h \in DOMAIN n.utxo_snapshots
      BY <1>2, <1>5
    <3>2. IF h \in DOMAIN n.utxo_snapshots
            THEN /\ ParentKnown(n, h)
                 /\ Applies(n, h)
                 /\ n.utxo_snapshots[h]
                      = apply_block(ParentUtxos(n, h), n.blocks[h],
                                    n.chain.entries[h].height)
            ELSE ParentKnown(n, h) => ~Applies(n, h)
      BY <1>1 DEF Structure, SnapshotsFollow
    <3>3. h \in DOMAIN ix.chain.entries
      BY <1>2
    <3>4. /\ sn.chain.entries[h] = n.chain.entries[h]
          /\ sn.blocks[h] = n.blocks[h]
      BY <1>2, <1>4
    <3>5. /\ ParentKnown(sn, h) <=> ParentKnown(n, h)
          /\ ParentKnown(n, h) =>
               /\ ParentUtxos(sn, h) = ParentUtxos(n, h)
               /\ Applies(sn, h) <=> Applies(n, h)
      BY <1>6, <1>7, <3>3
    <3>6. h \in DOMAIN n.utxo_snapshots => sn.utxo_snapshots[h] = n.utxo_snapshots[h]
      BY <1>5
    <3>. QED
      BY <3>1, <3>2, <3>4, <3>5, <3>6
  <2>4. \A h \in DOMAIN sn.chain.entries : h = x \/ h \in DOMAIN n.chain.entries
    BY <1>2, <1>4
  <2>. HIDE DEF x, set
  <2>. QED
    BY <2>1, <2>2, <2>3, <2>4 DEF SnapshotsFollow
<1>9. BodiesMatchIndex(sn)
  <2>1. BodiesMatchIndex(ix)
    BY <1>2
  <2>. QED
    BY <1>4, <2>1 DEF BodiesMatchIndex
<1>10. PoolInv(sn)
  BY <1>1, <1>2, <1>4 DEF PoolInv, PoolIsValid, PoolIsDisjoint
<1>11. ASSUME sn.chain.best_tip # x PROVE ActiveMatchesTip(sn)
  <2>1. /\ sn.chain.best_tip = n.chain.best_tip
        /\ sn.chain.best_tip # NoHash
        /\ sn.active_utxos = n.active_utxos
    BY <1>2, <1>4, <1>11
  <2>2. sn.chain.best_tip \in DOMAIN sn.utxo_snapshots =>
          /\ sn.chain.best_tip \in DOMAIN n.utxo_snapshots
          /\ sn.utxo_snapshots[sn.chain.best_tip] = n.utxo_snapshots[sn.chain.best_tip]
    BY <1>5, <1>11
  <2>. QED
    BY <1>1, <2>1, <2>2 DEF ActiveMatchesTip
<1>. QED
  BY <1>2, <1>4, <1>8, <1>9, <1>10, <1>11 DEF Structure

\* accept_block keeps a node sound, whether the block is refused, already
\* known, indexed without a set, or applied.
LEMMA AcceptInv ==
    ASSUME NEW n, NodeInv(n), NEW b \in Blocks
    PROVE  NodeInv(accept_block(n, b).node)
<1>. DEFINE ix == Indexed(n, b)
            m == accept_block(n, b)
<1>1. Structure(n) /\ IsNode(n) /\ PoolInv(n) /\ ActiveMatchesTip(n)
  BY DEF NodeInv, Structure
<1>2. b.hash # NoHash
  BY BlocksAssumption
<1>3. CASE m.node = n
  BY <1>3
<1>4. CASE IsIndexed(n.chain, b.hash)
  <2>1. ix = n
    BY <1>1, <1>4, KnownBlock
  <2>2. NodeInv(activate(n, b.hash))
    BY <1>1, <1>2, ActivateInv
  <2>3. ~(/\ b.hash \notin DOMAIN n.utxo_snapshots
          /\ ParentKnown(n, b.hash)
          /\ Applies(n, b.hash))
    BY <1>1, <1>4 DEF Structure, SnapshotsFollow, IsIndexed
  <2>4. m.node = n \/ m.node = activate(n, b.hash)
    BY <1>1, <2>1, <2>3, AcceptShape
  <2>. QED
    BY <2>2, <2>4
<1>5. CASE NewBlock(n, b)
  <2>1. b.hash \notin DOMAIN n.utxo_snapshots
    BY <1>1, <1>5 DEF Structure, SnapshotsFollow, NewBlock, IsIndexed
  <2>2. CASE ~(ParentKnown(ix, b.hash) /\ Applies(ix, b.hash))
    <3>1. m.node = ix
      BY <1>1, <1>5, <2>1, <2>2, AcceptShape DEF NewBlock
    <3>2. NodeInv(ix)
      BY <1>5, <2>2, IndexedInv
    <3>. QED
      BY <3>1, <3>2
  <2>3. CASE ParentKnown(ix, b.hash) /\ Applies(ix, b.hash)
    <3>. DEFINE sn == Snapshotted(ix, b.hash)
    <3>1. m.node = activate(sn, b.hash)
      BY <1>1, <1>5, <2>1, <2>3, AcceptShape DEF NewBlock
    <3>2. /\ Structure(sn)
          /\ PoolInv(sn)
          /\ sn.chain.best_tip # b.hash => ActiveMatchesTip(sn)
      BY <1>5, <2>3, SnapshottedInv
    <3>. QED
      BY <1>2, <3>1, <3>2, ActivateInv
  <2>. QED
    BY <2>2, <2>3
<1>6. CASE insert_block_error(n.chain, b) # "None"
  BY <1>1, <1>6, AcceptShape
<1>. QED
  BY <1>4, <1>5, <1>6 DEF NewBlock

\* submit admits a valid transaction that conflicts with nothing it leaves
\* in the pool.
LEMMA SubmitInv ==
    ASSUME NEW n, NodeInv(n), NEW tx \in Transactions
    PROVE  NodeInv(submit_transaction(n, tx).node)
<1>. DEFINE pool == submit(n.active_utxos, n.mempool, tx)
            m == [chain |-> n.chain, active_utxos |-> n.active_utxos,
                  mempool |-> pool, blocks |-> n.blocks,
                  utxo_snapshots |-> n.utxo_snapshots]
<1>1. Structure(n) /\ ActiveMatchesTip(n) /\ PoolInv(n) /\ IsNode(n)
  BY DEF NodeInv, Structure
<1>2. submit_transaction(n, tx).node = m
  BY <1>1, SubmitShape
<1>3. /\ pool \subseteq n.mempool \cup {tx}
      /\ tx \in pool /\ tx \notin n.mempool =>
           /\ validate_transaction(n.active_utxos, tx)
           /\ \A s \in pool \ {tx} : ~transactions_conflict(tx, s)
  BY DEF submit, submit_error, conflicting_transactions
<1>. HIDE DEF pool
<1>4. pool \subseteq Transactions
  BY <1>1, <1>3 DEF PoolInv
<1>5. \A t \in pool : validate_transaction(n.active_utxos, t)
  BY <1>1, <1>3 DEF PoolInv, PoolIsValid
<1>6. \A s, t \in pool : transactions_conflict(s, t) => s = t
  <2>1. \A s, t : transactions_conflict(s, t) <=> transactions_conflict(t, s)
    BY DEF transactions_conflict
  <2>2. \A s, t \in n.mempool : transactions_conflict(s, t) => s = t
    BY <1>1 DEF PoolInv, PoolIsDisjoint
  <2>. QED
    BY <1>3, <2>1, <2>2
<1>7. PoolInv(m)
  BY <1>4, <1>5, <1>6 DEF PoolInv, PoolIsValid, PoolIsDisjoint
<1>8. Structure(m)
  BY <1>1 DEF Structure, IsNode, BodiesMatchIndex, SnapshotsFollow,
              ParentKnown, Applies, ParentUtxos
<1>9. ActiveMatchesTip(m)
  BY <1>1 DEF ActiveMatchesTip
<1>. QED
  BY <1>2, <1>7, <1>8, <1>9 DEF NodeInv

\* A node stays sound when its pool shrinks.
LEMMA ShrinkInv ==
    ASSUME NEW n, NodeInv(n), NEW pool \in SUBSET n.mempool
    PROVE  NodeInv([n EXCEPT !.mempool = pool])
<1>. DEFINE m == [n EXCEPT !.mempool = pool]
<1>1. Structure(n) /\ ActiveMatchesTip(n) /\ PoolInv(n) /\ IsNode(n)
  BY DEF NodeInv, Structure
<1>2. /\ IsNode(m)
      /\ m.chain = n.chain
      /\ m.blocks = n.blocks
      /\ m.utxo_snapshots = n.utxo_snapshots
      /\ m.active_utxos = n.active_utxos
      /\ m.mempool = pool
  BY <1>1 DEF IsNode
<1>. HIDE DEF m
<1>3. Structure(m)
  <2>1. BodiesMatchIndex(m)
    BY <1>1, <1>2 DEF Structure, BodiesMatchIndex
  <2>2. ASSUME NEW h
        PROVE  /\ ParentKnown(m, h) <=> ParentKnown(n, h)
               /\ Applies(m, h) <=> Applies(n, h)
               /\ ParentUtxos(m, h) = ParentUtxos(n, h)
    BY <1>2, Zenon DEF ParentKnown, Applies, ParentUtxos
  <2>3. SnapshotsFollow(m)
    BY <1>1, <1>2, <2>2 DEF Structure, SnapshotsFollow
  <2>. QED
    BY <1>1, <1>2, <2>1, <2>3 DEF Structure
<1>4. ActiveMatchesTip(m)
  BY <1>1, <1>2 DEF ActiveMatchesTip
<1>5. PoolInv(m)
  BY <1>1, <1>2 DEF PoolInv, PoolIsValid, PoolIsDisjoint
<1>. QED
  BY <1>3, <1>4, <1>5 DEF NodeInv, m

\* mine_block keeps a node sound.
LEMMA MineInv ==
    ASSUME NEW n, NodeInv(n), NEW b \in Blocks
    PROVE  NodeInv(mine_block(n, b).node)
<1>. DEFINE m == accept_block(n, b)
            pool == m.node.mempool \ ToSet(Tail(b.transactions))
<1>1. NodeInv(m.node)
  BY AcceptInv
<1>2. mine_block(n, b).node = IF m.err # "None"
                                THEN m.node
                                ELSE [m.node EXCEPT !.mempool = pool]
  BY DEF mine_block
<1>3. pool \in SUBSET m.node.mempool
  OBVIOUS
<1>. HIDE DEF m, pool
<1>4. NodeInv([m.node EXCEPT !.mempool = pool])
  BY <1>1, <1>3, ShrinkInv
<1>. QED
  BY <1>1, <1>2, <1>4

\* The empty node is sound.
LEMMA EmptyNodeInv == NodeInv(EmptyNode)
<1>1. ChainInv(EmptyChain) /\ IsNode(EmptyNode)
  BY EmptyChainInv DEF EmptyNode, IsNode
<1>2. BodiesMatchIndex(EmptyNode) /\ SnapshotsFollow(EmptyNode)
  BY DEF EmptyNode, EmptyChain, BodiesMatchIndex, SnapshotsFollow
<1>3. ActiveMatchesTip(EmptyNode)
  BY DEF EmptyNode, EmptyChain, ActiveMatchesTip
<1>4. PoolInv(EmptyNode)
  BY DEF EmptyNode, PoolInv, PoolIsValid, PoolIsDisjoint
<1>. QED
  BY <1>1, <1>2, <1>3, <1>4 DEF NodeInv, Structure, EmptyNode

\* Every reachable node is sound: the inductive invariant of the node.
THEOREM NodeInvariance == Spec => []NodeInv(node)
<1>1. Init => NodeInv(node)
  BY EmptyNodeInv DEF Init
<1>2. NodeInv(node) /\ [Next]_node => NodeInv(node)'
  <2>. SUFFICES ASSUME NodeInv(node), [Next]_node
                PROVE  NodeInv(node')
    OBVIOUS
  <2>1. CASE UNCHANGED node
    BY <2>1
  <2>2. CASE \E b \in Blocks : AcceptBlock(b)
    BY <2>2, AcceptInv DEF AcceptBlock
  <2>3. CASE \E tx \in Transactions : SubmitTransaction(tx)
    BY <2>3, SubmitInv DEF SubmitTransaction
  <2>4. CASE \E p \in Payments : SubmitPayment(p)
    BY <2>4, SubmitInv DEF SubmitPayment
  <2>5. CASE \E req \in MineRequests : MineBlock(req)
    BY <2>5, MineInv DEF MineBlock
  <2>. QED
    BY <2>1, <2>2, <2>3, <2>4, <2>5 DEF Next
<1>. QED
  BY <1>1, <1>2, PTL DEF Spec

\* Index, bodies and pool stay well formed, whatever is accepted, submitted
\* or mined.
THEOREM NodeTypeCorrectness == Spec => []NodeTypeOK
<1>1. NodeInv(node) => NodeTypeOK
  BY DEF NodeInv, Structure, ChainInv, PoolInv, NodeTypeOK
<1>. QED
  BY <1>1, NodeInvariance, PTL

\* A cached UTXO set is always the replay of its branch (ensure_snapshot).
THEOREM SnapshotsAreReplays == Spec => []SnapshotsFollowTheBranch
<1>1. NodeInv(node) => SnapshotsFollowTheBranch
  BY DEF NodeInv, Structure, SnapshotsFollowTheBranch
<1>. QED
  BY <1>1, NodeInvariance, PTL

\* The active set is the best tip's set whenever that block applies
\* (accept_block).
THEOREM ActiveSetFollowsTip == Spec => []ActiveSetIsTheTips
<1>1. NodeInv(node) => ActiveSetIsTheTips
  BY DEF NodeInv, ActiveSetIsTheTips
<1>. QED
  BY <1>1, NodeInvariance, PTL

\* Pending transactions stay valid across extensions and reorgs
\* (prune_invalid, submit).
THEOREM PendingValidity == Spec => []PendingStayValid
<1>1. NodeInv(node) => PendingStayValid
  BY DEF NodeInv, PoolInv, PendingStayValid
<1>. QED
  BY <1>1, NodeInvariance, PTL

\* Pending transactions never compete for an output (submit).
THEOREM PendingDisjointness == Spec => []PendingNeverConflict
<1>1. NodeInv(node) => PendingNeverConflict
  BY DEF NodeInv, PoolInv, PendingNeverConflict
<1>. QED
  BY <1>1, NodeInvariance, PTL

\* accept_block that leaves the index alone leaves the pool alone too: the
\* active set is already the tip's, so the prune finds nothing.
LEMMA KnownBlockKeepsPool ==
    ASSUME NEW n, NodeInv(n), NEW b \in Blocks,
           accept_block(n, b).node.chain = n.chain
    PROVE  /\ accept_block(n, b).node.mempool = n.mempool
           /\ accept_block(n, b).err = "None" => IsIndexed(n.chain, b.hash)
<1>. DEFINE ix == Indexed(n, b)
            m == accept_block(n, b)
<1>1. Structure(n) /\ IsNode(n) /\ PoolInv(n) /\ ActiveMatchesTip(n)
  BY DEF NodeInv, Structure
<1>2. CASE insert_block_error(n.chain, b) # "None"
  BY <1>1, <1>2, AcceptShape
<1>3. CASE NewBlock(n, b)
  <2>1. m.node.chain = ix.chain
    BY <1>1, AcceptIndexes DEF Indexed
  <2>2. b.hash \in DOMAIN ix.chain.entries /\ b.hash \notin DOMAIN n.chain.entries
    BY <1>1, <1>3, NewBlockIndexed
  <2>. QED
    BY <2>1, <2>2
<1>4. CASE IsIndexed(n.chain, b.hash)
  <2>1. ix = n
    BY <1>1, <1>4, KnownBlock
  <2>2. ~(/\ b.hash \notin DOMAIN n.utxo_snapshots
          /\ ParentKnown(n, b.hash)
          /\ Applies(n, b.hash))
    BY <1>1, <1>4 DEF Structure, SnapshotsFollow, IsIndexed
  <2>3. \/ m.node = n
        \/ b.hash \in DOMAIN n.utxo_snapshots /\ m.node = activate(n, b.hash)
    BY <1>1, <2>1, <2>2, AcceptShape
  <2>4. ASSUME b.hash \in DOMAIN n.utxo_snapshots, n.chain.best_tip = b.hash
        PROVE  prune_invalid(n.utxo_snapshots[b.hash], n.mempool) = n.mempool
    BY <1>1, <2>4 DEF ActiveMatchesTip, PoolInv, PoolIsValid, prune_invalid
  <2>5. b.hash \in DOMAIN n.utxo_snapshots =>
          activate(n, b.hash).mempool = n.mempool
    BY <1>1, <2>4, ActivateShape
  <2>. QED
    BY <1>4, <2>3, <2>5
<1>. QED
  BY <1>2, <1>3, <1>4 DEF NewBlock

\* A block that builds on the best tip is not indexed yet: it would outweigh
\* the tip.
LEMMA CandidateIsNew ==
    ASSUME NEW n, NodeInv(n), NEW b \in Blocks,
           b.prev_blockhash = PrevOfCandidate(n)
    PROVE  ~IsIndexed(n.chain, b.hash)
<1>. SUFFICES ASSUME b.hash \in DOMAIN n.chain.entries
              PROVE  FALSE
  BY DEF IsIndexed
<1>1. ChainInv(n.chain) /\ BodiesMatchIndex(n)
  BY DEF NodeInv, Structure
<1>2. n.blocks[b.hash] = b
  BY <1>1, BlocksAssumption DEF BodiesMatchIndex
<1>3. n.chain.best_tip # NoHash /\ n.chain.best_tip # DefaultHash
  BY <1>1, BlocksAssumption
     DEF ChainInv, IsChain, TipIsHeaviest, IsIndexed, Hashes
<1>4. n.chain.entries[b.hash].parent = n.chain.best_tip
  BY <1>1, <1>2, <1>3 DEF BodiesMatchIndex, PrevOfCandidate
<1>. QED
  BY <1>1, <1>4, TipHasNoChild

\* A submitted transaction displaces others only by a fee that is higher.
LEMMA SubmitDisplaces ==
    ASSUME NEW u, NEW pool, NEW tx, NEW t \in pool \ submit(u, pool, tx)
    PROVE  /\ tx \in submit(u, pool, tx) \ pool
           /\ ~(transaction_fee(u, tx) <= transaction_fee(u, t))
<1>. DEFINE conflicts == conflicting_transactions(pool, tx)
            evicted == capacity_eviction_candidate(u, pool, conflicts)
<1>1. /\ submit_error(u, pool, tx) = "None"
      /\ submit(u, pool, tx) = ((pool \ evicted) \ conflicts) \cup {tx}
  BY DEF submit
<1>2. /\ tx \notin pool
      /\ \A p \in conflicts : ~(transaction_fee(u, tx) <= transaction_fee(u, p))
      /\ \A p \in evicted : ~(transaction_fee(u, tx) <= transaction_fee(u, p))
  BY <1>1 DEF submit_error
<1>. HIDE DEF conflicts, evicted
<1>. QED
  BY <1>1, <1>2

\* While the index does not change, a pending transaction gives way only to
\* one that pays a higher fee (submit); in particular a block that arrives
\* again, or that does not link, never drops one.
THEOREM DisplacementNeedsFee == Spec => DisplacedOnlyByHigherFee
<1>. DEFINE Step == node'.chain = node.chain =>
              \A t \in node.mempool \ node'.mempool :
                \E s \in node'.mempool \ node.mempool :
                  ~(transaction_fee(node.active_utxos, s)
                      <= transaction_fee(node.active_utxos, t))
<1>1. NodeInv(node) /\ [Next]_node => [Step]_node
  <2>. SUFFICES ASSUME NodeInv(node), Next, node'.chain = node.chain,
                       NEW t \in node.mempool \ node'.mempool
                PROVE  \E s \in node'.mempool \ node.mempool :
                         ~(transaction_fee(node.active_utxos, s)
                             <= transaction_fee(node.active_utxos, t))
    OBVIOUS
  <2>1. IsNode(node)
    BY DEF NodeInv, Structure
  <2>2. CASE \E b \in Blocks : AcceptBlock(b)
    BY <2>2, KnownBlockKeepsPool DEF AcceptBlock
  <2>3. ASSUME NEW tx, node' = submit_transaction(node, tx).node
        PROVE  \E s \in node'.mempool \ node.mempool :
                 ~(transaction_fee(node.active_utxos, s)
                     <= transaction_fee(node.active_utxos, t))
    <3>1. node'.mempool = submit(node.active_utxos, node.mempool, tx)
      BY <2>1, <2>3 DEF submit_transaction, IsNode
    <3>. QED
      BY <3>1, SubmitDisplaces
  <2>4. CASE \E tx \in Transactions : SubmitTransaction(tx)
    BY <2>3, <2>4 DEF SubmitTransaction
  <2>5. CASE \E p \in Payments : SubmitPayment(p)
    BY <2>3, <2>5 DEF SubmitPayment
  <2>6. CASE \E req \in MineRequests : MineBlock(req)
    <3>1. PICK b \in Blocks : /\ b.prev_blockhash = PrevOfCandidate(node)
                              /\ node' = mine_block(node, b).node
      BY <2>6 DEF MineBlock, IsSolvedCandidate
    <3>2. accept_block(node, b).node.chain = node.chain
      BY <2>1, <3>1, MineShape
    <3>3. accept_block(node, b).err # "None"
      BY <3>1, <3>2, CandidateIsNew, KnownBlockKeepsPool
    <3>4. node' = accept_block(node, b).node
      BY <3>1, <3>3 DEF mine_block
    <3>. QED
      BY <3>2, <3>4, KnownBlockKeepsPool
  <2>. QED
    BY <2>2, <2>4, <2>5, <2>6 DEF Next
<1>. QED
  BY <1>1, NodeInvariance, PTL DEF Spec, DisplacedOnlyByHigherFee
==============================================================================
