------------------------------ MODULE NodeLemmas ------------------------------
(***************************************************************************)
(* What accept_block, submit_transaction and mine_block return, field by   *)
(* field.  The ledger operators are never expanded.                        *)
(***************************************************************************)
EXTENDS NodeState, ChainLemmas

\* A node with two fields replaced, spelled out.
LEMMA UpdateChainAndBlocks ==
    ASSUME NEW n, IsNode(n), NEW c, NEW k
    PROVE  [n EXCEPT !.chain = c, !.blocks = k]
             = [chain |-> c, active_utxos |-> n.active_utxos,
                mempool |-> n.mempool, blocks |-> k,
                utxo_snapshots |-> n.utxo_snapshots]
<1>1. [n EXCEPT !.chain = c, !.blocks = k] = [[n EXCEPT !.chain = c] EXCEPT !.blocks = k]
  BY DEF IsNode
<1>2. [n EXCEPT !.chain = c]
        = [chain |-> c, active_utxos |-> n.active_utxos, mempool |-> n.mempool,
           blocks |-> n.blocks, utxo_snapshots |-> n.utxo_snapshots]
  BY DEF IsNode
<1>. DEFINE m == [chain |-> c, active_utxos |-> n.active_utxos,
                  mempool |-> n.mempool, blocks |-> n.blocks,
                  utxo_snapshots |-> n.utxo_snapshots]
<1>3. [m EXCEPT !.blocks = k]
        = [chain |-> c, active_utxos |-> n.active_utxos, mempool |-> n.mempool,
           blocks |-> k, utxo_snapshots |-> n.utxo_snapshots]
  OBVIOUS
<1>. QED
  BY <1>1, <1>2, <1>3

\* As above, for the fields a change of the active set touches.
LEMMA UpdateActiveAndPool ==
    ASSUME NEW n, IsNode(n), NEW u, NEW p
    PROVE  [n EXCEPT !.active_utxos = u, !.mempool = p]
             = [chain |-> n.chain, active_utxos |-> u, mempool |-> p,
                blocks |-> n.blocks, utxo_snapshots |-> n.utxo_snapshots]
<1>1. [n EXCEPT !.active_utxos = u, !.mempool = p]
        = [[n EXCEPT !.active_utxos = u] EXCEPT !.mempool = p]
  BY DEF IsNode
<1>2. [n EXCEPT !.active_utxos = u]
        = [chain |-> n.chain, active_utxos |-> u, mempool |-> n.mempool,
           blocks |-> n.blocks, utxo_snapshots |-> n.utxo_snapshots]
  BY DEF IsNode
<1>. DEFINE m == [chain |-> n.chain, active_utxos |-> u, mempool |-> n.mempool,
                  blocks |-> n.blocks, utxo_snapshots |-> n.utxo_snapshots]
<1>3. [m EXCEPT !.mempool = p]
        = [chain |-> n.chain, active_utxos |-> u, mempool |-> p,
           blocks |-> n.blocks, utxo_snapshots |-> n.utxo_snapshots]
  OBVIOUS
<1>. QED
  BY <1>1, <1>2, <1>3

\* The node accept_block leaves when the block is indexed but not applied.
Indexed(n, b) ==
    [chain |-> insert_block(n.chain, b), active_utxos |-> n.active_utxos,
     mempool |-> n.mempool, blocks |-> OrInsert(n.blocks, b.hash, b),
     utxo_snapshots |-> n.utxo_snapshots]

Snapshotted(n, h) ==
    [n EXCEPT !.utxo_snapshots =
       With(n.utxo_snapshots, h, apply_block(ParentUtxos(n, h), n.blocks[h],
                                             n.chain.entries[h].height))]

\* accept_block has four outcomes.
LEMMA AcceptShape ==
    ASSUME NEW n, IsNode(n), NEW b
    PROVE  LET m == accept_block(n, b)
               ix == Indexed(n, b)
           IN  \/ /\ insert_block_error(n.chain, b) # "None"
                  /\ m.err # "None"
                  /\ m.node = n
               \/ /\ insert_block_error(n.chain, b) = "None"
                  /\ b.hash \in DOMAIN n.utxo_snapshots
                  /\ m.err = "None"
                  /\ m.node = activate(ix, b.hash)
               \/ /\ insert_block_error(n.chain, b) = "None"
                  /\ b.hash \notin DOMAIN n.utxo_snapshots
                  /\ ~(ParentKnown(ix, b.hash) /\ Applies(ix, b.hash))
                  /\ m.err # "None"
                  /\ m.node = ix
               \/ /\ insert_block_error(n.chain, b) = "None"
                  /\ b.hash \notin DOMAIN n.utxo_snapshots
                  /\ ParentKnown(ix, b.hash) /\ Applies(ix, b.hash)
                  /\ m.err = "None"
                  /\ m.node = activate(Snapshotted(ix, b.hash), b.hash)
<1>. DEFINE ix == Indexed(n, b)
            sn == ensure_snapshot(ix, b.hash)
<1>1. [n EXCEPT !.chain = insert_block(n.chain, b),
                !.blocks = OrInsert(n.blocks, b.hash, b)] = ix
  BY UpdateChainAndBlocks DEF Indexed
<1>2. accept_block(n, b)
        = IF insert_block_error(n.chain, b) # "None"
            THEN [err |-> insert_block_error(n.chain, b), node |-> n]
          ELSE IF sn.err # "None" THEN sn
          ELSE [err |-> "None", node |-> activate(sn.node, b.hash)]
  BY <1>1 DEF accept_block
<1>3. ix.utxo_snapshots = n.utxo_snapshots
  BY DEF Indexed
<1>4. CASE insert_block_error(n.chain, b) # "None"
  BY <1>2, <1>4
<1>5. CASE /\ insert_block_error(n.chain, b) = "None"
           /\ b.hash \in DOMAIN n.utxo_snapshots
  <2>1. sn = [err |-> "None", node |-> ix]
    BY <1>3, <1>5 DEF ensure_snapshot
  <2>. QED
    BY <1>2, <1>5, <2>1
<1>6. CASE /\ insert_block_error(n.chain, b) = "None"
           /\ b.hash \notin DOMAIN n.utxo_snapshots
           /\ ~(ParentKnown(ix, b.hash) /\ Applies(ix, b.hash))
  <2>1. sn.err # "None" /\ sn.node = ix
    BY <1>3, <1>6 DEF ensure_snapshot, ParentKnown, Applies
  <2>. QED
    BY <1>2, <1>6, <2>1
<1>7. CASE /\ insert_block_error(n.chain, b) = "None"
           /\ b.hash \notin DOMAIN n.utxo_snapshots
           /\ ParentKnown(ix, b.hash) /\ Applies(ix, b.hash)
  <2>1. sn = [err |-> "None", node |-> Snapshotted(ix, b.hash)]
    BY <1>3, <1>7 DEF ensure_snapshot, ParentKnown, Applies, Snapshotted
  <2>. QED
    BY <1>2, <1>7, <2>1
<1>. QED
  BY <1>4, <1>5, <1>6, <1>7

\* accept_block leaves a node, and its index is insert_block's.
LEMMA AcceptIndexes ==
    ASSUME NEW n, IsNode(n), NEW b
    PROVE  /\ IsNode(accept_block(n, b).node)
           /\ accept_block(n, b).node.chain = insert_block(n.chain, b)
<1>. DEFINE ix == Indexed(n, b)
<1>1. IsNode(ix) /\ ix.chain = insert_block(n.chain, b)
  BY DEF Indexed, IsNode
<1>2. /\ IsNode(Snapshotted(ix, b.hash))
      /\ Snapshotted(ix, b.hash).chain = insert_block(n.chain, b)
  BY <1>1 DEF Snapshotted, IsNode
<1>3. ASSUME NEW m, IsNode(m)
      PROVE  IsNode(activate(m, b.hash)) /\ activate(m, b.hash).chain = m.chain
  BY <1>3, UpdateActiveAndPool DEF activate, IsNode
<1>4. ASSUME insert_block_error(n.chain, b) # "None"
      PROVE  insert_block(n.chain, b) = n.chain
  BY <1>4 DEF insert_block
<1>. QED
  BY <1>1, <1>2, <1>3, <1>4, AcceptShape

\* submit_transaction only touches the pool.
LEMMA SubmitShape ==
    ASSUME NEW n, IsNode(n), NEW tx
    PROVE  /\ IsNode(submit_transaction(n, tx).node)
           /\ submit_transaction(n, tx).node
                = [chain |-> n.chain, active_utxos |-> n.active_utxos,
                   mempool |-> submit(n.active_utxos, n.mempool, tx),
                   blocks |-> n.blocks, utxo_snapshots |-> n.utxo_snapshots]
           /\ submit_transaction(n, tx).node.chain = n.chain
<1>1. submit_transaction(n, tx).node
        = [n EXCEPT !.mempool = submit(n.active_utxos, n.mempool, tx)]
  BY DEF submit_transaction
<1>2. submit_transaction(n, tx).node
        = [chain |-> n.chain, active_utxos |-> n.active_utxos,
           mempool |-> submit(n.active_utxos, n.mempool, tx),
           blocks |-> n.blocks, utxo_snapshots |-> n.utxo_snapshots]
  BY <1>1 DEF IsNode
<1>. QED
  BY <1>2 DEF IsNode

\* mine_block accepts the block and then at most shrinks the pool.
LEMMA MineShape ==
    ASSUME NEW n, IsNode(n), NEW b
    PROVE  /\ IsNode(mine_block(n, b).node)
           /\ mine_block(n, b).node.chain = accept_block(n, b).node.chain
           /\ \E pool \in SUBSET accept_block(n, b).node.mempool :
                /\ mine_block(n, b).node
                     = [accept_block(n, b).node EXCEPT !.mempool = pool]
                /\ accept_block(n, b).err # "None" =>
                     pool = accept_block(n, b).node.mempool
<1>. DEFINE m == accept_block(n, b).node
<1>1. IsNode(m)
  BY AcceptIndexes
<1>2. CASE accept_block(n, b).err # "None"
  <2>1. mine_block(n, b).node = m
    BY <1>2 DEF mine_block
  <2>2. m = [m EXCEPT !.mempool = m.mempool]
    BY <1>1 DEF IsNode
  <2>. QED
    BY <1>1, <1>2, <2>1, <2>2
<1>3. CASE accept_block(n, b).err = "None"
  <2>. DEFINE pool == m.mempool \ ToSet(Tail(b.transactions))
  <2>1. mine_block(n, b).node = [m EXCEPT !.mempool = pool]
    BY <1>3 DEF mine_block
  <2>2. /\ IsNode([m EXCEPT !.mempool = pool])
        /\ [m EXCEPT !.mempool = pool].chain = m.chain
    BY <1>1 DEF IsNode
  <2>. QED
    BY <1>3, <2>1, <2>2
<1>. QED
  BY <1>2, <1>3
==============================================================================
