------------------------------ MODULE NodeState ------------------------------
(***************************************************************************)
(* The in-memory state of one node, src/src/node_state.rs: the chain       *)
(* index, the active UTXO set, one cached UTXO set per applied block, the  *)
(* block bodies and the mempool.  Every operation is a function from a     *)
(* node to a node, so that persistence, the server and a network of nodes  *)
(* can use the same definitions.                                           *)
(*                                                                         *)
(* Operations that return Result are written as a record [err, node]: err  *)
(* is "None" for Ok, and node is what the call leaves behind either way.   *)
(***************************************************************************)
EXTENDS ChainIndex, Mempool

EmptyNode ==
    [chain          |-> EmptyChain,
     active_utxos   |-> EmptyUtxos,
     mempool        |-> {},
     blocks         |-> [h \in {} |-> 0],
     utxo_snapshots |-> [h \in {} |-> 0]]

\* f with x mapped to v.
With(f, x, v) == [y \in DOMAIN f \cup {x} |-> IF y = x THEN v ELSE f[y]]

\* HashMap::entry(x).or_insert(v).
OrInsert(f, x, v) == IF x \in DOMAIN f THEN f ELSE With(f, x, v)

\* Deliberate fault: the block is applied to the active set.
ParentUtxos_Fault(n, h) == n.active_utxos

\* The UTXO set block h builds on; only used where its snapshot exists.
ParentUtxos(n, h) ==
    LET parent == n.chain.entries[h].parent
    IN  IF parent = NoHash THEN EmptyUtxos ELSE n.utxo_snapshots[parent]

\* ensure_snapshot: apply the stored body of block h to its parent's set.
ensure_snapshot(n, h) ==
    LET entry == n.chain.entries[h]
    IN  IF h \in DOMAIN n.utxo_snapshots
          THEN [err |-> "None", node |-> n]
        ELSE IF entry.parent # NoHash /\ entry.parent \notin DOMAIN n.utxo_snapshots
          THEN [err |-> "MissingParentState", node |-> n]
        ELSE IF ~BlockApplies(ParentUtxos(n, h), n.blocks[h], entry.height)
          THEN [err |-> "Consensus", node |-> n]
        ELSE [err |-> "None",
              node |-> [n EXCEPT !.utxo_snapshots =
                          With(@, h, apply_block(ParentUtxos(n, h), n.blocks[h],
                                                 entry.height))]]

\* Deliberate fault: the active set follows every accepted block.
activate_Fault_Always(n, h) ==
    [n EXCEPT !.active_utxos = n.utxo_snapshots[h],
              !.mempool = prune_invalid(n.utxo_snapshots[h], @)]

\* Deliberate fault: every accepted block also becomes the best tip.
activate_Fault_Tip(n, h) ==
    [n EXCEPT !.chain.best_tip = h,
              !.active_utxos = n.utxo_snapshots[h],
              !.mempool = prune_invalid(n.utxo_snapshots[h], @)]

\* Deliberate fault: the pool is not revalidated after the switch.
activate_Fault_NoPrune(n, h) ==
    IF n.chain.best_tip = h
      THEN [n EXCEPT !.active_utxos = n.utxo_snapshots[h]]
      ELSE n

\* The end of accept_block: a block that is the best tip makes its set the
\* active one and the pool is pruned against it.
activate(n, h) ==
    IF n.chain.best_tip = h
      THEN [n EXCEPT !.active_utxos = n.utxo_snapshots[h],
                     !.mempool = prune_invalid(n.utxo_snapshots[h], @)]
      ELSE n

\* Deliberate fault: the body is stored before the index has taken the block.
accept_block_Fault(n, b) ==
    LET insert_err == insert_block_error(n.chain, b)
        stored == [n EXCEPT !.blocks = OrInsert(@, b.hash, b)]
        snapshot == ensure_snapshot([stored EXCEPT !.chain = insert_block(@, b)],
                                    b.hash)
    IN  IF insert_err # "None"
          THEN [err |-> insert_err, node |-> stored]
        ELSE IF snapshot.err # "None"
          THEN snapshot
        ELSE [err |-> "None", node |-> activate(snapshot.node, b.hash)]

\* accept_block.  The index and the body are kept even when the block then
\* fails to apply.
accept_block(n, b) ==
    LET insert_err == insert_block_error(n.chain, b)
        indexed == [n EXCEPT !.chain = insert_block(@, b),
                             !.blocks = OrInsert(@, b.hash, b)]
        snapshot == ensure_snapshot(indexed, b.hash)
    IN  IF insert_err # "None"
          THEN [err |-> insert_err, node |-> n]
        ELSE IF snapshot.err # "None"
          THEN snapshot
        ELSE [err |-> "None", node |-> activate(snapshot.node, b.hash)]

\* submit_transaction
submit_transaction(n, tx) ==
    [err |-> submit_error(n.active_utxos, n.mempool, tx),
     node |-> [n EXCEPT !.mempool = submit(n.active_utxos, n.mempool, tx)]]

\* accept_block for each block in turn, up to the first error.
Replay(blocks) ==
    FoldLeft(LAMBDA acc, b : IF acc.err = "None" THEN accept_block(acc.node, b)
                                                 ELSE acc,
             [err |-> "None", node |-> EmptyNode], blocks)

\* The stored pool is attached, and what does not validate is dropped.
AttachPool(replayed, pool) ==
    LET n == replayed.node
    IN  [err |-> replayed.err,
         node |-> [chain |-> n.chain, active_utxos |-> n.active_utxos,
                   mempool |-> prune_invalid(n.active_utxos, pool),
                   blocks |-> n.blocks, utxo_snapshots |-> n.utxo_snapshots]]

from_persisted(blocks, pool) == AttachPool(Replay(blocks), pool)

------------------------------------------------------------------------------
(***************************************************************************)
(* Mining on the best tip, src/src/node_state.rs and src/src/mining.rs.  A *)
(* request is [subsidy, miner, uniqueness, work, max_transactions].        *)
(***************************************************************************)

PrevOfCandidate(n) ==
    IF n.chain.best_tip = NoHash THEN DefaultHash ELSE n.chain.best_tip

SelectedTransactions(n, req) ==
    collect_valid(n.active_utxos, n.mempool, req.max_transactions)

\* The fees of the selected transactions, each taken against the active set.
TotalFees(n, txs) ==
    MapThenSumSet(LAMBDA i : transaction_fee(n.active_utxos, txs[i]), DOMAIN txs)

\* The fees can be computed: mine_block returns no ConsensusFee error.
FeesKnown(n, txs) ==
    /\ \A i \in DOMAIN txs : validate_transaction(n.active_utxos, txs[i])
    /\ TotalFees(n, txs) <= MaxAmount

\* coinbase_transaction, compared on everything but its id.  The unchecked
\* addition subsidy + total_fees wraps at the width of Amount.
IsCoinbaseFor(tx, n, req) ==
    /\ tx.inputs = <<>>
    /\ tx.outputs = << [value |-> (req.subsidy
                                     + TotalFees(n, SelectedTransactions(n, req)))
                                     % (MaxAmount + 1),
                        owner |-> req.miner] >>
    /\ tx.lock_time = req.uniqueness

\* Block b is build_candidate's block for this request with a nonce that
\* solve_candidate accepts.
IsSolvedCandidate(b, n, req) ==
    /\ b.prev_blockhash = PrevOfCandidate(n)
    /\ b.work = req.work
    /\ Len(b.transactions) >= 1
    /\ Tail(b.transactions) = SelectedTransactions(n, req)
    /\ IsCoinbaseFor(b.transactions[1], n, req)
    /\ validate_block(b)

\* mine_block once the nonce search has found b.
mine_block(n, b) ==
    LET accepted == accept_block(n, b)
    IN  IF accepted.err # "None"
          THEN accepted
          ELSE [err |-> "None",
                node |-> [accepted.node EXCEPT !.mempool =
                            @ \ ToSet(Tail(b.transactions))]]

------------------------------------------------------------------------------
(***************************************************************************)
(* build_payment_transaction: wallet coin selection.  A payment is         *)
(* [senders, change, recipient, amount, uniqueness].                       *)
(***************************************************************************)

\* The loop over the sorted outpoints: it stops after the output that
\* covers the amount, and the running total saturates.
SelectFunds(utxos, p) ==
    FoldLeft(LAMBDA acc, o :
                IF acc.covered
                  THEN acc
                  ELSE LET sum == acc.total + utxos[o].value
                           total == IF sum > MaxAmount THEN MaxAmount ELSE sum
                       IN  [selected |-> Append(acc.selected, o),
                            total |-> total,
                            covered |-> total >= p.amount],
             [selected |-> <<>>, total |-> 0, covered |-> FALSE],
             SetToSortSeq({ o \in DOMAIN utxos : utxos[o].owner \in p.senders },
                          LAMBDA a, b : \/ a[1] < b[1]
                                        \/ a[1] = b[1] /\ a[2] < b[2]))

\* Transaction tx is what build_payment_transaction returns for p.
IsPaymentFor(tx, utxos, p) ==
    LET funds == SelectFunds(utxos, p)
        paid == [value |-> p.amount, owner |-> p.recipient]
        change == [value |-> funds.total - p.amount, owner |-> p.change]
    IN  /\ funds.total >= p.amount
        /\ tx.inputs = [i \in DOMAIN funds.selected |->
                          [prev |-> funds.selected[i],
                           signer |-> utxos[funds.selected[i]].owner]]
        /\ tx.outputs = IF change.value > 0 THEN <<paid, change>> ELSE <<paid>>
        /\ tx.lock_time = p.uniqueness

------------------------------------------------------------------------------
(***************************************************************************)
(* What a sound node looks like.                                           *)
(***************************************************************************)
IsNode(n) ==
    n = [chain |-> n.chain, active_utxos |-> n.active_utxos,
         mempool |-> n.mempool, blocks |-> n.blocks,
         utxo_snapshots |-> n.utxo_snapshots]

\* A body is kept for exactly the indexed blocks, and an entry's parent is
\* the one its body names; genesis names none.
BodiesMatchIndex(n) ==
    /\ DOMAIN n.blocks = DOMAIN n.chain.entries
    /\ \A h \in DOMAIN n.blocks :
         /\ n.blocks[h] \in Blocks
         /\ n.blocks[h].hash = h
         /\ n.blocks[h].prev_blockhash
              = IF n.chain.entries[h].parent = NoHash
                  THEN DefaultHash
                  ELSE n.chain.entries[h].parent

\* The parent's set that ensure_snapshot looks for is there.
ParentKnown(n, h) ==
    \/ n.chain.entries[h].parent = NoHash
    \/ n.chain.entries[h].parent \in DOMAIN n.utxo_snapshots

\* Block h applies to its parent's set.
Applies(n, h) ==
    BlockApplies(ParentUtxos(n, h), n.blocks[h], n.chain.entries[h].height)

\* Every cached set is what its block makes of its parent's, and a block
\* without one has a parent without one or does not apply.
SnapshotsFollow(n) ==
    /\ DOMAIN n.utxo_snapshots \subseteq DOMAIN n.chain.entries
    /\ \A h \in DOMAIN n.chain.entries :
         IF h \in DOMAIN n.utxo_snapshots
           THEN /\ ParentKnown(n, h)
                /\ Applies(n, h)
                /\ n.utxo_snapshots[h]
                     = apply_block(ParentUtxos(n, h), n.blocks[h],
                                   n.chain.entries[h].height)
           ELSE ParentKnown(n, h) => ~Applies(n, h)

ActiveMatchesTip(n) ==
    /\ n.chain.best_tip \in DOMAIN n.utxo_snapshots =>
         n.active_utxos = n.utxo_snapshots[n.chain.best_tip]
    /\ n.chain.best_tip = NoHash => n.active_utxos = EmptyUtxos

PoolIsValid(n) ==
    \A t \in n.mempool : validate_transaction(n.active_utxos, t)

PoolIsDisjoint(n) ==
    \A s, t \in n.mempool : transactions_conflict(s, t) => s = t
==============================================================================
