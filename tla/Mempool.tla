------------------------------- MODULE Mempool -------------------------------
(***************************************************************************)
(* Admission, replacement, eviction, selection and pruning of pending      *)
(* transactions, src/src/mempool.rs.  A pool is a set of transactions, the *)
(* values of the code's map from transaction id to transaction.            *)
(***************************************************************************)
EXTENDS UtxoSet, SequencesExt

CONSTANT
    MaxMempool   \* MAX_MEMPOOL_TRANSACTIONS (1024 in the code)

ASSUME MaxMempoolAssumption == MaxMempool \in Nat \ {0}

transactions_conflict(left, right) == Spent(left) \cap Spent(right) # {}

\* As the code compares them: same number of inputs, and each of left's
\* outpoints among right's.
same_input_set(left, right) ==
    /\ Len(left.inputs) = Len(right.inputs)
    /\ Spent(left) \subseteq Spent(right)

\* Deliberate fault: only the first input is looked up.
conflicting_transactions_Fault(pool, tx) ==
    { p \in pool : \E i \in DOMAIN tx.inputs \cap {1} :
                     tx.inputs[i].prev \in Spent(p) }

conflicting_transactions(pool, tx) ==
    { p \in pool : transactions_conflict(tx, p) }

conflicts_are_replaceable(tx, conflicts) ==
    \A p \in conflicts : same_input_set(tx, p)

\* Deliberate fault: the limit is compared one too late.
capacity_eviction_candidate_Fault(utxos, pool, conflicts) ==
    LET survivors == pool \ conflicts
        fee(t) == transaction_fee(utxos, t)
    IN  IF Cardinality(pool) - Cardinality(conflicts) <= MaxMempool
          THEN {}
          ELSE { CHOOSE t \in survivors :
                   \A o \in survivors :
                     \/ fee(t) < fee(o)
                     \/ fee(t) = fee(o) /\ t.txid <= o.txid }

\* The pending transaction the pool gives up for a newcomer when it is full:
\* the lowest (fee, txid) of those the newcomer does not replace anyway.
\* The empty set stands for Option::None.
capacity_eviction_candidate(utxos, pool, conflicts) ==
    LET survivors == pool \ conflicts
        fee(t) == transaction_fee(utxos, t)
    IN  IF Cardinality(pool) - Cardinality(conflicts) < MaxMempool
          THEN {}
          ELSE { CHOOSE t \in survivors :
                   \A o \in survivors :
                     \/ fee(t) < fee(o)
                     \/ fee(t) = fee(o) /\ t.txid <= o.txid }

\* Deliberate fault: a full pool admits a transaction of equal fee.
submit_error_Fault_Evict(utxos, pool, tx) ==
    LET fee == transaction_fee(utxos, tx)
        conflicts == conflicting_transactions(pool, tx)
    IN  IF \E p \in pool : p.txid = tx.txid THEN "DuplicateTransaction"
        ELSE IF ~validate_transaction(utxos, tx) THEN "InvalidTransaction"
        ELSE IF ~conflicts_are_replaceable(tx, conflicts) THEN "ConflictingInput"
        ELSE IF \E p \in conflicts : fee <= transaction_fee(utxos, p)
          THEN "ReplacementFeeTooLow"
        ELSE IF \E p \in capacity_eviction_candidate(utxos, pool, conflicts) :
                  fee < transaction_fee(utxos, p)
          THEN "CapacityFeeTooLow"
        ELSE "None"

\* The error submit returns, "None" for Ok.  The fee of a transaction is only
\* looked at once it is known to be valid.
submit_error(utxos, pool, tx) ==
    LET fee == transaction_fee(utxos, tx)
        conflicts == conflicting_transactions(pool, tx)
    IN  IF \E p \in pool : p.txid = tx.txid THEN "DuplicateTransaction"
        ELSE IF ~validate_transaction(utxos, tx) THEN "InvalidTransaction"
        ELSE IF ~conflicts_are_replaceable(tx, conflicts) THEN "ConflictingInput"
        ELSE IF \E p \in conflicts : fee <= transaction_fee(utxos, p)
          THEN "ReplacementFeeTooLow"
        ELSE IF \E p \in capacity_eviction_candidate(utxos, pool, conflicts) :
                  fee <= transaction_fee(utxos, p)
          THEN "CapacityFeeTooLow"
        ELSE "None"

\* The pool after submit; an error leaves it alone.
submit(utxos, pool, tx) ==
    LET conflicts == conflicting_transactions(pool, tx)
        evicted == capacity_eviction_candidate(utxos, pool, conflicts)
    IN  IF submit_error(utxos, pool, tx) # "None"
          THEN pool
          ELSE ((pool \ evicted) \ conflicts) \cup {tx}

\* What is still valid against a changed active set stays pending.
prune_invalid(utxos, pool) == { t \in pool : validate_transaction(utxos, t) }

\* The pending transactions, lowest id first, that stay valid when applied
\* one after the other, at most max_count of them.
collect_valid(utxos, pool, max_count) ==
    FoldLeft(LAMBDA acc, tx :
                IF /\ Len(acc.selected) < max_count
                   /\ validate_transaction(acc.utxos, tx)
                  THEN [selected |-> Append(acc.selected, tx),
                        utxos |-> apply_transaction(acc.utxos, tx, 0)]
                  ELSE acc,
             [selected |-> <<>>, utxos |-> utxos],
             SetToSortSeq(pool, LAMBDA a, b : a.txid < b.txid)).selected
==============================================================================
