------------------------------ MODULE Consensus ------------------------------
(***************************************************************************)
(* Block validation of src/src/consensus.rs.                               *)
(*                                                                         *)
(* A block is a record                                                     *)
(*   hash          : the hash of its header                                *)
(*   prev_blockhash: the hash of its parent, or DefaultHash                *)
(*   work          : PowTarget::work of its bits                           *)
(*   pow_met       : bits expand to a target and hash is at or below it    *)
(*   merkle_ok     : the header commits to the transaction list            *)
(*   transactions  : a sequence of transactions                            *)
(***************************************************************************)
EXTENDS UtxoSet, SequencesExt

CONSTANT
    BlockSubsidy   \* BLOCK_SUBSIDY, the coins a block may create

ASSUME SubsidyAssumption == BlockSubsidy \in Nat

\* validate_block: the rules a block must meet whatever its parent is.
validate_block(b) ==
    /\ b.pow_met
    /\ b.transactions # <<>>
    /\ is_coinbase(b.transactions[1])
    /\ \A i \in 2..Len(b.transactions) : ~is_coinbase(b.transactions[i])
    /\ b.merkle_ok

\* The loop of apply_block over the transactions after the coinbase: each is
\* validated against the set its predecessors left, and its fee is added up.
SpendBody(utxos, body, height) ==
    FoldLeft(LAMBDA acc, tx :
                IF /\ acc.ok
                   /\ validate_transaction(acc.utxos, tx)
                   /\ acc.fees + transaction_fee(acc.utxos, tx) <= MaxAmount
                  THEN [ok |-> TRUE,
                        utxos |-> apply_transaction(acc.utxos, tx, height),
                        fees |-> acc.fees + transaction_fee(acc.utxos, tx)]
                  ELSE [acc EXCEPT !.ok = FALSE],
             [ok |-> TRUE, utxos |-> utxos, fees |-> 0], body)

\* Deliberate fault: the coinbase is not held to subsidy plus fees.
BlockApplies_Fault(utxos, b, height) ==
    /\ validate_block(b)
    /\ LET spent == SpendBody(utxos, Tail(b.transactions), height)
       IN  /\ spent.ok
           /\ BlockSubsidy + spent.fees <= MaxAmount
           /\ validate_transaction(spent.utxos, b.transactions[1])

\* apply_block succeeds.
BlockApplies(utxos, b, height) ==
    /\ validate_block(b)
    /\ LET spent == SpendBody(utxos, Tail(b.transactions), height)
       IN  /\ spent.ok
           /\ BlockSubsidy + spent.fees <= MaxAmount
           /\ sum_outputs(b.transactions[1]) <= BlockSubsidy + spent.fees
           /\ validate_transaction(spent.utxos, b.transactions[1])

\* The UTXO set after a block that applies; the coinbase comes last.
apply_block(utxos, b, height) ==
    apply_transaction(SpendBody(utxos, Tail(b.transactions), height).utxos,
                      b.transactions[1], height)
==============================================================================
