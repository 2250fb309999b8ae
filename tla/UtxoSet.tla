------------------------------- MODULE UtxoSet -------------------------------
(***************************************************************************)
(* The UTXO ledger of src/src/state.rs: what makes a transaction valid     *)
(* against a set of unspent outputs, and what applying it does to the set. *)
(*                                                                         *)
(* A transaction is a record                                               *)
(*   txid    : a natural number; the double SHA-256 of the encoding is     *)
(*             taken to be collision free, and its order is the order of   *)
(*             the hex strings the code sorts by                           *)
(*   inputs  : a sequence of [prev : outpoint, signer : key]               *)
(*   outputs : a sequence of [value : amount, owner : key]                 *)
(* An outpoint is <<txid, position of the output>>.  An input carries the  *)
(* key its signature verifies under, so a malformed signature, or one by   *)
(* another key, is a signer that differs from the output's owner.          *)
(***************************************************************************)
EXTENDS Integers, Sequences, FiniteSets, FiniteSetsExt

CONSTANT
    MaxAmount    \* largest value of Amount (u64::MAX in the code)

ASSUME MaxAmountAssumption == MaxAmount \in Nat

is_coinbase(tx) == tx.inputs = <<>>

\* The outpoints a transaction names as inputs.
Spent(tx) == { tx.inputs[i].prev : i \in DOMAIN tx.inputs }

\* The outpoints a transaction creates.
Created(tx) == { <<tx.txid, i>> : i \in DOMAIN tx.outputs }

sum_outputs(tx) ==
    MapThenSumSet(LAMBDA i : tx.outputs[i].value, DOMAIN tx.outputs)

InputValue(utxos, tx) ==
    MapThenSumSet(LAMBDA i : utxos[tx.inputs[i].prev].value, DOMAIN tx.inputs)

\* validate_transaction_inner: TRUE where the code returns Ok.  The checked
\* additions of the code fail exactly when the whole sum exceeds MaxAmount.
validate_transaction(utxos, tx) ==
    /\ tx.outputs # <<>>
    /\ sum_outputs(tx) <= MaxAmount
    /\ \/ is_coinbase(tx)
       \/ /\ \A i, j \in DOMAIN tx.inputs :
                tx.inputs[i].prev = tx.inputs[j].prev => i = j
          /\ \A i \in DOMAIN tx.inputs :
                /\ tx.inputs[i].prev \in DOMAIN utxos
                /\ tx.inputs[i].signer = utxos[tx.inputs[i].prev].owner
          /\ InputValue(utxos, tx) <= MaxAmount
          /\ sum_outputs(tx) <= InputValue(utxos, tx)

\* The fee of a transaction that is valid against utxos.
transaction_fee(utxos, tx) ==
    IF is_coinbase(tx) THEN 0 ELSE InputValue(utxos, tx) - sum_outputs(tx)

\* apply_transaction on a transaction that is valid against utxos.  An
\* output whose outpoint is already present replaces the old entry.
apply_transaction(utxos, tx, height) ==
    [o \in (DOMAIN utxos \ Spent(tx)) \cup Created(tx) |->
        IF o \in Created(tx)
          THEN [value |-> tx.outputs[o[2]].value,
                owner |-> tx.outputs[o[2]].owner,
                created_at_height |-> height,
                is_coinbase |-> is_coinbase(tx)]
          ELSE utxos[o]]

EmptyUtxos == [o \in {} |-> 0]

\* The value held by a UTXO set.
TotalValue(utxos) == MapThenSumSet(LAMBDA o : utxos[o].value, DOMAIN utxos)
==============================================================================
