------------------------------- MODULE Encoding -------------------------------
(***************************************************************************)
(* What a transaction id, a signature and a header commit to,              *)
(* src/src/types.rs.  A number of fixed width is one symbol of the byte    *)
(* string; data of variable length is its length and its symbols.  The     *)
(* hash is a free constructor: equal hashes have equal preimages.          *)
(*                                                                         *)
(* A transaction is [version, inputs, outputs, lock_time]; an input is     *)
(* [txid, vout, unlocking_data], an output [value, locking_data].          *)
(***************************************************************************)
EXTENDS Integers, Sequences, SequencesExt

double_sha256(preimage) == <<"hash", preimage>>

encode_len(data) == << Len(data) >>

\* Deliberate fault: no length in front of the data.
encode_bytes_Fault(data) == data

encode_bytes(data) == encode_len(data) \o data

encode_with_unlocking_data(tx, include) ==
    LET EncodeInput(i) ==
            <<i.txid, i.vout>> \o encode_bytes(IF include THEN i.unlocking_data ELSE <<>>)
        EncodeOutput(o) == <<o.value>> \o encode_bytes(o.locking_data)
    IN  <<tx.version>>
          \o encode_len(tx.inputs)
          \o FlattenSeq([i \in DOMAIN tx.inputs |-> EncodeInput(tx.inputs[i])])
          \o encode_len(tx.outputs)
          \o FlattenSeq([i \in DOMAIN tx.outputs |-> EncodeOutput(tx.outputs[i])])
          \o <<tx.lock_time>>

txid(tx) == double_sha256(encode_with_unlocking_data(tx, TRUE))

signing_digest(tx) == double_sha256(encode_with_unlocking_data(tx, FALSE))

\* Deliberate fault: the odd node of a level is left out.
NextLevel_Fault(level) ==
    [i \in 1..(Len(level) \div 2) |->
        double_sha256(<<level[2 * i - 1], level[2 * i]>>)]

\* One level of the tree from the one below: the last node of an odd level
\* counts twice.
NextLevel(level) ==
    [i \in 1..((Len(level) + 1) \div 2) |->
        double_sha256(<<level[2 * i - 1],
                        level[IF 2 * i <= Len(level) THEN 2 * i ELSE 2 * i - 1]>>)]

RECURSIVE RootOfLevel(_)
RootOfLevel(level) ==
    IF Len(level) = 1 THEN level[1] ELSE RootOfLevel(NextLevel(level))

\* The root over the ids of a block's transactions.
merkle_root(txids) ==
    IF txids = <<>> THEN double_sha256(<<>>) ELSE RootOfLevel(txids)
==============================================================================
