------------------------------ MODULE MCFormats ------------------------------
(***************************************************************************)
(* The conversions of PowTarget, Encoding and WalletFile on every input up *)
(* to a small size.  The state is one input, chosen in Init.               *)
(***************************************************************************)
EXTENDS PowTarget, Encoding, WalletFile

VARIABLE input   \* [kind, value]

MCDefaultName == <<1>>

\* Sequences over S of at most n elements.
UpTo(n, S) == UNION { [1..m -> S] : m \in 0..n }

AllBits == 0..((Width + 3) * Power[3] - 1)

Data == UpTo(1, {0, 1})

Inputs == [txid : {1}, vout : {0}, unlocking_data : Data]
Outputs == [value : {0, 1}, locking_data : {<<>>, <<1>>}]
Transactions ==
    [version : {1}, inputs : UpTo(2, Inputs), outputs : UpTo(2, Outputs), lock_time : {0, 1}]

TxidLists == UpTo(5, { <<"tx", i>> : i \in 1..4 })

Secrets == [1..KeyLen -> 0..2]
Keys == [name : {<<>>, <<0>>, <<1>>}, secret : {<<0, 0, 1>>, <<2, 1, 0>>}]
Wallets ==
    { w \in [default_key : {<<>>, <<0>>, <<1>>}, keys : UpTo(2, Keys)] : validate(w) }

Choose(kind, S) == \E v \in S : input = [kind |-> kind, value |-> v]

Init ==
    \/ Choose("bits", AllBits)
    \/ Choose("transaction", Transactions)
    \/ Choose("txids", TxidLists)
    \/ Choose("wallet", Wallets)
    \/ Choose("secret", Secrets)

Next == UNCHANGED input

Spec == Init /\ [][Next]_input

Targets == [b \in AllBits |-> from_compact(b)]
Valid == { b \in AllBits : Targets[b] # NoTarget }
Numbers == [b \in Valid |-> Value(Targets[b], 1, Width)]
Works == [b \in Valid |-> work(Targets[b])]
Rooted == { [list |-> l, root |-> merkle_root(l)] : l \in TxidLists }
Hashed == { [tx |-> t, id |-> txid(t), digest |-> signing_digest(t)] : t \in Transactions }

------------------------------------------------------------------------------
\* A target is its mantissa times a power of 256, rounded down, or there is
\* none: a negative or zero mantissa, or one shifted out of 256 bits; and
\* hashes are compared with it as numbers (PowTarget::from_compact, is_met_by).
TargetIsMantissaTimesPower ==
    input.kind = "bits" =>
        LET exponent == input.value \div Power[3]
            mantissa == input.value % Power[3]
        IN  IF mantissa = 0 \/ 2 * mantissa >= Power[3] \/ exponent > Width
              THEN input.value \notin Valid
              ELSE /\ Numbers[input.value] =
                        IF exponent >= 3 THEN mantissa * Power[exponent - 3]
                                         ELSE mantissa \div Power[3 - exponent]
                   /\ \A b \in Valid :
                        is_met_by(Targets[input.value], Targets[b])
                          <=> Numbers[b] <= Numbers[input.value]

\* Every target counts for some work, within the width of u128, and a harder
\* target never counts for less: fork choice can compare sums of it
\* (PowTarget::work).
WorkFollowsDifficulty ==
    (input.kind = "bits" /\ input.value \in Valid) =>
        /\ Works[input.value] \in 1..MaxHalf
        /\ \A b \in Valid : Numbers[b] <= Numbers[input.value]
                              => Works[b] >= Works[input.value]

\* A transaction id commits to every field, and what is signed to every field
\* but the signatures: no two transactions run together in the byte string
\* (Transaction::encode_with_unlocking_data).
EncodingTellsTransactionsApart ==
    input.kind = "transaction" =>
        LET tx == input.value
            id == txid(tx)
            digest == signing_digest(tx)
            Unsigned(t) == [t EXCEPT !.inputs =
                              [i \in DOMAIN @ |-> [@[i] EXCEPT !.unlocking_data = <<>>]]]
        IN  \A other \in Hashed :
              /\ other.id = id => other.tx = tx
              /\ other.digest = digest <=> Unsigned(other.tx) = Unsigned(tx)

HasRepeats(l) == ~IsInjective(l)

\* A header commits to the transactions of a block: two lists with the same
\* root are the same, unless one of them repeats a transaction
\* (Block::merkle_root).
RootTellsListsApart ==
    input.kind = "txids" =>
        LET root == merkle_root(input.value)
        IN  \A other \in Rooted :
              other.root = root => \/ other.list = input.value
                                   \/ HasRepeats(other.list)
                                   \/ HasRepeats(input.value)

\* A wallet that has been saved loads as it was, and a file of the old format
\* loads as its one key, or is refused if it happens to read as a wallet
\* without keys; it never loads as another key (save_wallet, load_wallet).
WalletsLoadAsSaved ==
    /\ input.kind = "wallet" => load_wallet(EncodeWallet(input.value)) = {input.value}
    /\ input.kind = "secret" =>
         \/ load_wallet(input.value) = {from_signing_key(input.value)}
         \/ load_wallet(input.value) = {} /\ \E w \in DecodeV2(input.value) : w.keys = <<>>
==============================================================================
