------------------------------ MODULE WalletFile ------------------------------
(***************************************************************************)
(* The wallet and its file, src/src/wallet.rs.  A wallet is                *)
(* [default_key, keys], where keys is a sequence of [name, secret].  A     *)
(* file is a string of bytes: lengths are one byte, a name is its length   *)
(* and its bytes, a secret is KeyLen bytes.  A decoder takes what it needs *)
(* from the front of the file and ignores the rest.                        *)
(***************************************************************************)
EXTENDS Integers, Sequences, SequencesExt

CONSTANTS
    KeyLen,            \* bytes of a secret key: 32
    TextBytes,         \* bytes a name may hold (UTF-8)
    DEFAULT_KEY_NAME   \* "default", as bytes

ASSUME WalletAssumption == KeyLen \in Nat \ {0}

NoWallet == [default_key |-> <<>>, keys |-> <<>>]

NamesOf(keys) == { keys[i].name : i \in DOMAIN keys }

from_signing_key(secret) ==
    [default_key |-> DEFAULT_KEY_NAME,
     keys |-> << [name |-> DEFAULT_KEY_NAME, secret |-> secret] >>]

validate(w) ==
    /\ w.keys # <<>>
    /\ \A i, j \in DOMAIN w.keys : w.keys[i].name = w.keys[j].name => i = j
    /\ w.default_key \in NamesOf(w.keys)

\* Wallet::generate_key, for a name that is not taken.
generate_key(w, name, secret) ==
    [w EXCEPT !.keys = Append(@, [name |-> name, secret |-> secret])]

------------------------------------------------------------------------------
EncodeString(s) == <<Len(s)>> \o s

\* save_wallet: the bytes written for a valid wallet.
EncodeWallet(w) ==
    EncodeString(w.default_key)
      \o <<Len(w.keys)>>
      \o FlattenSeq([i \in DOMAIN w.keys |->
                        EncodeString(w.keys[i].name) \o w.keys[i].secret])

\* A read of a file: what has been read, and what follows it.
Failed == [ok |-> FALSE, value |-> <<>>, rest |-> <<>>]

Take(n, bytes) ==
    IF Len(bytes) < n
      THEN Failed
      ELSE [ok |-> TRUE, value |-> SubSeq(bytes, 1, n),
            rest |-> SubSeq(bytes, n + 1, Len(bytes))]

TakeString(bytes) ==
    LET text == Take(Head(bytes), Tail(bytes))
    IN  IF bytes # <<>> /\ ToSet(text.value) \subseteq TextBytes THEN text ELSE Failed

RECURSIVE TakeKeys(_, _)
TakeKeys(n, bytes) ==
    IF n = 0
      THEN [ok |-> TRUE, value |-> <<>>, rest |-> bytes]
      ELSE LET name == TakeString(bytes)
               secret == Take(KeyLen, name.rest)
               more == TakeKeys(n - 1, secret.rest)
           IN  IF name.ok /\ secret.ok /\ more.ok
                 THEN [more EXCEPT !.value =
                         << [name |-> name.value, secret |-> secret.value] >> \o @]
                 ELSE Failed

\* Decoding as WalletFileV2: a set of at most one wallet.
DecodeV2(bytes) ==
    LET default == TakeString(bytes)
        keys == TakeKeys(Head(default.rest), Tail(default.rest))
    IN  IF default.ok /\ default.rest # <<>> /\ keys.ok
          THEN { [default_key |-> default.value, keys |-> keys.value] }
          ELSE {}

\* Decoding as WalletFileV1: the secret alone.
DecodeV1(bytes) ==
    IF Len(bytes) < KeyLen THEN {} ELSE { from_signing_key(SubSeq(bytes, 1, KeyLen)) }

\* Deliberate fault: the old format is tried first.
load_wallet_Fault(bytes) ==
    IF DecodeV1(bytes) # {} THEN DecodeV1(bytes)
                            ELSE { w \in DecodeV2(bytes) : validate(w) }

\* load_wallet: the wallet of a file, or nothing.  A file that decodes as the
\* current format is never tried as the old one, also if it is not valid.
load_wallet(bytes) ==
    IF DecodeV2(bytes) # {} THEN { w \in DecodeV2(bytes) : validate(w) }
                            ELSE DecodeV1(bytes)
==============================================================================
