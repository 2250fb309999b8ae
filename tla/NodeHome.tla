------------------------------- MODULE NodeHome -------------------------------
(***************************************************************************)
(* The directory of a node and the commands that share it,                 *)
(* src/src/home.rs, wallet.rs, aliases.rs, peers.rs and main.rs.  Each     *)
(* command is a process of its own that reads and writes whole files;      *)
(* nothing keeps two of them apart.  A file is written by fs::write, which *)
(* truncates it and then writes, so a process that is killed, or a disk    *)
(* that is full, leaves part of it.                                        *)
(*                                                                         *)
(* A file is {} while it does not exist, else {content}.  The wallet holds *)
(* the bytes of WalletFile.  Of the alias book, the peer list and the      *)
(* configuration the content is [ok, value]: part of a JSON text does not  *)
(* parse.  The SQLite file holds the heights of the saved blocks; it is    *)
(* only changed by SQL transactions.                                       *)
(***************************************************************************)
EXTENDS WalletFile, FiniteSets

CONSTANTS
    Procs,        \* processes that may run at the same time
    Commands,     \* command lines that may be typed
    MaxCommands,  \* bound: commands typed in one history
    MaxKeys,      \* bound: keys generated
    MaxBlocks,    \* bound: blocks saved
    CutPoints,    \* bound: bytes of a wallet a failing write may leave
    MaxMishaps    \* bound: mishaps in one history

ASSUME HomeAssumption == MaxKeys \in 1..9 /\ MaxCommands \in Nat

VARIABLES
    files,      \* file name -> {} or {content}
    procs,      \* process -> [cmd, todo, wallet, book, blocks]
    typed,      \* number of commands typed
    keys,       \* number of keys generated
    told,       \* history: what commands have reported as done
    mishaps     \* history: pairs of "overlap", "cut" or "replaced" and a file

vars == <<files, procs, typed, keys, told, mishaps>>

FileNames == {"sqlite", "wallet", "aliases", "peers", "config"}

Json(v) == [ok |-> TRUE, value |-> v]
Torn == [ok |-> FALSE, value |-> <<>>]

\* The secret of the nth key, a string of bytes no file has at its start.
Secret(n) == [i \in 1..KeyLen |-> 10 * n + i]

EmptyBook == {}

DefaultConfig == [mining |-> FALSE]

------------------------------------------------------------------------------
(***************************************************************************)
(* Commands as the file operations they perform, in order.                 *)
(***************************************************************************)
Step(op, file) == [op |-> op, file |-> file]

\* fs::write, or open and save_node_state for the store.
Write(file) == << Step("create", file), Step("fill", file) >>

\* Deliberate fault: init writes its defaults whatever is there.
initialize_Fault ==
    Write("sqlite") \o Write("wallet") \o Write("aliases")
      \o Write("peers") \o Write("config")

\* Deliberate fault: init leaves the peer list to be written by hand.
initialize_Partial ==
    << Step("ensure", "sqlite"), Step("ensure", "wallet"), Step("ensure", "aliases"),
       Step("ensure", "config") >>

\* NodeHome::initialize: each file is created if it does not exist.
initialize ==
    << Step("ensure", "sqlite"), Step("ensure", "wallet"), Step("ensure", "aliases"),
       Step("ensure", "peers"), Step("ensure", "config") >>

Load(file) == << Step("load", file) >>

run_init == initialize \o Load("config") \o Load("wallet") \o << Step("report", "wallet") >>

run_wallet_new_key == Load("wallet") \o Write("wallet") \o << Step("report", "wallet") >>

create_wallet == Write("wallet") \o << Step("report", "wallet") >>

create_alias_book == Write("aliases")

alias_add == << Step("load_or_new", "aliases") >> \o Write("aliases")
                                                 \o << Step("report", "aliases") >>

alias_list == Load("aliases")

load_wallet_context == Load("config") \o Load("wallet")

run_wallet_info == load_wallet_context \o << Step("report", "wallet") >>

\* A table is queried through a read-only handle.
Read == << Step("read", "sqlite") >>

run_balance == load_wallet_context \o Read

run_transactions == load_wallet_context \o Read

\* run_status, without the request to the server.
run_status == Load("config") \o Load("sqlite")

\* inspect chain, balance and utxos
inspect_store == Read

inspect_peers == Load("peers")

\* A recipient given as a key needs no alias book.
parse_public_key_or_alias(cmd) == IF cmd.by_alias THEN Load("aliases") ELSE <<>>

\* run_pay: the change of a payment goes to the default key.
run_pay(cmd) ==
    Load("config") \o parse_public_key_or_alias(cmd) \o Load("wallet") \o Read
      \o << Step("request", "sqlite") >>

load_sqlite_state == << Step("open", "sqlite") >> \o Load("sqlite")

\* The local debug commands work on a state of their own and save all of it.
SaveState == << Step("save", "sqlite") >>

\* debug mine-coinbase and mine-pending
debug_mine == Load("wallet") \o load_sqlite_state \o SaveState

debug_submit_payment(cmd) ==
    parse_public_key_or_alias(cmd) \o Load("wallet") \o load_sqlite_state \o SaveState

debug_submit_transfer == Load("wallet") \o load_sqlite_state \o SaveState

\* The remote ones, to the server of this home.
debug_submit_payment_remote(cmd) ==
    parse_public_key_or_alias(cmd) \o Load("wallet") \o load_sqlite_state
      \o << Step("request", "sqlite") >>

debug_mine_pending_remote == Load("wallet") \o << Step("request", "sqlite") >>

\* run_bootstrap: the server mines to the key of the wallet.
run_bootstrap == load_wallet_context \o << Step("request", "sqlite") >>

\* run_serve, after the configuration has been read.
run_serve(mining) ==
    load_sqlite_state \o Load("peers")
      \o (IF mining THEN Load("wallet") ELSE <<>>) \o << Step("serve", "sqlite") >>

\* resolve_mining_runtime
resolve_mining_runtime(cmd, config) ==
    ~cmd.no_mining /\ (cmd.mining \/ config.mining)

Program(cmd) ==
    CASE cmd.op = "init"              -> run_init
      [] cmd.op = "new-key"           -> run_wallet_new_key
      [] cmd.op = "create-wallet"     -> create_wallet
      [] cmd.op = "create-alias-book" -> create_alias_book
      [] cmd.op = "alias-add"         -> alias_add
      [] cmd.op = "alias-list"        -> alias_list
      [] cmd.op = "info"              -> run_wallet_info
      [] cmd.op = "balance"           -> run_balance
      [] cmd.op = "status"            -> run_status
      [] cmd.op = "transactions"      -> run_transactions
      [] cmd.op = "inspect"           -> inspect_store
      [] cmd.op = "inspect-peers"     -> inspect_peers
      [] cmd.op = "pay"               -> run_pay(cmd)
      [] cmd.op = "bootstrap"         -> run_bootstrap
      [] cmd.op = "mine"              -> debug_mine
      [] cmd.op = "submit-payment"    -> debug_submit_payment(cmd)
      [] cmd.op = "submit-transfer"   -> debug_submit_transfer
      [] cmd.op = "payment-remote"    -> debug_submit_payment_remote(cmd)
      [] cmd.op = "mine-remote"       -> debug_mine_pending_remote
      [] cmd.op = "serve"             -> Load("config")

\* The command has a block mined to the default key of the wallet.
Mines(cmd) == cmd.op \in {"bootstrap", "mine", "mine-remote"}

------------------------------------------------------------------------------
(***************************************************************************)
(* The steps.                                                              *)
(***************************************************************************)
NoProc == [cmd |-> [op |-> "none"], todo |-> <<>>, wallet |-> NoWallet,
           book |-> EmptyBook, blocks |-> {}]

Exit(p) == procs' = [procs EXCEPT ![p] = NoProc]

\* p goes on with the steps todo, and remembers proc.
Continue(p, proc, todo) ==
    procs' = [procs EXCEPT ![p] = IF todo = <<>> THEN NoProc
                                                 ELSE [proc EXCEPT !.todo = todo]]

Rest(p) == Tail(procs[p].todo)

\* The next step of p is the operation op.
At(p, op) == procs[p].todo # <<>> /\ Head(procs[p].todo).op = op

File(p) == Head(procs[p].todo).file

\* p may still write the file.
MayWrite(p, file) ==
    \E i \in DOMAIN procs[p].todo :
        LET step == procs[p].todo[i]
        IN  /\ step.file = file
            /\ \/ step.op \in {"create", "fill", "save", "serve", "serving"}
               \/ step.op = "ensure" /\ files[file] = {}

Overlaps ==
    { <<"overlap", f>> : f \in { g \in FileNames :
        \E p, q \in Procs : p # q /\ MayWrite(p, g) /\ MayWrite(q, g) } }

\* What loading the file returns: a set of at most one value.
Contents(file) ==
    CASE files[file] = {}  -> {}
      [] file = "wallet"   -> UNION { load_wallet(bytes) : bytes \in files[file] }
      [] file = "sqlite"   -> { b \in files[file] : b = 1..Cardinality(b) }
      [] OTHER             -> { c.value : c \in { d \in files[file] : d.ok } }

SecretsOf(w) == { w.keys[i].secret : i \in DOMAIN w.keys }

DefaultSecret(w) ==
    (CHOOSE k \in { w.keys[i] : i \in DOMAIN w.keys } : k.name = w.default_key).secret

\* The key of the wallet the command pays, a reward or the change.
PaidKeys(p) ==
    IF procs[p].cmd.op = "submit-transfer" THEN {} ELSE {DefaultSecret(procs[p].wallet)}

Init ==
    /\ files = [f \in FileNames |-> {}]
    /\ procs = [p \in Procs |-> NoProc]
    /\ typed = 0
    /\ keys = 0
    /\ told = [keys |-> {}, aliases |-> EmptyBook, blocks |-> {}, paid |-> {},
               initialized |-> FALSE]
    /\ mishaps = {}

Launch(p) ==
    /\ procs[p] = NoProc
    /\ typed < MaxCommands
    /\ typed' = typed + 1
    /\ \E cmd \in Commands :
         procs' = [procs EXCEPT ![p] = [NoProc EXCEPT !.cmd = cmd, !.todo = Program(cmd)]]
    /\ UNCHANGED <<files, keys, told>>

\* path.exists()
Ensure(p) ==
    /\ At(p, "ensure")
    /\ Continue(p, procs[p], IF files[File(p)] = {} THEN Write(File(p)) \o Rest(p) ELSE Rest(p))
    /\ UNCHANGED <<files, keys, told>>

\* File::create truncates; SqliteStore::open leaves an existing store alone.
Create(p) ==
    /\ \/ /\ At(p, "create") /\ File(p) # "sqlite"
          /\ files' = [files EXCEPT ![File(p)] = {IF File(p) = "wallet" THEN <<>> ELSE Torn}]
       \/ /\ \/ At(p, "create") /\ File(p) = "sqlite"
             \/ At(p, "open")
          /\ files' = [files EXCEPT !["sqlite"] = IF @ = {} THEN {{}} ELSE @]
    /\ Continue(p, procs[p], Rest(p))
    /\ UNCHANGED <<keys, told>>

\* The bytes of new, over those of old.
Overlay(new, old) == new \o SubSeq(old, Len(new) + 1, Len(old))

\* The wallet p is about to write, with a new key.
NewWallet(p) ==
    IF procs[p].cmd.op = "new-key"
      THEN generate_key(procs[p].wallet, procs[p].cmd.name, Secret(keys + 1))
      ELSE from_signing_key(Secret(keys + 1))

NewBook(p) ==
    IF procs[p].cmd.op = "alias-add" THEN procs[p].book \cup {procs[p].cmd.alias}
                                     ELSE EmptyBook

\* Text written over a file that is no longer empty may end in the rest of
\* what was there.
Texts(v, file) == { {Json(v)} } \cup (IF files[file] = {Torn} THEN {} ELSE {{Torn}})

\* write_all, and save_node_state of an empty node for the store.
Fill(p) ==
    /\ At(p, "fill")
    /\ \/ /\ File(p) = "wallet"
          /\ keys < MaxKeys
          /\ keys' = keys + 1
          /\ files' = [files EXCEPT !["wallet"] =
                         { Overlay(EncodeWallet(NewWallet(p)), old) : old \in @ }]
          /\ Continue(p, [procs[p] EXCEPT !.wallet = NewWallet(p)], Rest(p))
       \/ /\ File(p) \in {"aliases", "peers", "config"}
          /\ \E text \in Texts(CASE File(p) = "aliases" -> NewBook(p)
                                 [] File(p) = "peers"   -> <<>>
                                 [] File(p) = "config"  -> DefaultConfig, File(p)) :
               files' = [files EXCEPT ![File(p)] = text]
          /\ Continue(p, procs[p], Rest(p))
          /\ UNCHANGED keys
       \/ /\ File(p) = "sqlite"
          /\ files' = [files EXCEPT !["sqlite"] = {{}}]
          /\ Continue(p, procs[p], Rest(p))
          /\ UNCHANGED keys
    /\ UNCHANGED told

\* The write fails half way, and the command with it.
FillFails(p) ==
    /\ At(p, "fill")
    /\ File(p) # "sqlite"
    /\ \/ /\ File(p) = "wallet"
          /\ LET bytes == EncodeWallet(NewWallet(p))
             IN  \E n \in CutPoints \cap 0..(Len(bytes) - 1) :
                   files' = [files EXCEPT !["wallet"] =
                               { Overlay(SubSeq(bytes, 1, n), old) : old \in @ }]
       \/ /\ File(p) # "wallet"
          /\ files' = [files EXCEPT ![File(p)] = {Torn}]
    /\ Exit(p)
    /\ UNCHANGED <<keys, told>>

\* A file is read whole; one that does not load ends the command.  A name
\* that is taken ends new-key.
LoadFile(p) ==
    /\ \/ At(p, "load")
       \/ At(p, "load_or_new") /\ files[File(p)] # {}
    /\ \/ /\ Contents(File(p)) = {}
          /\ Exit(p)
       \/ \E v \in Contents(File(p)) :
            CASE File(p) = "wallet"  ->
                   IF procs[p].cmd.op = "new-key" /\ procs[p].cmd.name \in NamesOf(v.keys)
                     THEN Exit(p)
                     ELSE Continue(p, [procs[p] EXCEPT !.wallet = v], Rest(p))
              [] File(p) = "aliases" -> Continue(p, [procs[p] EXCEPT !.book = v], Rest(p))
              [] File(p) = "sqlite"  -> Continue(p, [procs[p] EXCEPT !.blocks = v], Rest(p))
              [] File(p) = "config" /\ procs[p].cmd.op = "serve" ->
                   Continue(p, procs[p], run_serve(resolve_mining_runtime(procs[p].cmd, v)))
              [] OTHER               -> Continue(p, procs[p], Rest(p))
    /\ UNCHANGED <<files, keys, told>>

\* A query of one table does not rebuild the node.
ReadTable(p) ==
    /\ At(p, "read")
    /\ IF files["sqlite"] = {} THEN Exit(p) ELSE Continue(p, procs[p], Rest(p))
    /\ UNCHANGED <<files, keys, told>>

\* alias-add without a book starts a new one.
StartBook(p) ==
    /\ At(p, "load_or_new")
    /\ files[File(p)] = {}
    /\ Continue(p, procs[p], Rest(p))
    /\ UNCHANGED <<files, keys, told>>

\* The command prints what it has done and ends.
Report(p) ==
    /\ At(p, "report")
    /\ told' = IF File(p) = "wallet"
                 THEN [told EXCEPT !.keys = @ \cup SecretsOf(procs[p].wallet),
                                   !.initialized = @ \/ procs[p].cmd.op = "init"]
                 ELSE [told EXCEPT !.aliases = @ \cup {procs[p].cmd.alias}]
    /\ Continue(p, procs[p], Rest(p))
    /\ UNCHANGED <<files, keys>>

\* save_sqlite_state: all tables are rewritten.
SaveAll(p) ==
    /\ At(p, "save")
    /\ LET height == Cardinality(procs[p].blocks) + 1
           mined == IF Mines(procs[p].cmd) THEN {height} ELSE {}
       IN  /\ mined \subseteq 1..MaxBlocks
           /\ files' = [files EXCEPT !["sqlite"] = {procs[p].blocks \cup mined}]
           /\ told' = [told EXCEPT !.blocks = @ \cup mined,
                                   !.paid = @ \cup PaidKeys(p)]
    /\ Continue(p, procs[p], Rest(p))
    /\ UNCHANGED keys

------------------------------------------------------------------------------
(***************************************************************************)
(* The server.                                                             *)
(***************************************************************************)
Serving(p) == At(p, "serving")

\* The listener is bound by one server at a time.
Serve(p) ==
    /\ At(p, "serve")
    /\ IF \E q \in Procs : Serving(q)
         THEN Exit(p)
         ELSE Continue(p, procs[p], << Step("serving", "sqlite") >>)
    /\ UNCHANGED <<files, keys, told>>

\* The server q accepts a block that pays the keys of paid, and adds it to
\* the store.  A command p that asked for it ends.
SaveBlock(q, p, paid) ==
    LET height == Cardinality(procs[q].blocks) + 1
    IN  /\ height <= MaxBlocks
        /\ procs' = [procs EXCEPT ![p] = IF p = q THEN @ ELSE NoProc,
                                  ![q].blocks = @ \cup {height}]
        /\ files' = [files EXCEPT !["sqlite"] = { b \cup {height} : b \in @ }]
        /\ told' = [told EXCEPT !.blocks = @ \cup {height}, !.paid = @ \cup paid]
        /\ UNCHANGED keys

\* A block of a peer, or one of its own if it mines.
AcceptBlock(p) ==
    /\ Serving(p)
    /\ \/ SaveBlock(p, p, {})
       \/ /\ procs[p].wallet # NoWallet
          /\ SaveBlock(p, p, {DefaultSecret(procs[p].wallet)})

\* The server mines a block, or admits a transaction, for the command; no
\* server, no answer.
Request(p) ==
    /\ At(p, "request")
    /\ IF ~\E q \in Procs : Serving(q)
         THEN Exit(p) /\ UNCHANGED <<files, keys, told>>
         ELSE LET paid == PaidKeys(p)
              IN  IF Mines(procs[p].cmd)
                    THEN \E q \in Procs : Serving(q) /\ SaveBlock(q, p, paid)
                    ELSE /\ Exit(p)
                         /\ told' = [told EXCEPT !.paid = @ \cup paid]
                         /\ UNCHANGED <<files, keys>>

\* The process is killed.
Kill(p) ==
    /\ procs[p] # NoProc
    /\ Exit(p)
    /\ UNCHANGED <<files, keys, told>>

\* The user turns mining on in the configuration file.
EditConfig ==
    /\ \E c \in files["config"] : c.ok
    /\ files' = [files EXCEPT !["config"] = {Json([mining |-> TRUE])}]
    /\ UNCHANGED <<procs, keys, told>>

------------------------------------------------------------------------------
\* The history of what went wrong.
Note(events) ==
    /\ mishaps' = mishaps \cup events \cup Overlaps'
    /\ Cardinality(mishaps') <= MaxMishaps

\* A command that overwrites its file on purpose.
Replaced(p) ==
    IF procs[p].cmd.op \in {"create-wallet", "create-alias-book"} /\ files[File(p)] # {}
      THEN {<<"replaced", File(p)>>} ELSE {}

\* What is lost if p stops here.
CutShort(p) ==
    IF At(p, "fill") /\ File(p) # "sqlite" THEN {<<"cut", File(p)>>} ELSE {}

Advance(p) ==
    \/ Ensure(p) \/ Fill(p) \/ LoadFile(p) \/ ReadTable(p) \/ StartBook(p)
    \/ Report(p) \/ SaveAll(p) \/ Serve(p) \/ AcceptBlock(p) \/ Request(p)

Next ==
    \/ \E p \in Procs :
         \/ Launch(p) /\ Note({})
         \/ Advance(p) /\ Note({}) /\ UNCHANGED typed
         \/ Create(p) /\ Note(Replaced(p)) /\ UNCHANGED typed
         \/ (FillFails(p) \/ Kill(p)) /\ Note(CutShort(p)) /\ UNCHANGED typed
    \/ EditConfig /\ Note({}) /\ UNCHANGED typed

Spec == Init /\ [][Next]_vars

------------------------------------------------------------------------------
(***************************************************************************)
(* Properties.                                                             *)
(***************************************************************************)
\* A process has truncated the file and not yet written it.
BeingWritten(file) == \E p \in Procs : At(p, "fill") /\ File(p) = file

Generated == { Secret(n) : n \in 1..keys }

\* Kinds of mishap the file has met.
Met(file) == { m[1] : m \in { n \in mishaps : n[2] = file } }

\* What commands have reported stays in a file that two commands did not
\* write at the same time, that no write left half done and that nobody
\* replaced on purpose, whatever happened to the other files: the keys shown
\* and the keys paid are in the wallet, the aliases added in the book and the
\* blocks saved in the store.  So init, new-key, alias-add, serve, bootstrap
\* and the debug commands may follow each other in any order and be killed
\* between their writes.
ReportedWorkIsKept ==
    /\ \/ Met("wallet") # {} \/ BeingWritten("wallet")
       \/ told.keys \cup told.paid
            \subseteq UNION { SecretsOf(w) : w \in Contents("wallet") }
    /\ \/ Met("aliases") # {} \/ BeingWritten("aliases")
       \/ told.aliases \subseteq UNION Contents("aliases")
    /\ Met("sqlite") # {} \/ told.blocks \subseteq UNION Contents("sqlite")

\* The files a command has to load before it does anything else.
Needs(cmd) ==
    { Program(cmd)[i].file : i \in { j \in DOMAIN Program(cmd) :
                                       Program(cmd)[j].op \in {"load", "read"} } }

\* The other commands: they only read, or read what those above do.
OtherCommands ==
    { [op |-> o] : o \in {"info", "balance", "transactions", "status", "alias-list",
                          "inspect", "inspect-peers", "submit-transfer", "mine-remote"} }
      \cup { [op |-> "payment-remote", by_alias |-> b] : b \in BOOLEAN }

NeedsOfAll == { Needs(cmd) : cmd \in Commands \cup OtherCommands }

\* Once init has succeeded every command that reads the home finds files that
\* load, if no write of those was cut short or met another, whatever was
\* replaced and wherever an earlier init was killed.
InitializedHomeLoads ==
    told.initialized =>
      \A f \in UNION NeedsOfAll :
        Met(f) \subseteq {"replaced"} /\ ~BeingWritten(f) => Contents(f) # {}

\* Blocks and change are only paid to keys that were generated, even when
\* commands overlap and replace each other's wallets: only a write cut short
\* leaves bytes that load as the key of nobody.
OnlyGeneratedKeysArePaid ==
    "cut" \in Met("wallet") \/ told.paid \cup told.keys \subseteq Generated

==============================================================================
