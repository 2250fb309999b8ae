------------------------------ MODULE MCNodeHome ------------------------------
(***************************************************************************)
(* Two processes in one node home.                                         *)
(***************************************************************************)
EXTENDS NodeHome

Symmetric == Permutations(Procs)

MCDefaultName == <<0>>

MCCommands ==
    { [op |-> o] : o \in {"init", "create-wallet", "create-alias-book", "bootstrap", "mine"} }
      \cup { [op |-> "new-key", name |-> <<1>>] }
      \cup { [op |-> "alias-add", alias |-> "ann"] }
      \cup { [op |-> "pay", by_alias |-> TRUE] }
      \cup { [op |-> "submit-payment", by_alias |-> FALSE] }
      \cup { [op |-> "serve", no_mining |-> FALSE, mining |-> FALSE] }

==============================================================================
