----------------------------- MODULE ChainIndex -----------------------------
(***************************************************************************)
(* The block index and fork choice of src/src/chain.rs.  A chain is a      *)
(* record [entries, best_tip]; entries maps the hash of every indexed      *)
(* block to [height, cumulative_work, parent].                             *)
(***************************************************************************)
EXTENDS Consensus

CONSTANTS
    Blocks,        \* the blocks that may ever be offered to the index
    DefaultHash,   \* BlockHash::default(), the parent a genesis block names
    NoHash,        \* Option::None
    MaxWork        \* largest cumulative work (u128::MAX in the code)

ASSUME HashAssumption == DefaultHash # NoHash
ASSUME MaxWorkAssumption == MaxWork \in Nat

\* Hashes identify blocks, no block hashes to the default hash, and every
\* proof-of-work target has at least one unit of work.
ASSUME BlocksAssumption ==
    /\ \A b \in Blocks : /\ b.hash # DefaultHash
                         /\ b.hash # NoHash
                         /\ b.prev_blockhash # NoHash
                         /\ b.work \in 1..MaxWork
    /\ \A a, b \in Blocks : a.hash = b.hash => a = b

EmptyChain == [entries |-> [h \in {} |-> 0], best_tip |-> NoHash]

IsIndexed(c, h) == h \in DOMAIN c.entries

\* Deliberate fault: the addition of the work is not checked.
insert_block_error_Fault_Overflow(c, b) ==
    IF ~validate_block(b) THEN "InvalidBlock"
    ELSE IF IsIndexed(c, b.hash) THEN "None"
    ELSE IF DOMAIN c.entries = {}
      THEN IF b.prev_blockhash = DefaultHash THEN "None" ELSE "GenesisHasParent"
    ELSE IF ~IsIndexed(c, b.prev_blockhash) THEN "MissingParent"
    ELSE "None"

\* The error insert_block returns, "None" for Ok.
insert_block_error(c, b) ==
    IF ~validate_block(b) THEN "InvalidBlock"
    ELSE IF IsIndexed(c, b.hash) THEN "None"
    ELSE IF DOMAIN c.entries = {}
      THEN IF b.prev_blockhash = DefaultHash THEN "None" ELSE "GenesisHasParent"
    ELSE IF ~IsIndexed(c, b.prev_blockhash) THEN "MissingParent"
    ELSE IF c.entries[b.prev_blockhash].cumulative_work + b.work > MaxWork
      THEN "WorkOverflow"
    ELSE "None"

\* Deliberate fault: a block's own work instead of the branch's.
NewEntry_Fault_OwnWork(c, b) ==
    IF DOMAIN c.entries = {}
      THEN [height |-> 0, cumulative_work |-> b.work, parent |-> NoHash]
      ELSE [height |-> c.entries[b.prev_blockhash].height + 1,
            cumulative_work |-> b.work,
            parent |-> b.prev_blockhash]

\* The entry of a block that is not indexed yet.
NewEntry(c, b) ==
    IF DOMAIN c.entries = {}
      THEN [height |-> 0, cumulative_work |-> b.work, parent |-> NoHash]
      ELSE LET p == c.entries[b.prev_blockhash]
           IN  [height |-> p.height + 1,
                cumulative_work |-> p.cumulative_work + b.work,
                parent |-> b.prev_blockhash]

\* Deliberate faults, each a plausible slip in the definition that follows.
update_best_tip_Fault_Ties(entries, tip, candidate) ==
    IF \/ tip = NoHash
       \/ entries[candidate].cumulative_work >= entries[tip].cumulative_work
      THEN candidate
      ELSE tip

update_best_tip_Fault_Height(entries, tip, candidate) ==
    IF \/ tip = NoHash
       \/ entries[candidate].height > entries[tip].height
      THEN candidate
      ELSE tip

\* Only strictly more work replaces the best tip: of two equal branches the
\* one indexed first stays.
update_best_tip(entries, tip, candidate) ==
    IF \/ tip = NoHash
       \/ entries[candidate].cumulative_work > entries[tip].cumulative_work
      THEN candidate
      ELSE tip

\* The chain after insert_block; an error or a known block leaves it alone.
insert_block(c, b) ==
    IF insert_block_error(c, b) # "None" \/ IsIndexed(c, b.hash)
      THEN c
      ELSE LET entries == [h \in DOMAIN c.entries \cup {b.hash} |->
                             IF h = b.hash THEN NewEntry(c, b)
                                           ELSE c.entries[h]]
           IN  [entries |-> entries,
                best_tip |-> update_best_tip(entries, c.best_tip, b.hash)]

\* The blocks branch_count counts: indexed, and no indexed block's parent.
BranchHeads(c) ==
    { h \in DOMAIN c.entries :
        \A g \in DOMAIN c.entries : c.entries[g].parent # h }

------------------------------------------------------------------------------
(***************************************************************************)
(* What a sound index looks like.                                          *)
(***************************************************************************)
Hashes == { b.hash : b \in Blocks }

Entries == [height : Nat, cumulative_work : 1..MaxWork,
            parent : Hashes \cup {NoHash}]

IsChain(c) ==
    /\ DOMAIN c = {"entries", "best_tip"}
    /\ DOMAIN c.entries \subseteq Hashes
    /\ \A h \in DOMAIN c.entries : c.entries[h] \in Entries
    /\ c.best_tip \in Hashes \cup {NoHash}

\* There is a best tip as soon as anything is indexed, and nothing indexed
\* outweighs it.
TipIsHeaviest(c) ==
    IF DOMAIN c.entries = {}
      THEN c.best_tip = NoHash
      ELSE /\ IsIndexed(c, c.best_tip)
           /\ \A h \in DOMAIN c.entries :
                c.entries[h].cumulative_work
                  <= c.entries[c.best_tip].cumulative_work

\* Every entry but one genesis hangs from an indexed parent, one higher and
\* with more work.
IsTree(c) ==
    /\ \A h \in DOMAIN c.entries :
         LET e == c.entries[h]
         IN  IF e.parent = NoHash
               THEN e.height = 0
               ELSE /\ IsIndexed(c, e.parent)
                    /\ e.height = c.entries[e.parent].height + 1
                    /\ e.cumulative_work > c.entries[e.parent].cumulative_work
    /\ \A g, h \in DOMAIN c.entries :
         c.entries[g].parent = NoHash /\ c.entries[h].parent = NoHash => g = h

\* From c to d no entry changes, and the best tip moves only to a block that
\* was not indexed in c and has strictly more work.
OnlyGains(c, d) ==
    /\ \A h \in DOMAIN c.entries : /\ IsIndexed(d, h)
                                   /\ d.entries[h] = c.entries[h]
    /\ d.best_tip # c.best_tip =>
         /\ ~IsIndexed(c, d.best_tip)
         /\ c.best_tip # NoHash =>
              d.entries[d.best_tip].cumulative_work
                > c.entries[c.best_tip].cumulative_work
==============================================================================
