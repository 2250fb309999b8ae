----------------------------- MODULE ChainLemmas -----------------------------
(***************************************************************************)
(* What insert_block does to a sound index, for every set of blocks.       *)
(***************************************************************************)
EXTENDS ChainIndex, TLAPS

\* The inductive invariant of the index.  No part stands alone: that the tip
\* is heaviest needs it to be indexed, that a child outweighs its parent
\* needs every work to be a positive number.
ChainInv(c) == IsChain(c) /\ TipIsHeaviest(c) /\ IsTree(c)

\* An empty index is sound.
LEMMA EmptyChainInv == ChainInv(EmptyChain)
BY HashAssumption
   DEF ChainInv, IsChain, TipIsHeaviest, IsTree, EmptyChain, IsIndexed

\* What insert_block does when it changes anything: block b is new, either
\* the first one or the child of an indexed block whose work leaves room.
LEMMA InsertCases ==
    ASSUME NEW c, IsChain(c), NEW b \in Blocks,
           NEW d, d = insert_block(c, b), d # c
    PROVE  /\ ~IsIndexed(c, b.hash)
           /\ DOMAIN d.entries = DOMAIN c.entries \cup {b.hash}
           /\ \A h \in DOMAIN c.entries : d.entries[h] = c.entries[h]
           /\ d.entries[b.hash] = NewEntry(c, b)
           /\ d.best_tip
                = update_best_tip(d.entries, c.best_tip, b.hash)
           /\ DOMAIN d = {"entries", "best_tip"}
           /\ DOMAIN c.entries # {} =>
                /\ IsIndexed(c, b.prev_blockhash)
                /\ c.entries[b.prev_blockhash].cumulative_work + b.work
                     <= MaxWork
<1>. DEFINE ents == [h \in DOMAIN c.entries \cup {b.hash} |->
                       IF h = b.hash THEN NewEntry(c, b)
                                     ELSE c.entries[h]]
<1>1. /\ insert_block_error(c, b) = "None"
      /\ ~IsIndexed(c, b.hash)
      /\ d = [entries |-> ents,
              best_tip |-> update_best_tip(ents, c.best_tip, b.hash)]
  BY DEF insert_block
<1>2. ASSUME DOMAIN c.entries # {}
      PROVE  /\ IsIndexed(c, b.prev_blockhash)
             /\ c.entries[b.prev_blockhash].cumulative_work + b.work
                  <= MaxWork
  <2>1. IsIndexed(c, b.prev_blockhash)
    BY <1>1, <1>2 DEF insert_block_error
  <2>2. ~(c.entries[b.prev_blockhash].cumulative_work + b.work > MaxWork)
    BY <1>1, <1>2, <2>1 DEF insert_block_error
  <2>3. /\ c.entries[b.prev_blockhash].cumulative_work \in Nat
        /\ b.work \in Nat
    BY <2>1, BlocksAssumption, MaxWorkAssumption
       DEF IsChain, Entries, IsIndexed
  <2>. QED
    BY <2>1, <2>2, <2>3, MaxWorkAssumption
<1>3. d.entries = ents
  BY <1>1
<1>. QED
  BY <1>1, <1>2, <1>3 DEF IsIndexed

\* The entry of a new block is well typed, and heavier than its parent's.
LEMMA NewEntryType ==
    ASSUME NEW c, IsChain(c), NEW b \in Blocks,
           DOMAIN c.entries # {} =>
             /\ IsIndexed(c, b.prev_blockhash)
             /\ c.entries[b.prev_blockhash].cumulative_work + b.work
                  <= MaxWork
    PROVE  /\ NewEntry(c, b) \in Entries
           /\ DOMAIN c.entries # {} =>
                /\ NewEntry(c, b).parent = b.prev_blockhash
                /\ NewEntry(c, b).height
                     = c.entries[b.prev_blockhash].height + 1
                /\ NewEntry(c, b).cumulative_work
                     > c.entries[b.prev_blockhash].cumulative_work
           /\ DOMAIN c.entries = {} =>
                /\ NewEntry(c, b).parent = NoHash
                /\ NewEntry(c, b).height = 0
<1>1. b.work \in 1..MaxWork
  BY BlocksAssumption
<1>2. CASE DOMAIN c.entries = {}
  BY <1>1, <1>2, MaxWorkAssumption DEF NewEntry, Entries
<1>3. CASE DOMAIN c.entries # {}
  <2>. DEFINE p == c.entries[b.prev_blockhash]
  <2>1. p \in Entries /\ b.prev_blockhash \in Hashes
    BY <1>3 DEF IsChain, IsIndexed
  <2>2. p.height \in Nat /\ p.cumulative_work \in 1..MaxWork
    BY <2>1 DEF Entries
  <2>3. p.cumulative_work + b.work \in 1..MaxWork
    BY <1>1, <1>3, <2>2, MaxWorkAssumption
  <2>4. NewEntry(c, b) = [height |-> p.height + 1,
                              cumulative_work |-> p.cumulative_work + b.work,
                              parent |-> b.prev_blockhash]
    BY <1>3 DEF NewEntry
  <2>5. NewEntry(c, b) \in Entries
    BY <2>1, <2>2, <2>3, <2>4 DEF Entries
  <2>6. p.cumulative_work + b.work > p.cumulative_work
    BY <1>1, <2>2, MaxWorkAssumption
  <2>. QED
    BY <1>3, <2>4, <2>5, <2>6
<1>. QED
  BY <1>2, <1>3

\* Indexing a block preserves the invariant.
LEMMA InsertChainInv ==
    ASSUME NEW c, ChainInv(c), NEW b \in Blocks,
           NEW d, d = insert_block(c, b)
    PROVE  ChainInv(d)
<1>1. CASE d = c
  BY <1>1
<1>2. CASE d # c
  <2>. DEFINE new == NewEntry(c, b)
              old == DOMAIN c.entries
  <2>0. IsChain(c) /\ TipIsHeaviest(c) /\ IsTree(c)
    BY DEF ChainInv
  <2>1. /\ b.hash \notin old
        /\ DOMAIN d.entries = old \cup {b.hash}
        /\ \A h \in old : d.entries[h] = c.entries[h]
        /\ d.entries[b.hash] = new
        /\ d.best_tip
             = update_best_tip(d.entries, c.best_tip, b.hash)
        /\ DOMAIN d = {"entries", "best_tip"}
        /\ old # {} =>
             /\ b.prev_blockhash \in old
             /\ c.entries[b.prev_blockhash].cumulative_work + b.work
                  <= MaxWork
    BY <1>2, <2>0, InsertCases DEF IsIndexed
  <2>2. /\ new \in Entries
        /\ old # {} => /\ new.parent = b.prev_blockhash
                       /\ new.height = c.entries[b.prev_blockhash].height + 1
                       /\ new.cumulative_work
                            > c.entries[b.prev_blockhash].cumulative_work
        /\ old = {} => new.parent = NoHash /\ new.height = 0
    BY <2>0, <2>1, NewEntryType DEF IsIndexed
  <2>3. b.hash \in Hashes /\ b.hash # NoHash /\ b.prev_blockhash # NoHash
    BY BlocksAssumption DEF Hashes
  <2>4. d.best_tip \in {b.hash, c.best_tip}
    BY <2>1 DEF update_best_tip
  <2>5. IsChain(d)
    BY <2>0, <2>1, <2>2, <2>3, <2>4 DEF IsChain, Hashes, Entries
  <2>6. TipIsHeaviest(d)
    <3>1. CASE old = {}
      <4>1. c.best_tip = NoHash
        BY <2>0, <3>1 DEF TipIsHeaviest
      <4>2. d.best_tip = b.hash
        BY <2>1, <4>1 DEF update_best_tip
      <4>3. new.cumulative_work <= new.cumulative_work
        BY <2>2, MaxWorkAssumption DEF Entries
      <4>. QED
        BY <2>1, <3>1, <4>2, <4>3 DEF TipIsHeaviest, IsIndexed
    <3>2. CASE old # {}
      <4>. DEFINE tip == c.best_tip
      <4>1. /\ tip \in old
            /\ \A h \in old : c.entries[h].cumulative_work
                                <= c.entries[tip].cumulative_work
        BY <2>0, <3>2 DEF TipIsHeaviest, IsIndexed
      <4>2. \A h \in old : c.entries[h].cumulative_work \in Nat
        BY <2>0, MaxWorkAssumption DEF IsChain, Entries
      <4>3. new.cumulative_work \in Nat
        BY <2>2, MaxWorkAssumption DEF Entries
      <4>4. tip # NoHash
        BY <2>0, <4>1, BlocksAssumption DEF IsChain, Hashes
      <4>5. CASE new.cumulative_work > c.entries[tip].cumulative_work
        <5>1. d.best_tip = b.hash
          BY <2>1, <4>1, <4>5 DEF update_best_tip
        <5>2. \A h \in old : c.entries[h].cumulative_work
                               <= new.cumulative_work
          BY <4>1, <4>2, <4>3, <4>5
        <5>. QED
          BY <2>1, <4>3, <5>1, <5>2 DEF TipIsHeaviest, IsIndexed
      <4>6. CASE ~(new.cumulative_work > c.entries[tip].cumulative_work)
        <5>1. d.best_tip = tip
          BY <2>1, <4>1, <4>4, <4>6 DEF update_best_tip
        <5>2. new.cumulative_work <= c.entries[tip].cumulative_work
          BY <4>1, <4>2, <4>3, <4>6
        <5>. QED
          BY <2>1, <4>1, <5>1, <5>2 DEF TipIsHeaviest, IsIndexed
      <4>. QED
        BY <4>5, <4>6
    <3>. QED
      BY <3>1, <3>2
  <2>7. IsTree(d)
    <3>1. ASSUME NEW h \in old
          PROVE  IF d.entries[h].parent = NoHash
                   THEN d.entries[h].height = 0
                   ELSE /\ d.entries[h].parent \in DOMAIN d.entries
                        /\ d.entries[h].height
                             = d.entries[d.entries[h].parent].height + 1
                        /\ d.entries[h].cumulative_work
                             > d.entries[d.entries[h].parent].cumulative_work
      BY <2>0, <2>1 DEF IsTree, IsIndexed
    <3>2. IF new.parent = NoHash
            THEN new.height = 0
            ELSE /\ new.parent \in DOMAIN d.entries
                 /\ new.height = d.entries[new.parent].height + 1
                 /\ new.cumulative_work > d.entries[new.parent].cumulative_work
      BY <2>1, <2>2, <2>3
    <3>3. \A g, h \in DOMAIN d.entries :
            d.entries[g].parent = NoHash /\ d.entries[h].parent = NoHash
              => g = h
      BY <2>0, <2>1, <2>2, <2>3 DEF IsTree
    <3>. QED
      BY <2>1, <3>1, <3>2, <3>3 DEF IsTree, IsIndexed
  <2>. QED
    BY <2>5, <2>6, <2>7 DEF ChainInv
<1>. QED
  BY <1>1, <1>2

\* The best tip of a sound index has no indexed child.
LEMMA TipHasNoChild ==
    ASSUME NEW c, ChainInv(c), NEW g \in DOMAIN c.entries
    PROVE  c.entries[g].parent # c.best_tip
<1>. SUFFICES ASSUME c.entries[g].parent = c.best_tip
              PROVE  FALSE
  OBVIOUS
<1>1. /\ c.best_tip \in DOMAIN c.entries
      /\ c.entries[g].cumulative_work <= c.entries[c.best_tip].cumulative_work
  BY DEF ChainInv, TipIsHeaviest, IsIndexed
<1>2. c.best_tip # NoHash
  BY <1>1, BlocksAssumption DEF ChainInv, IsChain, Hashes
<1>3. c.entries[g].cumulative_work > c.entries[c.best_tip].cumulative_work
  BY <1>2 DEF ChainInv, IsTree
<1>4. /\ c.entries[g].cumulative_work \in Nat
      /\ c.entries[c.best_tip].cumulative_work \in Nat
  BY <1>1, MaxWorkAssumption DEF ChainInv, IsChain, Entries
<1>. QED
  BY <1>1, <1>3, <1>4

\* insert_block keeps every entry and moves the tip only to more work.
LEMMA InsertOnlyGains ==
    ASSUME NEW c, ChainInv(c), NEW b \in Blocks,
           NEW d, d = insert_block(c, b)
    PROVE  OnlyGains(c, d)
<1>1. CASE d = c
  BY <1>1 DEF OnlyGains, IsIndexed
<1>2. CASE d # c
  <2>1. /\ b.hash \notin DOMAIN c.entries
        /\ DOMAIN d.entries = DOMAIN c.entries \cup {b.hash}
        /\ \A h \in DOMAIN c.entries : d.entries[h] = c.entries[h]
        /\ d.best_tip = update_best_tip(d.entries, c.best_tip, b.hash)
    BY <1>2, InsertCases DEF ChainInv, IsIndexed
  <2>2. ASSUME d.best_tip # c.best_tip
        PROVE  /\ ~IsIndexed(c, d.best_tip)
               /\ c.best_tip # NoHash =>
                    d.entries[d.best_tip].cumulative_work
                      > c.entries[c.best_tip].cumulative_work
    <3>1. /\ d.best_tip = b.hash
          /\ c.best_tip # NoHash =>
               d.entries[b.hash].cumulative_work
                 > d.entries[c.best_tip].cumulative_work
      BY <2>1, <2>2 DEF update_best_tip
    <3>2. c.best_tip # NoHash => c.best_tip \in DOMAIN c.entries
      BY DEF ChainInv, TipIsHeaviest, IsIndexed
    <3>. QED
      BY <2>1, <3>1, <3>2 DEF IsIndexed
  <2>. QED
    BY <2>1, <2>2 DEF OnlyGains, IsIndexed
<1>. QED
  BY <1>1, <1>2
==============================================================================
