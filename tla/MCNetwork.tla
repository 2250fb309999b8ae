------------------------------ MODULE MCNetwork -------------------------------
(***************************************************************************)
(* Two nodes that know each other, one of which also knows an address at   *)
(* which there is no node any more; and a line of three nodes.             *)
(***************************************************************************)
EXTENDS Network

MCAddresses == 1..3
NoRows == <<>>

Bounds(blocks, stops, failures) ==
    [blocks |-> blocks, stops |-> stops, failures |-> failures]

MCNodes == {2, 3}
MCSeeds == (2 :> {1, 3}) @@ (3 :> {2})

\* Both have the genesis block, one block is mined, and one node stops; or
\* node 2 is behind node 3 and remembers that address 1 had more, node 3 mines
\* one more block, and a wait fails.
MCHistories ==
    { [chain |-> (2 :> 0) @@ (3 :> 0), rows |-> (2 :> NoRows) @@ (3 :> NoRows),
       faults |-> Bounds(1, 1, 0)],
      [chain |-> (2 :> 0) @@ (3 :> 1), rows |-> (2 :> (1 :> 3)) @@ (3 :> NoRows),
       faults |-> Bounds(1, 0, 1)] }

\* Node 3 follows node 2, which follows node 1.
MCLineNodes == 1..3
MCLineSeeds == << {}, {1}, {2} >>
MCLineHistories ==
    { [chain |-> <<0, 0, 0>>, rows |-> <<NoRows, NoRows, NoRows>>,
       faults |-> Bounds(1, 0, 0)] }
==============================================================================
