------------------------------- MODULE Network --------------------------------
(***************************************************************************)
(* Several servers, src/src/server.rs: their event loops, what each knows  *)
(* of the others in memory and in its peers table, and the sessions on     *)
(* which they say hello, poll, fetch and announce.                         *)
(*                                                                         *)
(* An event loop handles one event at a time and blocks on every request   *)
(* and handshake it makes.  The node asked answers from its own event      *)
(* loop, so nodes wait for one another.  A handler is a list of things     *)
(* still to do, worked off in order.                                       *)
(*                                                                         *)
(* All nodes follow one chain: a block is its height, and a node has every *)
(* block up to chain[n].  Rival branches, the walk block by block and late *)
(* answers are PeerSync's.                                                 *)
(***************************************************************************)
EXTENDS Integers, Sequences, FiniteSets, TLC, FiniteSetsExt, SequencesExt

CONSTANTS
    Addresses,    \* ordered as numbers
    Nodes,        \* those at which there is a node
    Seeds,        \* the configured peers of each node
    Histories,    \* what there is at first: [chain, rows] and the faults to come
    MaxHeight     \* the highest block

ASSUME NetworkAssumption ==
    /\ Addresses \subseteq Nat /\ IsFiniteSet(Addresses) /\ Nodes \subseteq Addresses
    /\ Seeds \in [Nodes -> SUBSET Addresses] /\ \A n \in Nodes : n \notin Seeds[n]
    /\ MaxHeight \in Nat
    /\ \A h \in Histories : h.chain \in [Nodes -> -1..MaxHeight]

RELAY_CONNECT_ATTEMPTS == 3

VARIABLES
    chain,    \* height of each node's tip
    up,       \* the node runs
    peers,    \* runtime peer records of each node
    rows,     \* its peers table
    todo,     \* what is left of the handler its event loop is in
    wait,     \* [state, height, attempt, late] of the request being made
    inbox,    \* inbox[n][p]: messages of p that n has not handled
    faults    \* [blocks, stops, failures]: bounds, counted down, on blocks mined,
              \* nodes that stop, and waits that end although an answer was to come

vars == <<chain, up, peers, rows, todo, wait, inbox, faults>>

NoHeight == -1

\* A runtime peer: the advertised height, the session, the last hint acted
\* on, and how far the peer is from ready for a sync: 2 since the last
\* contact, 1 since the tick after it, 0 when the cooldown is over.  The row
\* is the advertised height: a restart outlasts the cooldown.
from_endpoint ==
    [height |-> NoHeight, session |-> "none", hint |-> NoHeight, cooldown |-> 0]

\* late: the wait has lasted as long as a whole wait of the node it is for.
NotWaiting == [state |-> "no", height |-> NoHeight, attempt |-> 0, late |-> FALSE]

Idle(n) == up[n] /\ todo[n] = <<>>

\* The peers of Server::new: the table is not read.
SeedPeers(n) == [p \in Seeds[n] |-> from_endpoint]

Init ==
    /\ \E h \in Histories :
         /\ chain = h.chain
         /\ rows = h.rows
         /\ faults = h.faults
    /\ up = [n \in Nodes |-> FALSE]
    /\ peers = [n \in Nodes |-> SeedPeers(n)]
    /\ todo = [n \in Nodes |-> <<>>]
    /\ wait = [n \in Nodes |-> NotWaiting]
    /\ inbox = [n \in Nodes |-> [p \in Nodes |-> <<>>]]

------------------------------------------------------------------------------
(***************************************************************************)
(* Peer records.                                                           *)
(***************************************************************************)
load_peer(n, p) == IF p \in DOMAIN rows[n] THEN rows[n][p] ELSE NoHeight

ensure_runtime_peer(n, p) == IF p \in DOMAIN peers[n] THEN peers[n][p] ELSE from_endpoint

\* update_persisted_peer: the updated row becomes the runtime record, and is
\* saved.
update_persisted_peer(n, p, updated) ==
    /\ peers' = [peers EXCEPT ![n] = (p :> updated) @@ @]
    /\ rows' = [rows EXCEPT ![n] = (p :> updated.height) @@ @]

\* record_peer_connect_attempt: the advertised height is the one of the row.
record_peer_connect_attempt(n, p) ==
    [ensure_runtime_peer(n, p) EXCEPT !.height = load_peer(n, p), !.cooldown = 2]

record_peer_connect_success(n, p, h) ==
    [ensure_runtime_peer(n, p) EXCEPT !.height = h, !.cooldown = 2, !.session = "up"]

\* Deliberate fault: a failed connect ends the cooldown.
record_peer_connect_failure_Fault(n, p) ==
    [ensure_runtime_peer(n, p) EXCEPT !.height = load_peer(n, p), !.cooldown = 0]

record_peer_connect_failure(n, p) ==
    [ensure_runtime_peer(n, p) EXCEPT !.height = load_peer(n, p), !.cooldown = 2]

\* record_inbound_hello, record_inbound_tip and the answer to get_tip.
RecordTip(n, p, h) == [ensure_runtime_peer(n, p) EXCEPT !.height = h]

Session(n, p) == ensure_runtime_peer(n, p).session

\* disconnect_peer, or the end of the peer task of the session n has to p.
SetSession(n, p, s) ==
    IF p \in DOMAIN peers[n] THEN [peers EXCEPT ![n][p].session = s] ELSE peers

tip_summary_advances_local_state(n, h) == h > chain[n]

\* select_sync_peers: the ready peer that advertises the most, if that is
\* more than the node has, or else a ready peer of which nothing is known; the
\* lower address first.  A set of at most one node.
select_sync_peers(n, book) ==
    LET ready == { p \in DOMAIN book : book[p].cooldown = 0 }
        ahead == { p \in ready :
                     tip_summary_advances_local_state(n, book[p].height) }
        best == { p \in ahead : \A q \in ahead :
                     book[q].height <= book[p].height }
        unknown == { p \in ready : book[p].height = NoHeight }
        first(S) == { p \in S : \A q \in S : p <= q }
    IN  IF ahead # {} THEN first(best) ELSE first(unknown)

------------------------------------------------------------------------------
(***************************************************************************)
(* What a handler still has to do: poll a peer for its tip, fetch up to an *)
(* advertised height, try an announced block again, announce a message.    *)
(* The job says which handler polls or fetches.                            *)
(***************************************************************************)
Poll(p, job) == [op |-> "GetTip", peer |-> p, job |-> job, height |-> NoHeight]
Fetch(p, job, h) == [op |-> "GetBlocks", peer |-> p, job |-> job, height |-> h]
Retry(p, h, previous) == [op |-> "Retry", peer |-> p, height |-> h, previous |-> previous]
Announce(p, m) == [op |-> "Announce", peer |-> p, message |-> m]

Message(kind, h) == [kind |-> kind, height |-> h, live |-> TRUE]

\* relay_best_effort: every known peer but the origin, in address order.
relay_best_effort(n, m, origin) ==
    LET targets == SetToSortSeq(DOMAIN peers[n] \ origin, <)
    IN  [i \in DOMAIN targets |-> Announce(targets[i], m)]

\* The blocks a handler relays, then relay_new_best_tip_if_advanced.
Relays(n, blocks, previous, tip, origin) ==
    FlattenSeq([i \in DOMAIN blocks |->
                  relay_best_effort(n, Message("AnnounceBlock", blocks[i]), origin)])
      \o (IF tip = previous
            THEN <<>> ELSE relay_best_effort(n, Message("AnnounceTip", tip), origin))

Requests == {"GetTip", "GetBlocks"}

\* The peer still has the request of n before it.
MayBeAnswered(n, p) ==
    /\ p \in Nodes
    /\ \E i \in DOMAIN inbox[p][n] :
          /\ inbox[p][n][i].live
          /\ inbox[p][n][i].kind \in Requests \cup {"Hello"}

\* The node on which an answer to n depends.
WaitsFor(n) ==
    IF wait[n].state = "asked" /\ MayBeAnswered(n, Head(todo[n]).peer)
      THEN {Head(todo[n]).peer} ELSE {}

\* p waits, maybe through a third node, for n.
WaitsBack(n, p) == n \in WaitsFor(p) \cup UNION { WaitsFor(q) : q \in WaitsFor(p) }

\* The wait of n ends, and those in a circle with n have waited as long.
WaitEnds(n, attempt) ==
    wait' = [p \in Nodes |->
               IF p = n THEN [NotWaiting EXCEPT !.attempt = attempt]
               ELSE [wait[p] EXCEPT !.late = @ \/ (n \in WaitsFor(p) /\ WaitsBack(p, n))]]

GoOn(n, tasks) ==
    /\ todo' = [todo EXCEPT ![n] = tasks]
    /\ WaitEnds(n, 0)

\* A poll or a fetch ends with the node at height h.  handle_tip_sync relays
\* what it has accepted; the periodic sync relays nothing; the announced
\* block comes next.
SyncEnds(n, task, h) ==
    /\ chain' = [chain EXCEPT ![n] = h]
    /\ GoOn(n, Tail(todo[n]) \o
                 (IF task.job # "TipSync" THEN <<>>
                  ELSE Relays(n, [i \in 1..(h - chain[n]) |-> chain[n] + i],
                              chain[n], h, {task.peer})))

\* One of the failures the bound allows.
Fails ==
    /\ faults.failures > 0
    /\ faults' = [faults EXCEPT !.failures = @ - 1]

\* The error of a task: the periodic sync records it, and the handler goes on.
TaskFails(n, task) ==
    /\ IF task.op # "Announce" /\ task.job = "Tick"
         THEN update_persisted_peer(n, task.peer, record_peer_connect_failure(n, task.peer))
         ELSE /\ peers' = IF task.op # "Announce" THEN peers
                                                  ELSE SetSession(n, task.peer, "none")
              /\ UNCHANGED rows
    /\ GoOn(n, Tail(todo[n]))

\* The task is tried again on a new session.
TryAgain(n) ==
    /\ WaitEnds(n, wait[n].attempt + 1)
    /\ UNCHANGED todo

\* A failed connect ends a poll or a fetch at once.  An announcement is tried
\* RELAY_CONNECT_ATTEMPTS times.
ConnectFailed(n, task) ==
    /\ update_persisted_peer(n, task.peer, record_peer_connect_failure(n, task.peer))
    /\ IF task.op = "Announce" /\ wait[n].attempt + 1 < RELAY_CONNECT_ATTEMPTS
         THEN TryAgain(n)
         ELSE GoOn(n, Tail(todo[n]))

\* A poll, fetch or announcement fails on the session: it is given up for a
\* new one unless this was the last attempt.  Only an announcement gives it
\* up even then.
RequestFailed(n, task) ==
    LET attempts == IF task.op = "Announce" THEN RELAY_CONNECT_ATTEMPTS ELSE 2
        last == wait[n].attempt + 1 = attempts
    IN  IF last
          THEN TaskFails(n, task)
          ELSE /\ peers' = SetSession(n, task.peer, "none")
               /\ UNCHANGED rows
               /\ TryAgain(n)

------------------------------------------------------------------------------
(***************************************************************************)
(* The event loop in the middle of a handler.                              *)
(***************************************************************************)
InHandler(n, ops) == todo[n] # <<>> /\ Head(todo[n]).op \in ops

IsUp(p) == p \in Nodes /\ up[p]

Deliver(n, p, m) == IF IsUp(p) THEN [inbox EXCEPT ![p][n] = Append(@, m)] ELSE inbox

\* ensure_peer_connected without a session, up to the answer to its hello.
Connect(n) ==
    /\ InHandler(n, Requests \cup {"Announce"})
    /\ wait[n].state = "no"
    /\ LET p == Head(todo[n]).peer
       IN  /\ Session(n, p) = "none"
           /\ update_persisted_peer(n, p, record_peer_connect_attempt(n, p))
           /\ inbox' = Deliver(n, p, Message("Hello", chain[n]))
    /\ wait' = [wait EXCEPT ![n].state = "asked"]
    /\ UNCHANGED <<chain, up, todo, faults>>

\* The session a task begins with may have ended: nothing has been read on
\* it for two seconds.
HasEnded(n, p) ==
    \/ Session(n, p) = "dead"
    \/ Session(n, p) = "up" /\ wait[n].attempt = 0

\* request_tip and request_block on the cached session.
Request(n) ==
    /\ InHandler(n, Requests)
    /\ wait[n].state = "no"
    /\ LET task == Head(todo[n])
       IN  \/ /\ Session(n, task.peer) = "up"
              /\ inbox' = Deliver(n, task.peer, Message(task.op, task.height))
              /\ wait' = [wait EXCEPT ![n].state = "asked"]
              /\ UNCHANGED <<peers, rows, todo>>
           \/ /\ HasEnded(n, task.peer)
              /\ RequestFailed(n, task)
              /\ UNCHANGED inbox
    /\ UNCHANGED <<chain, up, faults>>

\* announce_to_peer_once on the cached session.
announce_to_peer(n) ==
    /\ InHandler(n, {"Announce"})
    /\ wait[n].state = "no"
    /\ LET task == Head(todo[n])
       IN  \/ /\ Session(n, task.peer) = "up"
              /\ inbox' = Deliver(n, task.peer, task.message)
              /\ GoOn(n, Tail(todo[n]))
              /\ UNCHANGED <<peers, rows>>
           \/ /\ HasEnded(n, task.peer)
              /\ RequestFailed(n, task)
              /\ UNCHANGED inbox
    /\ UNCHANGED <<chain, up, faults>>

\* The answer has come: to the hello, to get_tip, or the missing blocks.
TakeAnswer(n) ==
    /\ wait[n].state = "told"
    /\ LET task == Head(todo[n])
           p == task.peer
           h == wait[n].height
       IN  \/ /\ Session(n, p) = "none"
              /\ update_persisted_peer(n, p, record_peer_connect_success(n, p, h))
              /\ WaitEnds(n, wait[n].attempt)
              /\ UNCHANGED <<chain, todo>>
           \/ /\ Session(n, p) # "none"
              /\ task.op = "GetTip"
              /\ update_persisted_peer(n, p, RecordTip(n, p, h))
              /\ IF tip_summary_advances_local_state(n, h)
                   THEN /\ GoOn(n, <<Fetch(p, task.job, h)>> \o Tail(todo[n]))
                        /\ UNCHANGED chain
                   ELSE SyncEnds(n, task, chain[n])
           \/ /\ Session(n, p) # "none"
              /\ task.op = "GetBlocks"
              /\ SyncEnds(n, task, h)
              /\ UNCHANGED <<peers, rows>>
    /\ UNCHANGED <<up, inbox, faults>>

\* Nobody will use the answers to what n has asked; its hello is still
\* recorded.
Abandon(messages) ==
    LET kept == SelectSeq(messages, LAMBDA m : m.kind \notin Requests)
    IN  [i \in DOMAIN kept |->
           [kept[i] EXCEPT !.live = kept[i].live /\ kept[i].kind # "Hello"]]

\* Deliberate fault: the event loop waits as long as the peer is there.
Timeout_Fault(n, free) ==
    /\ wait[n].state = "asked"
    /\ LET task == Head(todo[n])
           p == task.peer
       IN  /\ free <=> ~MayBeAnswered(n, p)
           /\ IF Session(n, p) = "none" THEN ConnectFailed(n, task)
                                        ELSE RequestFailed(n, task)
           /\ inbox' = IF p \in Nodes THEN [inbox EXCEPT ![p][n] = Abandon(@)] ELSE inbox
    /\ IF free THEN UNCHANGED faults ELSE Fails
    /\ UNCHANGED <<chain, up>>

\* The two seconds of a wait are over.  They end before the peer can answer
\* if there is none, or it waits in turn for this node and is not late itself; a
\* peer that waits for anyone else has waited longer and answers in time, but
\* for the failures the bound allows.
Timeout(n, free) ==
    /\ wait[n].state = "asked"
    /\ LET task == Head(todo[n])
           p == task.peer
       IN  /\ free <=> \/ ~MayBeAnswered(n, p)
                       \/ WaitsBack(n, p) /\ ~wait[p].late
                       \/ wait[n].late
           /\ IF Session(n, p) = "none" THEN ConnectFailed(n, task)
                                        ELSE RequestFailed(n, task)
           /\ inbox' = IF p \in Nodes THEN [inbox EXCEPT ![p][n] = Abandon(@)] ELSE inbox
    /\ IF free THEN UNCHANGED faults ELSE Fails
    /\ UNCHANGED <<chain, up>>

\* A refused block closes the connection it came on: what follows up to the
\* next hello is not read, and the session is dead.
CloseConnection(n, p) ==
    LET rest == inbox[n][p]
        hellos == { i \in DOMAIN rest : rest[i].kind = "Hello" }
    IN  /\ inbox' = [inbox EXCEPT ![n][p] =
                       IF hellos = {} THEN <<>> ELSE SubSeq(rest, Min(hellos), Len(rest))]
        /\ peers' = IF Session(p, n) = "up" THEN SetSession(p, n, "dead") ELSE peers

\* The announced block, once more after the sync.
RetryBlock(n) ==
    /\ InHandler(n, {"Retry"})
    /\ LET task == Head(todo[n])
           h == task.height
           tip == Max({chain[n], h})
       IN  IF h <= chain[n] + 1
             THEN /\ chain' = [chain EXCEPT ![n] = tip]
                  /\ GoOn(n, Relays(n, <<h>>, task.previous, tip, {task.peer}))
                  /\ UNCHANGED <<inbox, peers>>
             ELSE /\ CloseConnection(n, task.peer)
                  /\ GoOn(n, <<>>)
                  /\ UNCHANGED chain
    /\ UNCHANGED <<up, rows, faults>>

------------------------------------------------------------------------------
(***************************************************************************)
(* The events of an idle event loop.                                       *)
(***************************************************************************)
Receives(n, p, kind) ==
    /\ Idle(n)
    /\ inbox[n][p] # <<>>
    /\ Head(inbox[n][p]).kind = kind

Consume(n, p) == inbox' = [inbox EXCEPT ![n][p] = Tail(@)]

Answer(p, live, h) ==
    wait' = IF live THEN [wait EXCEPT ![p].state = "told", ![p].height = h] ELSE wait

\* Deliberate fault: the answer tells the tip just learned.
handle_peer_hello_Fault(n, p) ==
    /\ Receives(n, p, "Hello")
    /\ LET m == Head(inbox[n][p])
       IN  /\ update_persisted_peer(n, p, RecordTip(n, p, m.height))
           /\ Answer(p, m.live, Max({chain[n], m.height}))
    /\ Consume(n, p)
    /\ UNCHANGED <<chain, up, todo, faults>>

handle_peer_hello(n, p) ==
    /\ Receives(n, p, "Hello")
    /\ LET m == Head(inbox[n][p])
       IN  /\ update_persisted_peer(n, p, RecordTip(n, p, m.height))
           /\ Answer(p, m.live, chain[n])
    /\ Consume(n, p)
    /\ UNCHANGED <<chain, up, todo, faults>>

handle_peer_get_tip(n, p) ==
    /\ Receives(n, p, "GetTip")
    /\ Answer(p, TRUE, chain[n])
    /\ Consume(n, p)
    /\ UNCHANGED <<chain, up, peers, rows, todo, faults>>

handle_peer_get_block(n, p) ==
    /\ Receives(n, p, "GetBlocks")
    /\ Answer(p, TRUE, Head(inbox[n][p]).height)
    /\ Consume(n, p)
    /\ UNCHANGED <<chain, up, peers, rows, todo, faults>>

\* try_handle_announced_block_with_sync up to the sync.
handle_peer_announce_block(n, p) ==
    /\ Receives(n, p, "AnnounceBlock")
    /\ LET h == Head(inbox[n][p]).height
           known == h <= chain[n]
       IN  \/ /\ h > chain[n] + 1
              /\ GoOn(n, <<Poll(p, "Block"), Retry(p, h, chain[n])>>)
              /\ UNCHANGED chain
           \/ /\ h <= chain[n] + 1
              /\ chain' = [chain EXCEPT ![n] = IF known THEN @ ELSE h]
              /\ GoOn(n, IF known THEN <<>> ELSE Relays(n, <<h>>, chain[n], h, {p}))
    /\ Consume(n, p)
    /\ UNCHANGED <<up, peers, rows, faults>>

\* The tip is recorded, and the peer task sends the TipSync event before it
\* reads on.
handle_peer_announce_tip(n, p) ==
    /\ Receives(n, p, "AnnounceTip")
    /\ LET h == Head(inbox[n][p]).height
       IN  /\ update_persisted_peer(n, p, RecordTip(n, p, h))
           /\ inbox' = [inbox EXCEPT ![n][p] = <<Message("TipSync", h)>> \o Tail(@)]
    /\ UNCHANGED <<chain, up, todo, wait, faults>>

handle_tip_sync(n, p) ==
    /\ Receives(n, p, "TipSync")
    /\ LET h == Head(inbox[n][p]).height
       IN  IF tip_summary_advances_local_state(n, h) /\ peers[n][p].hint # h
             THEN /\ peers' = [peers EXCEPT ![n][p].hint = h]
                  /\ GoOn(n, <<Fetch(p, "TipSync", h)>>)
             ELSE UNCHANGED <<peers, todo, wait>>
    /\ Consume(n, p)
    /\ UNCHANGED <<chain, up, rows, faults>>

\* What sync_known_peers_best_effort has to do.
sync_known_peers_best_effort(n) ==
    SetToSeq({ Poll(p, "Tick") : p \in select_sync_peers(n, peers[n]) })

\* The timer's event comes after those before it in the queue.
handle_sync_tick(n) ==
    /\ Idle(n)
    /\ \A p \in Nodes : inbox[n][p] = <<>>
    /\ GoOn(n, sync_known_peers_best_effort(n))
    /\ peers' = [peers EXCEPT ![n] = [p \in DOMAIN @ |->
                   [@[p] EXCEPT !.cooldown = IF @ = 2 THEN 1 ELSE @]]]
    /\ UNCHANGED <<chain, up, rows, inbox, faults>>

\* Nobody has anything to do or to wait for.
Quiet == \A n, p \in Nodes : todo[n] = <<>> /\ inbox[n][p] = <<>>

\* The last contacts before the last tick are CONFIGURED_PEER_SYNC_COOLDOWN
\* ago: longer than what was going on then takes.
CooldownEnds(n) ==
    /\ Idle(n) /\ Quiet
    /\ \E p \in DOMAIN peers[n] : peers[n][p].cooldown = 1
    /\ peers' = [peers EXCEPT ![n] = [p \in DOMAIN @ |->
                   [@[p] EXCEPT !.cooldown = IF @ = 1 THEN 0 ELSE @]]]
    /\ UNCHANGED <<chain, up, rows, todo, wait, inbox, faults>>

\* handle_mined_candidate: a node with the highest tip extends it.
handle_mined_candidate(n) ==
    /\ Idle(n)
    /\ \A p \in Nodes : chain[p] <= chain[n]
    /\ faults.blocks > 0
    /\ faults' = [faults EXCEPT !.blocks = @ - 1]
    /\ chain' = [chain EXCEPT ![n] = @ + 1]
    /\ GoOn(n, Relays(n, <<chain[n] + 1>>, chain[n], chain[n] + 1, {}))
    /\ UNCHANGED <<up, peers, rows, inbox>>

------------------------------------------------------------------------------
(***************************************************************************)
(* Sessions and servers that end.                                          *)
(***************************************************************************)

\* serve_inner: the first event is the bootstrap sync.
Start(n) ==
    /\ ~up[n]
    /\ up' = [up EXCEPT ![n] = TRUE]
    /\ todo' = [todo EXCEPT ![n] = sync_known_peers_best_effort(n)]
    /\ UNCHANGED <<chain, peers, rows, wait, inbox, faults>>

\* Its sockets close and its memory is gone; chain and table are kept.
Stop(n) ==
    /\ up[n]
    /\ faults.stops > 0
    /\ faults' = [faults EXCEPT !.stops = @ - 1]
    /\ up' = [up EXCEPT ![n] = FALSE]
    /\ GoOn(n, <<>>)
    /\ peers' = [p \in Nodes |->
                   IF p = n THEN SeedPeers(n)
                   ELSE [q \in DOMAIN peers[p] |->
                           IF q = n /\ peers[p][q].session = "up"
                             THEN [peers[p][q] EXCEPT !.session = "dead"]
                             ELSE peers[p][q]]]
    /\ inbox' = [p \in Nodes |->
                   [q \in Nodes |->
                      IF p = n THEN <<>> ELSE IF q = n THEN Abandon(inbox[p][q])
                                              ELSE inbox[p][q]]]
    /\ UNCHANGED <<chain, rows>>

------------------------------------------------------------------------------
Handler(n) ==
    \/ Connect(n) \/ Request(n) \/ announce_to_peer(n) \/ TakeAnswer(n)
    \/ RetryBlock(n)

PeerEvent(n, p) ==
    \/ handle_peer_hello(n, p) \/ handle_peer_get_tip(n, p)
    \/ handle_peer_get_block(n, p) \/ handle_peer_announce_block(n, p)
    \/ handle_peer_announce_tip(n, p) \/ handle_tip_sync(n, p)

\* What the event loop of a node comes to by itself.
EventLoop(n) ==
    \/ Handler(n) \/ Timeout(n, TRUE) \/ handle_sync_tick(n) \/ CooldownEnds(n)
    \/ \E p \in Nodes : PeerEvent(n, p)

Next ==
    \E n \in Nodes :
       EventLoop(n) \/ Timeout(n, FALSE) \/ handle_mined_candidate(n) \/ Start(n) \/ Stop(n)

\* Every event loop goes on: it handles what is in its queue, and waits end.
\* The tick is an event in the same queue and gets its turn, and time passes.
Fairness ==
    \A n \in Nodes :
       /\ WF_vars(EventLoop(n))
       /\ SF_vars(handle_sync_tick(n))
       /\ SF_vars(CooldownEnds(n))

Spec == Init /\ [][Next]_vars /\ Fairness

------------------------------------------------------------------------------
\* What a node records of a peer, in memory and in its table, the peer really
\* has or had: through hellos handled after their sender gave up, restarts,
\* and failed connects that bring an old row back
\* (record_inbound_hello, update_persisted_peer).
AdvertisedIsReached ==
    \A n, p \in Nodes :
       /\ p \in DOMAIN peers[n] => peers[n][p].height <= chain[p]
       /\ p \in DOMAIN rows[n] => rows[n][p] <= chain[p]

\* Every handler ends, although event loops wait for one another in circles
\* and for nodes that are gone: no deadlock of event loops, and no endless
\* redialing (connect_peer, request_tip_from_peer,
\* announce_to_peer_best_effort).
HandlersEnd == \A n \in Nodes : todo[n] # <<>> ~> todo[n] = <<>>

\* The node knows of a running peer that has more.
IsToldOfMore(n) ==
    /\ up[n]
    /\ \E p \in DOMAIN peers[n] :
          IsUp(p) /\ tip_summary_advances_local_state(n, peers[n][p].height)

\* A node that has been told of a higher tip by a running peer catches up with
\* it, also when a peer that is gone advertises more and is tried first
\* (select_sync_peers, record_peer_connect_failure).
ToldNodesCatchUp == \A n \in Nodes : IsToldOfMore(n) ~> ~IsToldOfMore(n)

\* "a lightweight periodic sync loop rechecks learned peers and catches up
\* lagging nodes" (protocol.md): once every node runs and one has the highest
\* block, every node gets it (handle_sync_tick, select_sync_peers).
LaggingNodesConverge ==
    \A n \in Nodes :
       (\A p \in Nodes : up[p]) /\ (\E p \in Nodes : chain[p] = MaxHeight)
         ~> (chain[n] = MaxHeight \/ \E p \in Nodes : ~up[p])
==============================================================================
