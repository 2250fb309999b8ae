------------------------------- MODULE PeerSync -------------------------------
(***************************************************************************)
(* A node that catches up with one peer, src/src/server.rs and             *)
(* src/src/peer.rs: what it remembers of the peer, the session it sends    *)
(* requests on, and the walk from the peer's tip down to a known block.    *)
(*                                                                         *)
(* The event loop of the node blocks while it waits for an answer.  The    *)
(* peer task that owns the socket matches answers with the request in      *)
(* flight by their kind, and hands everything else to the event loop.      *)
(* Both sides give up after two seconds: a wait may end with an error at   *)
(* any time, at most MaxFailures times, while a wait that nothing can end  *)
(* always times out.                                                       *)
(*                                                                         *)
(* Of either node only the chain index is kept.  The blocks of this module *)
(* apply, and a node's index takes such a block exactly as insert_block    *)
(* does (NodeRefinement).                                                  *)
(***************************************************************************)
EXTENDS ChainIndex

CONSTANTS
    MaxFailures,       \* bound: connects and requests that fail without need
    MaxAnnouncements   \* bound: messages of the peer on their way

ASSUME PeerSyncAssumption == MaxFailures \in Nat /\ MaxAnnouncements \in Nat

VARIABLES
    local,          \* chain index of the node that catches up
    remote,         \* chain index of the peer
    peer,           \* RuntimePeer of the peer: [advertised, hint, ready]
    session,        \* [state, pending, requests, replies] of its peer task
    walk,           \* what the event loop is waiting for
    announcements,  \* messages of the peer that have not been handled
    follow_up,      \* the TipSync event, or NoSummary
    failures,
    gave_up         \* history: some request has failed on both attempts

counts == <<failures, gave_up>>

vars == <<local, remote, peer, session, walk, announcements, follow_up, counts>>

NoHeight == -1
NoSummary == [tip |-> NoHash, height |-> NoHeight]

tip_summary(n) ==
    IF n.best_tip = NoHash
      THEN NoSummary
      ELSE [tip |-> n.best_tip, height |-> n.entries[n.best_tip].height]

\* Option::unwrap_or(0) of a height.
HeightOf(s) == IF s.height = NoHeight THEN 0 ELSE s.height

\* get_block finds a body.
Knows(n, h) == IsIndexed(n, h)

\* accept_block on a block that applies once its parent is known.
accept_block(n, b) == [err |-> insert_block_error(n, b), node |-> insert_block(n, b)]

NoSession == [state |-> "none", pending |-> "None", requests |-> <<>>, replies |-> <<>>]

Tick == [kind |-> "Tick"]
TipSync == [kind |-> "TipSync"]
AnnouncedBlock(b) == [kind |-> "AnnounceBlock", block |-> b]

\* pc is the request to make or to wait for.
Walk(job, pc, next, missing) ==
    [job |-> job, pc |-> pc, next |-> next, missing |-> missing,
     attempt |-> 0, waiting |-> FALSE]

NoWalk == Walk(Tick, "idle", NoHash, <<>>)

Idle == walk = NoWalk

Init ==
    /\ local = EmptyChain
    /\ remote = EmptyChain
    /\ peer = [advertised |-> NoSummary, hint |-> NoSummary, ready |-> TRUE]
    /\ session = NoSession
    /\ walk = NoWalk
    /\ announcements = <<>>
    /\ follow_up = NoSummary
    /\ failures = 0
    /\ gave_up = FALSE

------------------------------------------------------------------------------
(***************************************************************************)
(* The walk.                                                               *)
(***************************************************************************)

\* accept_synced_block for each fetched block, the last fetched first, up to
\* the first error.
AcceptSegment(n, missing) ==
    FoldLeft(LAMBDA acc, b : IF acc.err # "None" \/ Knows(acc.node, b.hash)
                               THEN acc
                               ELSE accept_block(acc.node, b),
             [err |-> "None", node |-> n], Reverse(missing))

\* The end of a walk that leaves the node n and the peer record p.  A failed
\* periodic sync starts the cooldown; an announced block is tried again, and
\* if it is still refused its connection is closed.
EndWalk(job, n, p, ok) ==
    /\ walk' = NoWalk
    /\ \/ /\ job = Tick
          /\ local' = n
          /\ peer' = [p EXCEPT !.ready = @ /\ ok]
          /\ UNCHANGED announcements
       \/ /\ job = TipSync
          /\ local' = n
          /\ peer' = p
          /\ UNCHANGED announcements
       \/ /\ job.kind = "AnnounceBlock"
          /\ LET retried == accept_block(n, job.block)
             IN  /\ local' = retried.node
                 /\ announcements' = IF retried.err = "None" THEN announcements
                                                             ELSE <<>>
          /\ peer' = p

GoOn(w, p) == walk' = w /\ peer' = p /\ UNCHANGED <<local, announcements>>

\* sync_to_advertised_tip up to its first request.
sync_to_advertised_tip(job, p, summary) ==
    IF summary.tip = NoHash \/ Knows(local, summary.tip)
      THEN EndWalk(job, local, p, TRUE)
      ELSE GoOn(Walk(job, "Block", summary.tip, <<>>), p)

\* The answer to get_tip.
TakeTip(summary) ==
    sync_to_advertised_tip(walk.job, [peer EXCEPT !.advertised = summary], summary)

\* The answer to get_block: a set of at most one block.
TakeBlock(body) ==
    \/ /\ body = {}
       /\ EndWalk(walk.job, local, peer, FALSE)
    \/ \E b \in body :
         LET missing == Append(walk.missing, b)
             accepted == AcceptSegment(local, missing)
         IN  IF b.prev_blockhash = DefaultHash \/ Knows(local, b.prev_blockhash)
               THEN EndWalk(walk.job, accepted.node, peer, accepted.err = "None")
               ELSE GoOn(Walk(walk.job, "Block", b.prev_blockhash, missing), peer)

\* Deliberate fault: the second attempt is made on the same session.
RequestFailed_Fault(s) ==
    /\ IF walk.attempt = 0
         THEN /\ GoOn([walk EXCEPT !.attempt = 1, !.waiting = FALSE], peer)
              /\ UNCHANGED gave_up
         ELSE /\ EndWalk(walk.job, local, peer, FALSE)
              /\ gave_up' = TRUE
    /\ session' = s

\* A request fails and leaves the session s.  The first time the session is
\* given up for a new one; the second time the walk ends and s stays.
RequestFailed(s) ==
    IF walk.attempt = 0
      THEN /\ GoOn([walk EXCEPT !.attempt = 1, !.waiting = FALSE], peer)
           /\ session' = NoSession
           /\ UNCHANGED gave_up
      ELSE /\ EndWalk(walk.job, local, peer, FALSE)
           /\ session' = s
           /\ gave_up' = TRUE

\* One of the failures the bound allows.
Fails == failures < MaxFailures /\ failures' = failures + 1

\* ensure_peer_connected without a session: the handshake, in which the peer
\* tells its tip; an error ends the walk at once.
Connect ==
    /\ ~Idle
    /\ session = NoSession
    /\ \/ /\ session' = [NoSession EXCEPT !.state = "up"]
          /\ GoOn(walk, [peer EXCEPT !.advertised = tip_summary(remote),
                                     !.ready = FALSE])
          /\ UNCHANGED failures
       \/ /\ Fails
          /\ EndWalk(walk.job, local, [peer EXCEPT !.ready = FALSE], FALSE)
          /\ UNCHANGED session
    /\ UNCHANGED <<remote, follow_up, gave_up>>

\* request_tip and request_block.  A task that waits for the event loop does
\* not see the command; one with a request in flight refuses it.
Request ==
    /\ ~Idle
    /\ ~walk.waiting
    /\ session # NoSession
    /\ \/ /\ session.state = "up"
          /\ session.pending = "None"
          /\ session' = [session EXCEPT
                           !.pending = walk.pc,
                           !.requests = Append(@, [kind |-> walk.pc,
                                                   hash |-> walk.next])]
          /\ GoOn([walk EXCEPT !.waiting = TRUE], peer)
          /\ UNCHANGED gave_up
       \/ /\ session.state = "forwarding"
          /\ GoOn([walk EXCEPT !.waiting = TRUE], peer)
          /\ UNCHANGED <<session, gave_up>>
       \/ /\ \/ session.state = "dead"
             \/ session.state = "up" /\ session.pending # "None"
          /\ RequestFailed(session)
    /\ UNCHANGED <<remote, follow_up, failures>>

\* The task can still complete the request the event loop waits for.
MayComplete == session.state = "up" /\ session.pending = walk.pc

\* Deliberate fault: the wait has no timeout of its own.
RequestTimeout_Fault ==
    /\ walk.waiting
    /\ MayComplete
    /\ Fails
    /\ RequestFailed(session)
    /\ UNCHANGED <<remote, follow_up>>

\* recv_timeout: the task keeps the request, and the answer will come late.
RequestTimeout ==
    /\ walk.waiting
    /\ IF MayComplete THEN Fails ELSE UNCHANGED failures
    /\ RequestFailed(session)
    /\ UNCHANGED <<remote, follow_up>>

------------------------------------------------------------------------------
(***************************************************************************)
(* The peer task of the session, and the peer.                             *)
(***************************************************************************)

\* The deadline of the request in flight; the event loop may be waiting for
\* it or have given up already.
PendingExpires ==
    /\ session.state = "up"
    /\ session.pending # "None"
    /\ LET expired == [session EXCEPT !.pending = "None"]
       IN  IF walk.waiting
             THEN Fails /\ RequestFailed(expired)
             ELSE /\ session' = expired
                  /\ UNCHANGED <<local, peer, walk, announcements, counts>>
    /\ UNCHANGED <<remote, follow_up>>

\* The connection breaks, or nothing has been read for two seconds.
SessionEnds ==
    /\ session.state = "up"
    /\ LET dead == [NoSession EXCEPT !.state = "dead"]
       IN  IF walk.waiting
             THEN Fails /\ RequestFailed(dead)
             ELSE /\ Idle
                  /\ session' = dead
                  /\ UNCHANGED <<local, peer, walk, announcements, counts>>
    /\ UNCHANGED <<remote, follow_up>>

\* The peer answers get_tip and get_block in the order it reads them.
Serve ==
    /\ session.requests # <<>>
    /\ LET request == Head(session.requests)
           body == { b \in Blocks : b.hash = request.hash /\ Knows(remote, b.hash) }
           answer == IF request.kind = "Tip"
                       THEN [kind |-> "Tip", summary |-> tip_summary(remote)]
                       ELSE [kind |-> "Block", body |-> body]
       IN  session' = [session EXCEPT !.requests = Tail(@),
                                      !.replies = Append(@, answer)]
    /\ UNCHANGED <<local, remote, peer, walk, announcements, follow_up, counts>>

\* handle_inbound_message: an answer of the kind of the request in flight
\* completes it; any other waits for the event loop.
ReadAnswer ==
    /\ session.state = "up"
    /\ session.replies # <<>>
    /\ LET answer == Head(session.replies)
           read == [session EXCEPT !.replies = Tail(@)]
       IN  IF answer.kind # session.pending
             THEN /\ session' = [read EXCEPT !.state = "forwarding"]
                  /\ UNCHANGED <<local, peer, walk, announcements>>
             ELSE /\ session' = [read EXCEPT !.pending = "None"]
                  /\ \/ ~walk.waiting /\ UNCHANGED <<local, peer, walk, announcements>>
                     \/ walk.waiting /\ answer.kind = "Tip" /\ TakeTip(answer.summary)
                     \/ walk.waiting /\ answer.kind = "Block" /\ TakeBlock(answer.body)
    /\ UNCHANGED <<remote, follow_up, counts>>

\* The peer accepts a block and relays it, and its tip if that has changed,
\* each on a best-effort basis, after a hello if it has to reconnect.
RemoteAccept(b) ==
    LET accepted == accept_block(remote, b)
        new == tip_summary(accepted.node)
        MaybeOneOf(S) == { <<>> } \cup { <<m>> : m \in S }
    IN  /\ ~Knows(remote, b.hash)
        /\ remote' = accepted.node
        /\ IF accepted.err # "None"
             THEN UNCHANGED announcements
             ELSE \E hello \in MaybeOneOf({[kind |-> "Hello", summary |-> new]}),
                     block \in MaybeOneOf({AnnouncedBlock(b)}),
                     tip \in MaybeOneOf({ [kind |-> "AnnounceTip", summary |-> s] :
                                            s \in {new} \ {tip_summary(remote)} }) :
                    /\ announcements' = announcements \o hello \o block \o tip
                    /\ Len(announcements') <= MaxAnnouncements
        /\ UNCHANGED <<local, peer, session, walk, follow_up, counts>>

------------------------------------------------------------------------------
(***************************************************************************)
(* The events that make the node catch up.                                 *)
(***************************************************************************)
tip_summary_advances_local_state(summary) ==
    \/ summary.tip # NoHash /\ ~Knows(local, summary.tip)
    \/ HeightOf(summary) > HeightOf(tip_summary(local))

\* Deliberate fault: only a greater height makes a peer worth a sync.
select_sync_peers_Fault ==
    /\ peer.ready
    /\ \/ HeightOf(peer.advertised) > HeightOf(tip_summary(local))
       \/ peer.advertised.height = NoHeight

\* The peer is selected for the periodic sync: it is ahead, its tip is not
\* known here, or nothing is known of it.
select_sync_peers ==
    /\ peer.ready
    /\ \/ tip_summary_advances_local_state(peer.advertised)
       \/ peer.advertised.height = NoHeight

handle_sync_tick ==
    /\ Idle
    /\ select_sync_peers
    /\ walk' = Walk(Tick, "Tip", NoHash, <<>>)
    /\ UNCHANGED <<local, remote, peer, session, announcements, follow_up, counts>>

\* The peer has not been contacted for CONFIGURED_PEER_SYNC_COOLDOWN.
CooldownEnds ==
    /\ ~peer.ready
    /\ peer' = [peer EXCEPT !.ready = TRUE]
    /\ UNCHANGED <<local, remote, session, walk, announcements, follow_up, counts>>

\* The event loop turns to the next announcement; the TipSync event of an
\* earlier one comes first.
NextAnnouncement(kind) ==
    /\ Idle
    /\ follow_up = NoSummary
    /\ announcements # <<>>
    /\ Head(announcements).kind = kind

handle_peer_hello ==
    /\ NextAnnouncement("Hello")
    /\ peer' = [peer EXCEPT !.advertised = Head(announcements).summary]
    /\ announcements' = Tail(announcements)
    /\ UNCHANGED <<local, remote, session, walk, follow_up, counts>>

handle_peer_announce_tip ==
    /\ NextAnnouncement("AnnounceTip")
    /\ peer' = [peer EXCEPT !.advertised = Head(announcements).summary]
    /\ follow_up' = Head(announcements).summary
    /\ announcements' = Tail(announcements)
    /\ UNCHANGED <<local, remote, session, walk, counts>>

\* The hint is remembered before the sync, whatever becomes of it.
handle_tip_sync ==
    /\ Idle
    /\ follow_up # NoSummary
    /\ IF tip_summary_advances_local_state(follow_up) /\ peer.hint # follow_up
         THEN sync_to_advertised_tip(TipSync, [peer EXCEPT !.hint = follow_up],
                                     follow_up)
         ELSE GoOn(walk, peer)
    /\ follow_up' = NoSummary
    /\ UNCHANGED <<remote, session, counts>>

\* try_handle_announced_block_with_sync
handle_peer_announce_block ==
    /\ NextAnnouncement("AnnounceBlock")
    /\ LET b == Head(announcements).block
           accepted == accept_block(local, b)
           orphan == /\ accepted.err \in {"MissingParent", "GenesisHasParent"}
                     /\ b.prev_blockhash # DefaultHash
       IN  /\ local' = accepted.node
           /\ walk' = IF orphan THEN Walk(AnnouncedBlock(b), "Tip", NoHash, <<>>)
                                ELSE walk
           /\ announcements' = IF accepted.err = "None" \/ orphan
                                 THEN Tail(announcements) ELSE <<>>
    /\ UNCHANGED <<remote, peer, session, follow_up, counts>>

\* The event loop ignores an answer nobody waits for, and the task goes on.
ForwardedAnswer ==
    /\ Idle
    /\ session.state = "forwarding"
    /\ session' = [session EXCEPT !.state = "up"]
    /\ UNCHANGED <<local, remote, peer, walk, announcements, follow_up, counts>>

EventLoop ==
    \/ Connect \/ Request
    \/ handle_peer_hello \/ handle_peer_announce_tip \/ handle_tip_sync
    \/ handle_peer_announce_block \/ ForwardedAnswer

Next ==
    \/ EventLoop \/ RequestTimeout \/ handle_sync_tick \/ CooldownEnds
    \/ PendingExpires \/ SessionEnds \/ ReadAnswer
    \/ Serve \/ \E b \in Blocks : RemoteAccept(b)

\* The event loop serves its queue, the timer ticks, waits end, the peer
\* answers and both tasks read.
Fairness ==
    /\ WF_vars(EventLoop)
    /\ WF_vars(RequestTimeout)
    /\ WF_vars(handle_sync_tick)
    /\ WF_vars(CooldownEnds)
    /\ WF_vars(ReadAnswer)
    /\ WF_vars(Serve)

Spec == Init /\ [][Next]_vars /\ Fairness

------------------------------------------------------------------------------
\* A session owes only the answer in flight, and one more if a walk has given
\* up on it: it is dropped before late answers pile up
\* (request_tip_from_peer, request_block_from_peer, handle_peer_command).
LateAnswersBounded ==
    Len(session.requests) + Len(session.replies) <= IF gave_up THEN 2 ELSE 1

\* Unless a request has failed on both attempts, what has been fetched is one
\* segment: each block is the parent of the one before, and the block asked
\* for next is the parent of the last (sync_to_advertised_tip checks no
\* hash, try_complete_pending_request matches answers by kind only).
SegmentIsConnected ==
    (~gave_up /\ walk.pc = "Block") =>
        LET m == walk.missing
        IN  /\ \A i \in 1..(Len(m) - 1) : m[i].prev_blockhash = m[i + 1].hash
            /\ m # <<>> => m[Len(m)].prev_blockhash = walk.next

\* A walk ends: the event loop never waits for ever for a task that waits
\* for the event loop, and never walks in a circle (recv_timeout).
WalksEnd == ~Idle ~> Idle

\* Unless a request has failed on both attempts, a tip the peer advertised
\* and keeps is fetched in the end, also one that is not higher, and also
\* when the sync its announcement started failed and its hint is spent
\* (select_sync_peers, handle_tip_sync).
AdvertisedTipIsFetched ==
    LET current == peer.advertised = tip_summary(remote)
    IN  (current /\ peer.advertised # NoSummary /\ announcements = <<>>)
          ~> (Knows(local, peer.advertised.tip) \/ ~current \/ gave_up)
==============================================================================
