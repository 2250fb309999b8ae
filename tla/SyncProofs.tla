------------------------------ MODULE SyncProofs ------------------------------
(***************************************************************************)
(* How many answers a session may owe, and that what a walk fetches is one *)
(* segment, for every set of blocks, every number of failures and every    *)
(* number of announcements.  The chain indexes are never looked into.      *)
(***************************************************************************)
EXTENDS PeerSync, SequenceTheorems, TLAPS

IsSeq(s) == \E S : s \in Seq(S)

IsSession(s) ==
    /\ s = [state |-> s.state, pending |-> s.pending,
            requests |-> s.requests, replies |-> s.replies]
    /\ IsSeq(s.requests)
    /\ IsSeq(s.replies)

IsWalk ==
    /\ walk = [job |-> walk.job, pc |-> walk.pc, next |-> walk.next,
               missing |-> walk.missing, attempt |-> walk.attempt,
               waiting |-> walk.waiting]
    /\ walk.pc \in {"idle", "Tip", "Block"}
    /\ walk.pc = "idle" => walk = NoWalk
    /\ walk.waiting \in BOOLEAN
    /\ walk.attempt \in {0, 1}
    /\ IsSeq(walk.missing)

OwedBy(s) == Len(s.requests) + Len(s.replies)

Owed == OwedBy(session)

Settled(s) == /\ s.state # "forwarding"
              /\ s.pending = "None"
              /\ s.requests = <<>>
              /\ s.replies = <<>>

\* A second attempt starts on a session that owes nothing, so a session that
\* outlives a walk owes at most one answer.
OwedOk ==
    /\ Owed <= 2
    /\ session.pending = "None" => Owed <= 1
    /\ ~walk.waiting => Owed <= 1
    /\ walk.attempt = 1 =>
         Owed <= 1 /\ ((session.pending = "None" \/ ~walk.waiting) => Owed = 0)

\* Before any request has failed twice, the only answer on its way is the one
\* the event loop waits for.
InStep ==
    /\ session.state # "forwarding"
    /\ session.pending = "None" => session.requests = <<>> /\ session.replies = <<>>
    /\ session.pending # "None" =>
         /\ walk.waiting
         /\ session.pending = walk.pc
         /\ \/ /\ session.replies = <<>>
               /\ session.requests = << [kind |-> walk.pc, hash |-> walk.next] >>
            \/ /\ session.requests = <<>>
               /\ Len(session.replies) = 1
               /\ session.replies[1].kind = walk.pc
               /\ walk.pc = "Block" =>
                    \A b \in session.replies[1].body : b.hash = walk.next

SyncInv ==
    /\ IsSession(session)
    /\ IsWalk
    /\ OwedOk
    /\ ~gave_up => InStep
    /\ SegmentIsConnected

------------------------------------------------------------------------------
\* The empty queue.
LEMMA EmptyIsSeq == IsSeq(<<>>) /\ Len(<<>>) = 0
<1>1. <<>> \in Seq({})
  OBVIOUS
<1>. QED
  BY <1>1 DEF IsSeq

\* A queue is empty exactly when its length is zero.
LEMMA SeqLen ==
    ASSUME NEW s, IsSeq(s)
    PROVE  Len(s) \in Nat /\ (Len(s) = 0 <=> s = <<>>)
<1>1. PICK S : s \in Seq(S)
  BY DEF IsSeq
<1>. QED
  BY <1>1, EmptySeq

\* A message is queued.
LEMMA SeqAppend ==
    ASSUME NEW s, IsSeq(s), NEW e
    PROVE  /\ IsSeq(Append(s, e))
           /\ Len(Append(s, e)) = Len(s) + 1
           /\ \A i \in 1..Len(s) : Append(s, e)[i] = s[i]
           /\ Append(s, e)[Len(s) + 1] = e
<1>1. PICK S : s \in Seq(S)
  BY DEF IsSeq
<1>. DEFINE T == S \cup {e}
<1>2. s \in Seq(T) /\ e \in T
  BY <1>1
<1>. HIDE DEF T
<1>3. /\ Append(s, e) \in Seq(T)
      /\ Len(Append(s, e)) = Len(s) + 1
      /\ \A i \in 1..Len(s) : Append(s, e)[i] = s[i]
      /\ Append(s, e)[Len(s) + 1] = e
  BY <1>2
<1>. QED
  BY <1>3 DEF IsSeq

\* A message is taken off a queue.
LEMMA SeqTail ==
    ASSUME NEW s, IsSeq(s), s # <<>>
    PROVE  IsSeq(Tail(s)) /\ Len(Tail(s)) = Len(s) - 1 /\ Head(s) = s[1] /\ Len(s) > 0
<1>1. PICK S : s \in Seq(S)
  BY DEF IsSeq
<1>2. /\ Tail(s) \in Seq(S) /\ Len(Tail(s)) = Len(s) - 1 /\ Head(s) = s[1] /\ Len(s) > 0
  BY <1>1
<1>. QED
  BY <1>2 DEF IsSeq

\* What a session owes is a number.
LEMMA OwedNat == ASSUME NEW s, IsSession(s) PROVE OwedBy(s) \in Nat
  BY SeqLen DEF IsSession, OwedBy

\* A walk that starts to wait, field by field.
LEMMA SetWaiting ==
    ASSUME NEW w, NEW new,
           w = [job |-> w.job, pc |-> w.pc, next |-> w.next, missing |-> w.missing,
                attempt |-> w.attempt, waiting |-> w.waiting]
    PROVE  [w EXCEPT !.waiting = new]
             = [job |-> w.job, pc |-> w.pc, next |-> w.next, missing |-> w.missing,
                attempt |-> w.attempt, waiting |-> new]
  OBVIOUS

\* No walk is under way.
LEMMA NoWalkFields ==
    /\ NoWalk.pc = "idle" /\ NoWalk.missing = <<>> /\ NoWalk.attempt = 0
    /\ NoWalk.waiting = FALSE
  BY DEF NoWalk, Walk

\* A session without messages owes nothing, whatever its state.
LEMMA NoSessionFields ==
    ASSUME NEW state
    PROVE  LET s == [NoSession EXCEPT !.state = state]
           IN  /\ IsSession(s) /\ OwedBy(s) = 0
               /\ s.state = state /\ s.pending = "None"
               /\ s.requests = <<>> /\ s.replies = <<>>
<1>1. [NoSession EXCEPT !.state = state]
        = [state |-> state, pending |-> "None", requests |-> <<>>, replies |-> <<>>]
  BY DEF NoSession
<1>. QED
  BY <1>1, EmptyIsSeq DEF NoSession, IsSession, OwedBy, Settled

\* Nor does a missing session.
LEMMA NoSessionOk == IsSession(NoSession) /\ OwedBy(NoSession) = 0 /\ Settled(NoSession)
  BY EmptyIsSeq DEF NoSession, IsSession, OwedBy, Settled

\* A walk that starts, ends or turns to the next block.
LEMMA FreshWalkInv ==
    ASSUME IsSession(session'), Owed' <= 1, ~gave_up' => Settled(session'),
           NEW job, NEW pc \in {"idle", "Tip", "Block"}, NEW next, NEW missing, IsSeq(missing),
           walk' = Walk(job, pc, next, missing), pc = "idle" => walk' = NoWalk,
           SegmentIsConnected'
    PROVE  SyncInv'
<1>1. /\ walk'.pc = pc /\ walk'.missing = missing /\ walk'.attempt = 0 /\ walk'.waiting = FALSE
      /\ walk' = [job |-> job, pc |-> pc, next |-> next, missing |-> missing,
                  attempt |-> 0, waiting |-> FALSE]
  BY DEF Walk
<1>2. IsWalk'
  BY <1>1 DEF IsWalk
<1>3. OwedOk'
  BY <1>1, OwedNat DEF OwedOk, Owed
<1>4. ~gave_up' => InStep'
  BY DEF InStep, Settled
<1>. QED
  BY <1>2, <1>3, <1>4 DEF SyncInv

\* A walk ends on a session that owes at most one answer.
LEMMA EndedWalkInv ==
    ASSUME IsSession(session'), Owed' <= 1, ~gave_up' => Settled(session'), walk' = NoWalk
    PROVE  SyncInv'
<1>1. SegmentIsConnected'
  BY NoWalkFields DEF SegmentIsConnected
<1>. QED
  BY <1>1, FreshWalkInv, EmptyIsSeq DEF NoWalk

\* A request fails: the first time the session goes, the second time the walk.
LEMMA RequestFailedInv ==
    ASSUME SyncInv, NEW s, RequestFailed(s), walk # NoWalk,
           walk.attempt = 1 => IsSession(s) /\ OwedBy(s) <= 1
    PROVE  SyncInv'
<1>1. CASE walk.attempt = 0
  <2>1. /\ walk' = [walk EXCEPT !.attempt = 1, !.waiting = FALSE]
        /\ session' = NoSession /\ gave_up' = gave_up
    BY <1>1 DEF RequestFailed, GoOn
  <2>2. walk' = [job |-> walk.job, pc |-> walk.pc, next |-> walk.next,
                 missing |-> walk.missing, attempt |-> 1, waiting |-> FALSE]
    <3>. DEFINE q == [walk EXCEPT !.attempt = 1]
    <3>1. q = [job |-> walk.job, pc |-> walk.pc, next |-> walk.next,
               missing |-> walk.missing, attempt |-> 1, waiting |-> walk.waiting]
      BY DEF SyncInv, IsWalk
    <3>2. walk' = [q EXCEPT !.waiting = FALSE]
      BY <2>1
    <3>. HIDE DEF q
    <3>. QED
      BY <3>1, <3>2
  <2>3. IsWalk'
    BY <2>2 DEF SyncInv, IsWalk
  <2>4. IsSession(session') /\ OwedBy(session') = 0 /\ Settled(session')
    BY <2>1, NoSessionOk
  <2>5. OwedOk' /\ InStep'
    BY <2>4 DEF OwedOk, Owed, InStep, Settled
  <2>6. SegmentIsConnected'
    BY <2>1, <2>2 DEF SyncInv, SegmentIsConnected
  <2>. QED
    BY <2>3, <2>4, <2>5, <2>6 DEF SyncInv
<1>2. CASE walk.attempt = 1
  <2>1. walk' = NoWalk /\ session' = s /\ gave_up' = TRUE
    BY <1>2 DEF RequestFailed, EndWalk
  <2>. QED
    BY <1>2, <2>1, EndedWalkInv DEF Owed
<1>. QED
  BY <1>1, <1>2 DEF SyncInv, IsWalk

------------------------------------------------------------------------------
\* At first there is neither a session nor a walk.
LEMMA SyncBegin == Init => SyncInv
<1>. SUFFICES ASSUME Init PROVE SyncInv
  OBVIOUS
<1>1. IsSession(session) /\ Owed = 0 /\ Settled(session)
  BY NoSessionOk DEF Init, Owed
<1>2. IsWalk /\ SegmentIsConnected
  BY EmptyIsSeq, NoWalkFields DEF Init, IsWalk, SegmentIsConnected, NoWalk, Walk
<1>. QED
  BY <1>1, <1>2, NoWalkFields DEF Init, SyncInv, OwedOk, InStep, Settled

\* A session is opened for a walk, or the connection fails.
LEMMA ConnectInv ==
    ASSUME SyncInv, Connect
    PROVE  SyncInv'
<1>1. session = NoSession /\ gave_up' = gave_up
  BY DEF Connect
<1>2. CASE /\ session' = [NoSession EXCEPT !.state = "up"]
           /\ walk' = walk
  <2>1. IsSession(session') /\ OwedBy(session') = 0 /\ Settled(session')
    BY <1>2, NoSessionFields DEF Settled
  <2>. QED
    BY <1>1, <1>2, <2>1
       DEF SyncInv, IsWalk, OwedOk, Owed, InStep, Settled, SegmentIsConnected
<1>3. CASE walk' = NoWalk /\ session' = session
  BY <1>1, <1>3, NoSessionOk, EndedWalkInv DEF Owed
<1>. QED
  BY <1>2, <1>3 DEF Connect, GoOn, EndWalk

\* A request is sent, or refused by a session that is busy or has ended.
LEMMA RequestInv ==
    ASSUME SyncInv, Request
    PROVE  SyncInv'
<1>0. /\ walk # NoWalk /\ walk.waiting = FALSE /\ session # NoSession
      /\ IsSession(session) /\ IsWalk
      /\ walk.pc \in {"Tip", "Block"}
  BY DEF Request, Idle, SyncInv, IsWalk
<1>. DEFINE w == [job |-> walk.job, pc |-> walk.pc, next |-> walk.next,
                  missing |-> walk.missing, attempt |-> walk.attempt, waiting |-> TRUE]
<1>1. [walk EXCEPT !.waiting = TRUE] = w
  <2>. DEFINE yes == TRUE
  <2>1. walk = [job |-> walk.job, pc |-> walk.pc, next |-> walk.next,
                missing |-> walk.missing, attempt |-> walk.attempt,
                waiting |-> walk.waiting]
    BY <1>0 DEF IsWalk
  <2>. HIDE DEF yes
  <2>2. [walk EXCEPT !.waiting = yes]
          = [job |-> walk.job, pc |-> walk.pc, next |-> walk.next,
             missing |-> walk.missing, attempt |-> walk.attempt, waiting |-> yes]
    BY <2>1, SetWaiting, Zenon
  <2>. QED
    BY <2>2 DEF yes
<1>2. CASE /\ session.state = "up" /\ session.pending = "None"
           /\ session' = [session EXCEPT
                            !.pending = walk.pc,
                            !.requests = Append(@, [kind |-> walk.pc, hash |-> walk.next])]
           /\ walk' = w /\ gave_up' = gave_up
  <2>. DEFINE r == [kind |-> walk.pc, hash |-> walk.next]
              q == [session EXCEPT !.pending = walk.pc]
  <2>1. q = [state |-> session.state, pending |-> walk.pc,
             requests |-> session.requests, replies |-> session.replies]
    BY <1>0 DEF IsSession
  <2>2. session' = [q EXCEPT !.requests = Append(session.requests, r)]
    BY <1>0, <1>2 DEF IsSession
  <2>. HIDE DEF q
  <2>3. session' = [state |-> session.state, pending |-> walk.pc,
                    requests |-> Append(session.requests, r), replies |-> session.replies]
    BY <2>1, <2>2
  <2>4. /\ IsSeq(session.requests) /\ IsSeq(session.replies)
        /\ IsSeq(Append(session.requests, r))
        /\ Len(Append(session.requests, r)) = Len(session.requests) + 1
        /\ Len(session.requests) \in Nat /\ Len(session.replies) \in Nat
    BY <1>0, SeqAppend, SeqLen DEF IsSession
  <2>. HIDE DEF r
  <2>10. /\ session' = [state |-> session'.state, pending |-> session'.pending,
                        requests |-> session'.requests, replies |-> session'.replies]
         /\ session'.state = "up" /\ session'.pending = walk.pc
         /\ session'.requests = Append(session.requests, r)
         /\ session'.replies = session.replies
    <3>1. session.state = "up"
      BY <1>2
    <3>. DEFINE rq == Append(session.requests, r)
    <3>. HIDE DEF rq
    <3>2. session' = [state |-> "up", pending |-> walk.pc,
                      requests |-> rq, replies |-> session.replies]
      BY <2>3, <3>1 DEF rq
    <3>3. /\ session'.state = "up" /\ session'.pending = walk.pc
          /\ session'.requests = rq /\ session'.replies = session.replies
      BY <3>2
    <3>. QED
      BY <3>2, <3>3 DEF rq
  <2>5. IsSession(session') /\ OwedBy(session') = OwedBy(session) + 1
    <3>1. IsSession(session')
      BY <2>4, <2>10 DEF IsSession
    <3>2. /\ Len(session'.requests) = Len(session.requests) + 1
          /\ Len(session'.replies) = Len(session.replies)
      BY <2>4, <2>10, Zenon
    <3>. DEFINE a == Len(session.requests)
                b == Len(session.replies)
    <3>3. a \in Nat /\ b \in Nat
      BY <2>4
    <3>. HIDE DEF a, b
    <3>4. (a + 1) + b = (a + b) + 1
      BY <3>3
    <3>. QED
      BY <3>1, <3>2, <3>4, Zenon DEF OwedBy, a, b
  <2>6. IsWalk'
    BY <1>0, <1>2 DEF IsWalk
  <2>7. OwedOk'
    BY <1>0, <1>2, <2>5, <2>10, OwedNat DEF SyncInv, OwedOk, Owed
  <2>8. ~gave_up' => InStep'
    <3>. SUFFICES ASSUME ~gave_up PROVE InStep'
      BY <1>2
    <3>1. session.requests = <<>> /\ session.replies = <<>>
      BY <1>2 DEF SyncInv, InStep
    <3>2. Append(<<>>, r) = <<r>>
      OBVIOUS
    <3>3. session'.requests = <<r>>
      BY <2>10, <3>1, <3>2
    <3>4. walk'.waiting /\ walk'.pc = walk.pc /\ walk'.next = walk.next
      BY <1>2
    <3>5. session'.requests = << [kind |-> walk'.pc, hash |-> walk'.next] >>
      BY <3>3, <3>4 DEF r
    <3>. QED
      BY <1>0, <2>10, <3>1, <3>4, <3>5 DEF InStep
  <2>9. SegmentIsConnected'
    BY <1>2 DEF SyncInv, SegmentIsConnected
  <2>. QED
    BY <2>5, <2>6, <2>7, <2>8, <2>9 DEF SyncInv
<1>3. CASE /\ session.state = "forwarding" /\ session' = session
           /\ walk' = w /\ gave_up' = gave_up
  <2>1. IsWalk'
    BY <1>0, <1>3 DEF IsWalk
  <2>2. gave_up
    BY <1>3 DEF SyncInv, InStep
  <2>3. OwedOk'
    BY <1>0, <1>3, OwedNat DEF SyncInv, OwedOk, Owed
  <2>. QED
    BY <1>0, <1>3, <2>1, <2>2, <2>3 DEF SyncInv, SegmentIsConnected
<1>4. CASE RequestFailed(session)
  BY <1>0, <1>4, RequestFailedInv DEF SyncInv, OwedOk, Owed
<1>. QED
  BY <1>1, <1>2, <1>3, <1>4 DEF Request, GoOn

------------------------------------------------------------------------------
\* The pending request of a session is set or cleared.
LEMMA SetPending ==
    ASSUME NEW s, IsSession(s), NEW x
    PROVE  /\ IsSession([s EXCEPT !.pending = x])
           /\ [s EXCEPT !.pending = x].pending = x
           /\ [s EXCEPT !.pending = x].state = s.state
           /\ [s EXCEPT !.pending = x].requests = s.requests
           /\ [s EXCEPT !.pending = x].replies = s.replies
<1>1. [s EXCEPT !.pending = x] = [state |-> s.state, pending |-> x,
                                  requests |-> s.requests, replies |-> s.replies]
  BY DEF IsSession
<1>. QED
  BY <1>1 DEF IsSession

\* A session changes its state.
LEMMA SetState ==
    ASSUME NEW s, IsSession(s), NEW x
    PROVE  /\ IsSession([s EXCEPT !.state = x])
           /\ [s EXCEPT !.state = x].state = x
           /\ [s EXCEPT !.state = x].pending = s.pending
           /\ [s EXCEPT !.state = x].requests = s.requests
           /\ [s EXCEPT !.state = x].replies = s.replies
<1>1. [s EXCEPT !.state = x] = [state |-> x, pending |-> s.pending,
                                requests |-> s.requests, replies |-> s.replies]
  BY DEF IsSession
<1>. QED
  BY <1>1 DEF IsSession

\* The replies of a session change.
LEMMA SetReplies ==
    ASSUME NEW s, IsSession(s), NEW x, IsSeq(x)
    PROVE  /\ IsSession([s EXCEPT !.replies = x])
           /\ [s EXCEPT !.replies = x].state = s.state
           /\ [s EXCEPT !.replies = x].pending = s.pending
           /\ [s EXCEPT !.replies = x].requests = s.requests
           /\ [s EXCEPT !.replies = x].replies = x
<1>1. [s EXCEPT !.replies = x] = [state |-> s.state, pending |-> s.pending,
                                  requests |-> s.requests, replies |-> x]
  BY DEF IsSession
<1>. QED
  BY <1>1 DEF IsSession

\* A waiting event loop has a walk.
LEMMA WaitingWalks == ASSUME walk.waiting PROVE walk # NoWalk
  BY NoWalkFields

\* The event loop stops waiting for an answer.
LEMMA RequestTimeoutInv ==
    ASSUME SyncInv, RequestTimeout
    PROVE  SyncInv'
<1>1. walk.waiting /\ RequestFailed(session)
  BY DEF RequestTimeout
<1>. QED
  BY <1>1, WaitingWalks, RequestFailedInv DEF SyncInv, OwedOk, Owed

\* The session's own timeout drops the pending request.
LEMMA PendingExpiresInv ==
    ASSUME SyncInv, PendingExpires
    PROVE  SyncInv'
<1>. DEFINE expired == [session EXCEPT !.pending = "None"]
<1>1. /\ IsSession(session) /\ IsSession(expired) /\ OwedBy(expired) = OwedBy(session)
      /\ expired.pending = "None" /\ session.pending # "None"
  BY SetPending DEF SyncInv, OwedBy, PendingExpires
<1>2. CASE walk.waiting /\ RequestFailed(expired)
  BY <1>1, <1>2, WaitingWalks, RequestFailedInv DEF SyncInv, OwedOk, Owed
<1>3. CASE ~walk.waiting /\ session' = expired /\ walk' = walk /\ gave_up' = gave_up
  <2>1. gave_up
    BY <1>1, <1>3 DEF SyncInv, InStep
  <2>2. walk.attempt = 1 => Owed = 0
    BY <1>3 DEF SyncInv, OwedOk
  <2>. HIDE DEF expired
  <2>3. OwedOk'
    BY <1>1, <1>3, <2>2 DEF SyncInv, OwedOk, Owed
  <2>. QED
    BY <1>1, <1>3, <2>1, <2>3 DEF SyncInv, IsWalk, SegmentIsConnected
<1>. QED
  BY <1>2, <1>3 DEF PendingExpires, counts

\* The peer closes the connection.
LEMMA SessionEndsInv ==
    ASSUME SyncInv, SessionEnds
    PROVE  SyncInv'
<1>. DEFINE dead == [NoSession EXCEPT !.state = "dead"]
<1>1. IsSession(dead) /\ OwedBy(dead) = 0 /\ Settled(dead)
  BY NoSessionFields DEF Settled
<1>. HIDE DEF dead
<1>2. CASE walk.waiting /\ RequestFailed(dead)
  BY <1>1, <1>2, WaitingWalks, RequestFailedInv
<1>3. CASE Idle /\ session' = dead /\ walk' = walk /\ gave_up' = gave_up
  BY <1>1, <1>3, EndedWalkInv DEF Idle, Owed
<1>. QED
  BY <1>2, <1>3 DEF SessionEnds, counts, dead

\* Events that the event loop turns to when it is idle.
LEMMA IdleInv ==
    ASSUME SyncInv, Idle, IsSession(session'), OwedBy(session') = OwedBy(session),
           ~gave_up => Settled(session) /\ session' = session, gave_up' = gave_up,
           \/ walk' = walk
           \/ \E job, next : \E pc \in {"Tip", "Block"} : walk' = Walk(job, pc, next, <<>>)
    PROVE  SyncInv'
<1>1. Owed' <= 1
  BY NoWalkFields DEF SyncInv, OwedOk, Owed, Idle
<1>2. CASE walk' = walk
  BY <1>1, <1>2, EndedWalkInv DEF Idle
<1>3. ASSUME NEW job, NEW next, NEW pc \in {"Tip", "Block"},
             walk' = Walk(job, pc, next, <<>>)
      PROVE  SyncInv'
  <2>1. walk'.missing = <<>>
    BY <1>3 DEF Walk
  <2>2. SegmentIsConnected'
    BY <2>1, EmptyIsSeq DEF SegmentIsConnected
  <2>. QED
    BY <1>1, <1>3, <2>2, EmptyIsSeq, FreshWalkInv
<1>. QED
  BY <1>2, <1>3

\* Between two walks a session in step owes nothing.
LEMMA IdleIsSettled ==
    ASSUME SyncInv, Idle, ~gave_up
    PROVE  Settled(session)
  BY NoWalkFields DEF SyncInv, InStep, Idle, Settled

\* The peer answers the oldest request.
LEMMA ServeInv ==
    ASSUME SyncInv, Serve
    PROVE  SyncInv'
<1>. DEFINE request == Head(session.requests)
            body == { b \in Blocks : b.hash = request.hash /\ Knows(remote, b.hash) }
            answer == IF request.kind = "Tip"
                        THEN [kind |-> "Tip", summary |-> tip_summary(remote)]
                        ELSE [kind |-> "Block", body |-> body]
            rq == Tail(session.requests)
            rp == Append(session.replies, answer)
<1>1. /\ session.requests # <<>> /\ walk' = walk /\ gave_up' = gave_up
      /\ session' = [session EXCEPT !.requests = rq, !.replies = rp]
  BY DEF Serve, counts
<1>2. /\ answer.kind = "Tip" => request.kind = "Tip"
      /\ request.kind = "Tip" => answer.kind = "Tip"
      /\ request.kind # "Tip" => answer.kind = "Block" /\ answer.body = body
  OBVIOUS
<1>3. \A b \in body : b.hash = request.hash
  OBVIOUS
<1>. HIDE DEF answer, body
<1>4. /\ IsSession(session) /\ IsSeq(rq) /\ IsSeq(rp)
      /\ Len(rq) = Len(session.requests) - 1 /\ Len(rp) = Len(session.replies) + 1
      /\ Len(session.requests) \in Nat /\ Len(session.replies) \in Nat
  BY <1>1, SeqTail, SeqAppend, SeqLen DEF SyncInv, IsSession
<1>5. (Len(session.requests) - 1) + (Len(session.replies) + 1)
        = Len(session.requests) + Len(session.replies)
  <2>1. \A i, j \in Nat : (i - 1) + (j + 1) = i + j
    OBVIOUS
  <2>. QED
    BY <1>4, <2>1, Zenon
<1>. HIDE DEF rq, rp
<1>6. session' = [state |-> session.state, pending |-> session.pending,
                  requests |-> rq, replies |-> rp]
  <2>. DEFINE q == [session EXCEPT !.requests = rq]
  <2>1. q = [state |-> session.state, pending |-> session.pending,
             requests |-> rq, replies |-> session.replies]
    BY <1>4 DEF IsSession
  <2>2. session' = [q EXCEPT !.replies = rp]
    BY <1>1
  <2>. HIDE DEF q
  <2>. QED
    BY <2>1, <2>2
<1>7. /\ session'.state = session.state /\ session'.pending = session.pending
      /\ session'.requests = rq /\ session'.replies = rp
  BY <1>6
<1>8. IsSession(session')
  BY <1>4, <1>6, <1>7 DEF IsSession
<1>9. OwedBy(session') = OwedBy(session)
  BY <1>4, <1>5, <1>7, Zenon DEF OwedBy
<1>10. ~gave_up => InStep'
  <2>. SUFFICES ASSUME ~gave_up PROVE InStep'
    OBVIOUS
  <2>1. /\ session.state # "forwarding" /\ session.pending # "None" /\ walk.waiting
        /\ session.pending = walk.pc /\ session.replies = <<>>
        /\ session.requests = << [kind |-> walk.pc, hash |-> walk.next] >>
    BY <1>1 DEF SyncInv, InStep
  <2>2. request = [kind |-> walk.pc, hash |-> walk.next] /\ rq = <<>>
    BY <2>1 DEF rq
  <2>3. rp = <<answer>>
    BY <2>1 DEF rp
  <2>4. walk.pc \in {"Tip", "Block"}
    BY <2>1, NoWalkFields DEF SyncInv, IsWalk
  <2>5. request.kind = walk.pc /\ request.hash = walk.next
    BY <2>2
  <2>. HIDE DEF request
  <2>6. answer.kind = walk.pc /\ (walk.pc = "Block" => \A b \in answer.body : b.hash = walk.next)
    BY <1>2, <1>3, <2>4, <2>5
  <2>7. Len(rp) = 1 /\ rp[1] = answer
    BY <2>3
  <2>. QED
    BY <1>1, <1>7, <2>1, <2>2, <2>6, <2>7 DEF InStep
<1>11. OwedOk'
  BY <1>1, <1>7, <1>9 DEF SyncInv, OwedOk, Owed
<1>. QED
  BY <1>1, <1>8, <1>10, <1>11 DEF SyncInv, IsWalk, SegmentIsConnected

\* An answer completes the request the event loop waits for.
LEMMA TakeInv ==
    ASSUME SyncInv, IsSession(session'), Owed' <= 1, ~gave_up => Settled(session'),
           walk.waiting, gave_up' = gave_up, NEW answer,
           ~gave_up => /\ answer.kind = walk.pc
                       /\ answer.kind = "Block" => \A b \in answer.body : b.hash = walk.next,
           \/ answer.kind = "Tip" /\ TakeTip(answer.summary)
           \/ answer.kind = "Block" /\ TakeBlock(answer.body)
    PROVE  SyncInv'
<1>1. CASE walk' = NoWalk
  BY <1>1, EndedWalkInv
<1>2. CASE answer.kind = "Tip" /\ TakeTip(answer.summary) /\ walk' # NoWalk
  <2>1. walk' = Walk(walk.job, "Block", answer.summary.tip, <<>>)
    BY <1>2 DEF TakeTip, sync_to_advertised_tip, EndWalk, GoOn
  <2>2. walk'.missing = <<>>
    BY <2>1 DEF Walk
  <2>3. SegmentIsConnected'
    BY <2>2, EmptyIsSeq DEF SegmentIsConnected
  <2>. QED
    BY <2>1, <2>3, EmptyIsSeq, FreshWalkInv
<1>3. CASE answer.kind = "Block" /\ TakeBlock(answer.body) /\ walk' # NoWalk
  <2>1. PICK b \in answer.body :
          walk' = Walk(walk.job, "Block", b.prev_blockhash, Append(walk.missing, b))
    BY <1>3 DEF TakeBlock, EndWalk, GoOn
  <2>. DEFINE m == walk.missing
              n == Append(m, b)
  <2>2. /\ IsSeq(m) /\ IsSeq(n) /\ Len(m) \in Nat /\ Len(n) = Len(m) + 1
        /\ \A i \in 1..Len(m) : n[i] = m[i]
        /\ n[Len(m) + 1] = b
        /\ Len(m) = 0 <=> m = <<>>
    BY SeqAppend, SeqLen DEF SyncInv, IsWalk
  <2>3. walk'.missing = n /\ walk'.next = b.prev_blockhash /\ walk'.pc = "Block"
    BY <2>1 DEF Walk
  <2>. HIDE DEF m, n
  <2>4. SegmentIsConnected'
    <3>. SUFFICES ASSUME ~gave_up
                  PROVE  /\ \A i \in 1..(Len(n) - 1) : n[i].prev_blockhash = n[i + 1].hash
                         /\ n[Len(n)].prev_blockhash = b.prev_blockhash
      BY <2>3 DEF SegmentIsConnected
    <3>1. walk.pc = "Block" /\ b.hash = walk.next
      BY <1>3
    <3>2. /\ \A i \in 1..(Len(m) - 1) : m[i].prev_blockhash = m[i + 1].hash
          /\ m # <<>> => m[Len(m)].prev_blockhash = walk.next
      BY <3>1 DEF SyncInv, SegmentIsConnected, m
    <3>3. ASSUME NEW i \in 1..(Len(n) - 1)
          PROVE  n[i].prev_blockhash = n[i + 1].hash
      <4>1. i \in 1..Len(m) /\ n[i] = m[i]
        BY <2>2
      <4>2. CASE i = Len(m)
        <5>1. m # <<>>
          BY <2>2, <4>1
        <5>2. n[i + 1] = b
          BY <2>2, <4>2
        <5>. QED
          BY <3>1, <3>2, <4>1, <4>2, <5>1, <5>2
      <4>3. CASE i # Len(m)
        <5>1. i \in 1..(Len(m) - 1) /\ i + 1 \in 1..Len(m)
          BY <2>2, <4>1, <4>3
        <5>. QED
          BY <2>2, <3>2, <4>1, <5>1
      <4>. QED
        BY <4>2, <4>3
    <3>. QED
      BY <2>2, <3>3
  <2>. QED
    BY <2>1, <2>2, <2>4, FreshWalkInv DEF n, m
<1>. QED
  BY <1>1, <1>2, <1>3

\* The session reads an answer: late, forwarded, or the one waited for.
LEMMA ReadAnswerInv ==
    ASSUME SyncInv, ReadAnswer
    PROVE  SyncInv'
<1>. DEFINE answer == Head(session.replies)
            rest == Tail(session.replies)
            read == [session EXCEPT !.replies = rest]
<1>1. session.state = "up" /\ session.replies # <<>> /\ gave_up' = gave_up
  BY DEF ReadAnswer, counts
<1>2. /\ IsSession(session) /\ IsSeq(session.replies) /\ IsSeq(rest)
      /\ Len(rest) = Len(session.replies) - 1 /\ Len(session.replies) > 0
      /\ Len(session.requests) \in Nat /\ Len(session.replies) \in Nat
      /\ answer = session.replies[1] /\ Len(rest) \in Nat
      /\ Len(rest) = 0 <=> rest = <<>>
  BY <1>1, SeqTail, SeqLen DEF SyncInv, IsSession
<1>3. \/ /\ answer.kind # session.pending
         /\ session' = [read EXCEPT !.state = "forwarding"]
         /\ walk' = walk
      \/ /\ answer.kind = session.pending
         /\ session' = [read EXCEPT !.pending = "None"]
         /\ \/ ~walk.waiting /\ walk' = walk
            \/ /\ walk.waiting
               /\ \/ answer.kind = "Tip" /\ TakeTip(answer.summary)
                  \/ answer.kind = "Block" /\ TakeBlock(answer.body)
  BY DEF ReadAnswer
<1>. HIDE DEF answer, rest
<1>4. /\ IsSession(read) /\ read.state = "up" /\ read.pending = session.pending
      /\ read.requests = session.requests /\ read.replies = rest
  BY <1>1, <1>2, SetReplies
<1>. HIDE DEF read
<1>5. /\ IsSession(session') /\ session'.requests = session.requests
      /\ session'.replies = rest
      /\ answer.kind # session.pending =>
           session'.pending = session.pending
      /\ answer.kind = session.pending =>
           session'.pending = "None" /\ session'.state = "up"
  <2>1. CASE /\ answer.kind # session.pending
             /\ session' = [read EXCEPT !.state = "forwarding"]
    <3>. DEFINE to == "forwarding"
    <3>1. session' = [read EXCEPT !.state = to]
      BY <2>1
    <3>. HIDE DEF to
    <3>. QED
      BY <1>4, <2>1, <3>1, SetState
  <2>2. CASE /\ answer.kind = session.pending
             /\ session' = [read EXCEPT !.pending = "None"]
    <3>. DEFINE to == "None"
    <3>1. session' = [read EXCEPT !.pending = to]
      BY <2>2
    <3>. HIDE DEF to
    <3>2. /\ IsSession(session') /\ session'.pending = to /\ session'.state = "up"
          /\ session'.requests = session.requests /\ session'.replies = rest
      BY <1>4, <3>1, SetPending
    <3>. QED
      BY <2>2, <3>2 DEF to
  <2>. QED
    BY <1>3, <2>1, <2>2
<1>6. OwedBy(session') = OwedBy(session) - 1 /\ OwedBy(session) \in Nat \ {0}
  <2>1. \A i, j \in Nat : i + (j - 1) = (i + j) - 1
    OBVIOUS
  <2>2. \A i, j \in Nat : j > 0 => i + j \in Nat \ {0}
    OBVIOUS
  <2>3. OwedBy(session') = Len(session.requests) + (Len(session.replies) - 1)
    BY <1>2, <1>5, Zenon DEF OwedBy
  <2>. QED
    BY <1>2, <2>1, <2>2, <2>3, Zenon DEF OwedBy
<1>7. ~gave_up =>
        /\ session.pending # "None" /\ walk.waiting /\ session.pending = walk.pc
        /\ session.requests = <<>> /\ Len(session.replies) = 1
        /\ answer.kind = walk.pc
        /\ walk.pc = "Block" => \A b \in answer.body : b.hash = walk.next
  BY <1>1, <1>2 DEF SyncInv, InStep
<1>8. CASE walk' = walk /\ (answer.kind # session.pending \/ ~walk.waiting)
  <2>1. gave_up
    BY <1>7, <1>8
  <2>2. OwedOk'
    BY <1>5, <1>6, <1>8 DEF SyncInv, OwedOk, Owed
  <2>. QED
    BY <1>1, <1>5, <1>8, <2>1, <2>2 DEF SyncInv, IsWalk, SegmentIsConnected
<1>9. CASE /\ answer.kind = session.pending /\ walk.waiting
           /\ \/ answer.kind = "Tip" /\ TakeTip(answer.summary)
              \/ answer.kind = "Block" /\ TakeBlock(answer.body)
  <2>1. Owed' <= 1
    BY <1>6 DEF SyncInv, OwedOk, Owed
  <2>2. ~gave_up => Settled(session')
    BY <1>2, <1>5, <1>7, <1>9 DEF Settled
  <2>. QED
    BY <1>1, <1>5, <1>7, <1>9, <2>1, <2>2, TakeInv
<1>. QED
  BY <1>3, <1>8, <1>9

\* One step per action.
LEMMA SyncNext == SyncInv /\ [Next]_vars => SyncInv'
<1>. SUFFICES ASSUME SyncInv, [Next]_vars
              PROVE  SyncInv'
  OBVIOUS
<1>1. CASE UNCHANGED <<session, walk, gave_up>>
  BY <1>1 DEF SyncInv, IsWalk, OwedOk, Owed, InStep, SegmentIsConnected
<1>2. CASE \/ handle_peer_hello \/ handle_peer_announce_tip \/ CooldownEnds
           \/ \E b \in Blocks : RemoteAccept(b)
  BY <1>1, <1>2 DEF handle_peer_hello, handle_peer_announce_tip, CooldownEnds,
                    RemoteAccept, counts
<1>3. CASE handle_sync_tick \/ handle_tip_sync \/ handle_peer_announce_block
  <2>1. Idle /\ session' = session /\ gave_up' = gave_up
    BY <1>3 DEF handle_sync_tick, handle_tip_sync, handle_peer_announce_block,
                NextAnnouncement, counts
  <2>2. \/ walk' = walk
        \/ \E job, next : \E pc \in {"Tip", "Block"} : walk' = Walk(job, pc, next, <<>>)
    <3>1. CASE handle_sync_tick
      BY <3>1 DEF handle_sync_tick
    <3>2. CASE handle_tip_sync
      BY <2>1, <3>2 DEF handle_tip_sync, sync_to_advertised_tip, EndWalk, GoOn, Idle
    <3>3. CASE handle_peer_announce_block
      BY <3>3 DEF handle_peer_announce_block
    <3>. QED
      BY <1>3, <3>1, <3>2, <3>3
  <2>. QED
    BY <2>1, <2>2, IdleInv, IdleIsSettled DEF SyncInv
<1>4. CASE ForwardedAnswer
  <2>1. /\ Idle /\ walk' = walk /\ gave_up' = gave_up /\ session.state = "forwarding"
        /\ session' = [session EXCEPT !.state = "up"]
    BY <1>4 DEF ForwardedAnswer, counts
  <2>2. gave_up
    BY <2>1 DEF SyncInv, InStep
  <2>3. IsSession(session') /\ OwedBy(session') = OwedBy(session)
    BY <2>1, SetState DEF SyncInv, OwedBy
  <2>. QED
    BY <2>1, <2>2, <2>3, IdleInv
<1>5. CASE UNCHANGED vars
  BY <1>1, <1>5 DEF vars, counts
<1>. QED
  BY <1>2, <1>3, <1>4, <1>5, ConnectInv, RequestInv, RequestTimeoutInv, PendingExpiresInv,
     SessionEndsInv, ServeInv, ReadAnswerInv DEF Next, EventLoop

\* The inductive invariant: the session and the walk keep step until some
\* request has failed on both attempts, and stay one answer apart after that.
THEOREM SyncInvariance == Spec => []SyncInv
  BY SyncBegin, SyncNext, PTL DEF Spec

\* A session owes at most the answer in flight, and one more after a walk has
\* given up on it (request_tip_from_peer, request_block_from_peer).
THEOREM LateAnswers == Spec => []LateAnswersBounded
<1>1. SyncInv => LateAnswersBounded
  <2>. SUFFICES ASSUME SyncInv PROVE LateAnswersBounded
    OBVIOUS
  <2>1. Owed <= 2
    BY DEF SyncInv, OwedOk
  <2>2. ~gave_up => Owed <= 1
    <3>. DEFINE requests == Len(session.requests)
                replies == Len(session.replies)
    <3>1. Len(<< [kind |-> walk.pc, hash |-> walk.next] >>) = 1
      OBVIOUS
    <3>2. ~gave_up => /\ requests \in {0, 1} /\ replies \in {0, 1}
                      /\ requests = 0 \/ replies = 0
      BY <3>1, EmptyIsSeq DEF SyncInv, InStep
    <3>. HIDE DEF requests, replies
    <3>3. ~gave_up => requests + replies <= 1
      BY <3>2
    <3>. QED
      BY <3>3, Zenon DEF requests, replies, Owed, OwedBy
  <2>. QED
    BY <2>1, <2>2 DEF LateAnswersBounded, Owed, OwedBy
<1>. QED
  BY SyncInvariance, <1>1, PTL

\* Unless a request has failed on both attempts, what a walk has fetched is one
\* segment, although answers are matched by kind only
\* (sync_to_advertised_tip, try_complete_pending_request).
THEOREM SegmentConnectivity == Spec => []SegmentIsConnected
<1>1. SyncInv => SegmentIsConnected
  BY DEF SyncInv
<1>. QED
  BY SyncInvariance, <1>1, PTL
==============================================================================
