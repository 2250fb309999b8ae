------------------------------ MODULE MiningLoop ------------------------------
(***************************************************************************)
(* The threads of a mining node: the async shell that feeds the event      *)
(* queue (serve_inner), the event loop that owns the state and decides     *)
(* what to mine (run_event_loop), and the miner (run_miner_worker),        *)
(* src/src/server.rs and src/src/mining.rs.                                *)
(*                                                                         *)
(* The state the loop owns is reduced to what these threads see of it:     *)
(*   tip   : how often the best tip has changed, so no tip ever returns    *)
(*           (TipMovesOnlyToMoreWork of ChainIndexSpec)                    *)
(*   pool  : the pending transactions                                      *)
(*   known : the transactions that have been pending once                  *)
(* A candidate is [prev, txs]: the tip it extends and what it confirms.    *)
(***************************************************************************)
EXTENDS Integers, Sequences, FiniteSets, FiniteSetsExt

CONSTANTS
    Txs,              \* transactions that may be announced
    MaxTip,           \* bound: no block of another node past this tip
    MaxTransactions,  \* MiningConfig::max_transactions
    Capacity,         \* ServerOptions::channel_capacity (64 in `serve`)
    Load,             \* bound: messages and ticks that may be queued at once
    SyncAdvances      \* whether a periodic sync may find new blocks

ASSUME MiningLoopAssumption ==
    /\ MaxTip \in Nat
    /\ MaxTransactions \in Nat \ {0}
    /\ Capacity \in Nat \ {0}
    /\ Load \in Nat
    /\ SyncAdvances \in BOOLEAN

VARIABLES
    state,       \* [tip, pool, known], owned by the event loop
    queue,       \* ServerEvents in the channel of the event loop
    shell,       \* serve_inner: "bootstrap", "loop", "join" or "done"
    server,      \* [pc, job] of run_event_loop
    stopping,    \* stop_requested
    generation,  \* Miner::generation
    commands,    \* MinerCommands in the channel of the worker
    worker       \* [pc, current, replace] of run_miner_worker

vars == <<state, queue, shell, server, stopping, generation, commands, worker>>

NoJob == [kind |-> "None"]
CancelJob == [kind |-> "Cancel"]
StopJob == [kind |-> "Stop"]
SubmitJob(c) == [kind |-> "Submit", candidate |-> c]

NoWork == [generation |-> 0, candidate |-> NoJob]

Event(kind) == [kind |-> kind]
Mined(c) == [kind |-> "MinedCandidate", candidate |-> c]

Init ==
    /\ \E pool \in SUBSET Txs : state = [tip |-> 0, pool |-> pool, known |-> pool]
    /\ queue = << Event("Bootstrap") >>
    /\ shell = "bootstrap"
    /\ server = [pc |-> "recv", job |-> NoJob]
    /\ stopping = FALSE
    /\ generation = 0
    /\ commands = <<>>
    /\ worker = [pc |-> "recv", current |-> NoWork, replace |-> FALSE]

------------------------------------------------------------------------------
(***************************************************************************)
(* What handling an event may do to the state.                             *)
(***************************************************************************)

\* The best tip moves to a block of another node; pending transactions it
\* confirms or invalidates leave the pool.
MovedTips(s) ==
    { [s EXCEPT !.tip = @ + 1, !.pool = rest] :
        rest \in IF s.tip < MaxTip THEN SUBSET s.pool ELSE {} }

\* A new transaction enters the pool and may displace others.
Admitted(s) ==
    UNION { { [s EXCEPT !.pool = rest \cup {t}, !.known = s.known \cup {t}] :
                rest \in SUBSET s.pool } : t \in Txs \ s.known }

\* The solved candidate c becomes the tip.  What it does not confirm stays
\* pending, unless c holds something the pool has given up since.
Confirmed(s, c) ==
    { [s EXCEPT !.tip = @ + 1, !.pool = rest] :
        rest \in IF c.txs \subseteq s.pool THEN {s.pool \ c.txs}
                                           ELSE SUBSET (s.pool \ c.txs) }

\* build_mining_candidate: the pending transactions never conflict, so the
\* first MaxTransactions of them are selected.
Candidates(s) ==
    { [prev |-> s.tip, txs |-> txs] :
        txs \in { S \in SUBSET s.pool :
                    Cardinality(S) = Min({MaxTransactions, Cardinality(s.pool)}) } }

\* Deliberate fault: with nothing to mine the miner is left alone.
RefreshJobs_Fault(s) ==
    IF s.pool = {} THEN {NoJob} ELSE { SubmitJob(c) : c \in Candidates(s) }

\* refresh_mining_candidate
RefreshJobs(s) ==
    IF s.pool = {} THEN {CancelJob} ELSE { SubmitJob(c) : c \in Candidates(s) }

\* Deliberate fault: only a new tip replaces the job.
maybe_refresh_mining_Fault(old, new) ==
    IF new.tip = old.tip THEN {NoJob} ELSE RefreshJobs(new)

\* maybe_refresh_mining
maybe_refresh_mining(old, new) ==
    IF new.tip = old.tip /\ new.pool = old.pool THEN {NoJob} ELSE RefreshJobs(new)

------------------------------------------------------------------------------
(***************************************************************************)
(* The event loop thread.                                                  *)
(***************************************************************************)

\* The event loop goes on to the miner if there is something to tell it,
\* else to the next event, or out of the loop.
Proceed(job, last) ==
    server' = IF job # NoJob THEN [pc |-> "bump", job |-> job]
              ELSE IF last THEN [pc |-> "bump", job |-> StopJob]
              ELSE [pc |-> "recv", job |-> NoJob]

\* Takes the first event off the queue and leaves the state new, with one of
\* jobs for the miner.
Handle(kind, new, jobs) ==
    /\ server.pc = "recv"
    /\ queue # <<>>
    /\ Head(queue).kind = kind
    /\ queue' = Tail(queue)
    /\ state' = new
    /\ \E job \in jobs : Proceed(job, stopping \/ kind = "Stop")
    /\ UNCHANGED <<shell, stopping, generation, commands, worker>>

HandleBootstrap ==
    \E new \in {state} \cup MovedTips(state) :
        Handle("Bootstrap", new, RefreshJobs(new))

\* A message of a peer or an admin client, or a tip to follow: ignored,
\* rejected, or one that changes the state.
HandlePeerMessage ==
    \E new \in {state} \cup MovedTips(state) \cup Admitted(state) :
        Handle("PeerMessage", new, maybe_refresh_mining(state, new))

\* handle_sync_tick does not look at the miner.
HandleSyncTick ==
    \E new \in {state} \cup (IF SyncAdvances THEN MovedTips(state) ELSE {}) :
        Handle("SyncTick", new, {NoJob})

\* handle_mined_candidate: one on another tip is dropped.
HandleMinedCandidate ==
    /\ queue # <<>>
    /\ Head(queue).kind = "MinedCandidate"
    /\ LET c == Head(queue).candidate
       IN  \E new \in IF c.prev = state.tip THEN Confirmed(state, c) ELSE {state} :
               Handle("MinedCandidate", new, maybe_refresh_mining(state, new))

HandleStop == Handle("Stop", state, {NoJob})

\* Miner::submit, cancel and stop: first the generation, then the command.
BumpGeneration ==
    /\ server.pc = "bump"
    /\ generation' = generation + 1
    /\ server' = [server EXCEPT !.pc = "send"]
    /\ UNCHANGED <<state, queue, shell, stopping, commands, worker>>

SendCommand ==
    /\ server.pc = "send"
    /\ commands' = Append(commands, [job |-> server.job, generation |-> generation])
    /\ IF server.job = StopJob
         THEN server' = [server EXCEPT !.pc = "join"]
         ELSE Proceed(NoJob, stopping)
    /\ UNCHANGED <<state, queue, shell, stopping, generation, worker>>

\* Miner::stop returns, and with it the event loop thread.
JoinMiner ==
    /\ server.pc = "join"
    /\ worker.pc = "gone"
    /\ server' = [server EXCEPT !.pc = "gone"]
    /\ UNCHANGED <<state, queue, shell, stopping, generation, commands, worker>>

Server ==
    \/ HandleBootstrap \/ HandlePeerMessage \/ HandleSyncTick
    \/ HandleMinedCandidate \/ HandleStop
    \/ BumpGeneration \/ SendCommand \/ JoinMiner

------------------------------------------------------------------------------
(***************************************************************************)
(* The miner thread.                                                       *)
(***************************************************************************)
WorkerStep(w) ==
    /\ worker' = w
    /\ UNCHANGED <<state, shell, server, stopping, generation>>

\* What a command makes of the current work.
Work(cmd) ==
    IF cmd.job.kind = "Submit"
      THEN [generation |-> cmd.generation, candidate |-> cmd.job.candidate]
      ELSE NoWork

\* Deliberate fault: any command but Stop sets the worker searching.
Receive_Fault ==
    /\ worker.pc = "recv"
    /\ commands # <<>>
    /\ commands' = Tail(commands)
    /\ UNCHANGED queue
    /\ LET cmd == Head(commands)
       IN  WorkerStep([worker EXCEPT
                         !.pc = IF cmd.job = StopJob THEN "gone" ELSE "check",
                         !.current = Work(cmd)])

\* Without work the worker waits for a command.
Receive ==
    /\ worker.pc = "recv"
    /\ commands # <<>>
    /\ commands' = Tail(commands)
    /\ UNCHANGED queue
    /\ LET cmd == Head(commands)
       IN  WorkerStep([worker EXCEPT
                         !.pc = CASE cmd.job = StopJob         -> "gone"
                                  [] cmd.job.kind = "Submit"   -> "check"
                                  [] OTHER                     -> "recv",
                         !.current = Work(cmd)])

\* Work of an older generation is given up.
CheckGeneration ==
    /\ worker.pc = "check"
    /\ WorkerStep(IF generation # worker.current.generation
                    THEN [worker EXCEPT !.pc = "drain", !.replace = TRUE]
                    ELSE [worker EXCEPT !.pc = "try", !.replace = FALSE])
    /\ UNCHANGED <<queue, commands>>

\* The next nonce does not solve the candidate; every so many nonces the
\* worker looks at its commands.
TryNonce ==
    /\ worker.pc = "try"
    /\ \E pc \in {"check", "drain"} : WorkerStep([worker EXCEPT !.pc = pc])
    /\ UNCHANGED <<queue, commands>>

Solve ==
    /\ worker.pc = "try"
    /\ WorkerStep([worker EXCEPT !.pc = "notify"])
    /\ UNCHANGED <<queue, commands>>

\* notify_mined_block waits for room in the channel of the event loop.
Notify ==
    /\ worker.pc = "notify"
    /\ Len(queue) < Capacity
    /\ queue' = Append(queue, Mined(worker.current.candidate))
    /\ WorkerStep([worker EXCEPT !.pc = "drain", !.current = NoWork])
    /\ UNCHANGED commands

\* Deliberate fault: work given up is forgotten after the commands have been
\* read, even if one of them brought new work.
Drain_Fault ==
    /\ worker.pc = "drain"
    /\ IF commands = <<>>
         THEN LET left == IF worker.replace THEN NoWork ELSE worker.current
              IN  /\ WorkerStep([pc |-> IF left = NoWork THEN "recv" ELSE "check",
                                 current |-> left, replace |-> FALSE])
                  /\ UNCHANGED commands
         ELSE LET cmd == Head(commands)
              IN  /\ WorkerStep([worker EXCEPT
                                   !.pc = IF cmd.job = StopJob THEN "gone" ELSE "drain",
                                   !.current = Work(cmd)])
                  /\ commands' = Tail(commands)
    /\ UNCHANGED queue

\* The worker takes every waiting command; the last one counts.
Drain ==
    /\ worker.pc = "drain"
    /\ IF commands = <<>>
         THEN LET left == IF worker.replace THEN NoWork ELSE worker.current
              IN  /\ WorkerStep([pc |-> IF left = NoWork THEN "recv" ELSE "check",
                                 current |-> left, replace |-> FALSE])
                  /\ UNCHANGED commands
         ELSE LET cmd == Head(commands)
              IN  /\ WorkerStep([pc |-> IF cmd.job = StopJob THEN "gone" ELSE "drain",
                                 current |-> Work(cmd), replace |-> FALSE])
                  /\ commands' = Tail(commands)
    /\ UNCHANGED queue

Worker == Receive \/ CheckGeneration \/ TryNonce \/ Solve \/ Notify \/ Drain

------------------------------------------------------------------------------
(***************************************************************************)
(* The async shell and the tasks it runs.                                  *)
(***************************************************************************)
ShellStep == UNCHANGED <<state, server, generation, commands, worker>>

\* There is room for one more message or tick.
Room ==
    /\ shell = "loop"
    /\ Len(queue) < Capacity
    /\ Len(SelectSeq(queue, LAMBDA e : e.kind \in {"PeerMessage", "SyncTick"})) < Load

\* The reply to Bootstrap: only now are connections accepted.
Bootstrapped ==
    /\ shell = "bootstrap"
    /\ queue = <<>>
    /\ server.pc = "recv"
    /\ shell' = "loop"
    /\ UNCHANGED <<queue, stopping>> /\ ShellStep

\* A peer or admin task waits for room, sends, and waits for the reply.
SendPeerMessage ==
    /\ Room
    /\ queue' = Append(queue, Event("PeerMessage"))
    /\ UNCHANGED <<shell, stopping>> /\ ShellStep

\* try_send: without room the tick is lost.
Tick ==
    /\ Room
    /\ queue' = Append(queue, Event("SyncTick"))
    /\ UNCHANGED <<shell, stopping>> /\ ShellStep

\* ServerHandle::stop
RequestStop ==
    /\ shell = "loop"
    /\ ~stopping
    /\ stopping' = TRUE
    /\ UNCHANGED <<queue, shell>> /\ ShellStep

\* Deliberate fault: the event loop is not woken up.
LeaveLoop_Fault ==
    /\ shell = "loop"
    /\ stopping
    /\ shell' = "join"
    /\ UNCHANGED <<queue, stopping>> /\ ShellStep

\* The shell leaves its loop.  From here on its thread waits for the event
\* loop, so no task runs any more.
LeaveLoop ==
    /\ shell = "loop"
    /\ stopping
    /\ shell' = "join"
    /\ queue' = IF Len(queue) < Capacity THEN Append(queue, Event("Stop")) ELSE queue
    /\ UNCHANGED stopping /\ ShellStep

JoinServer ==
    /\ shell = "join"
    /\ server.pc = "gone"
    /\ shell' = "done"
    /\ UNCHANGED <<queue, stopping>> /\ ShellStep

Done == shell = "done" /\ UNCHANGED vars

Next ==
    \/ Server \/ Worker
    \/ Bootstrapped \/ SendPeerMessage \/ Tick \/ RequestStop
    \/ LeaveLoop \/ JoinServer \/ Done

\* Every thread runs; the nonce search ends if it goes on; and the channel
\* serves its senders in turn, so a sender is not passed over for ever.
Fairness ==
    /\ WF_vars(Server)
    /\ WF_vars(Worker)
    /\ SF_vars(Solve)
    /\ SF_vars(Notify)
    /\ WF_vars(Bootstrapped \/ LeaveLoop \/ JoinServer)

Spec == Init /\ [][Next]_vars /\ Fairness

------------------------------------------------------------------------------
Candidate == [prev : Nat, txs : SUBSET Txs]

\* The channel of the event loop never holds more than its capacity, the
\* worker never holds work of a future generation, and candidates are built
\* on tips the node has had.
MiningTypeOK ==
    /\ Len(queue) <= Capacity
    /\ worker.current # NoWork =>
         /\ worker.current.candidate \in Candidate
         /\ worker.current.candidate.prev <= state.tip
         /\ worker.current.generation \in 1..generation
    /\ worker.pc \in {"check", "try", "notify"} => worker.current # NoWork
    /\ worker.pc = "recv" => worker.current = NoWork

\* The candidates the miner will go on with: submitted or being searched, and
\* not superseded.
ActiveCandidates ==
    { commands[i].job.candidate :
        i \in { j \in DOMAIN commands : /\ commands[j].job.kind = "Submit"
                                        /\ commands[j].generation = generation } }
      \cup (IF worker.current.generation = generation /\ worker.current # NoWork
              THEN {worker.current.candidate} ELSE {})

SolvedCandidates ==
    { queue[i].candidate :
        i \in { j \in DOMAIN queue : queue[j].kind = "MinedCandidate" } }

\* While transactions are pending and the event loop waits for an event, a
\* candidate on the current tip is under way: no job is lost between the
\* generation counter and the channel, whatever the worker is doing
\* (maybe_refresh_mining, Miner::submit, run_miner_worker).
MinerWorksOnTip ==
    (shell = "loop" /\ server.pc = "recv" /\ state.pool # {}) =>
        \E c \in ActiveCandidates \cup SolvedCandidates : c.prev = state.tip

\* A node that goes on running empties its pool again and again: what is
\* pending is mined (handle_mined_candidate refreshes the miner).
PendingEventuallyMined == (state.pool # {}) ~> (state.pool = {} \/ stopping)

\* With nothing pending and the event loop waiting, every attempt has been
\* called off, also one the worker has not heard of yet
\* (refresh_mining_candidate cancels the attempt).
EmptyPoolCallsOffMining ==
    (shell = "loop" /\ server.pc = "recv" /\ state.pool = {}) => ActiveCandidates = {}

\* A stop request ends the node: the miner, the event loop and the shell all
\* return (serve_inner, disconnect, Miner::stop).
StopTerminates == stopping ~> (shell = "done")
==============================================================================
