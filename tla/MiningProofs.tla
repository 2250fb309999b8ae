----------------------------- MODULE MiningProofs -----------------------------
(***************************************************************************)
(* No job is lost between the event loop and the miner thread, for every   *)
(* set of transactions, every capacity and every load.                     *)
(***************************************************************************)
EXTENDS MiningLoop, SequenceTheorems, TLAPS

Job == {NoJob, CancelJob, StopJob} \cup { SubmitJob(c) : c \in Candidate }

Command == [job : Job, generation : Nat]

QueuedEvent ==
    { Event(kind) : kind \in {"Bootstrap", "PeerMessage", "SyncTick", "Stop"} }
      \cup { Mined(c) : c \in Candidate }

WorkItem == {NoWork} \cup [generation : Nat \ {0}, candidate : Candidate]

LoopState == [tip : Nat, pool : SUBSET Txs, known : SUBSET Txs]

Types ==
    /\ state \in LoopState
    /\ queue \in Seq(QueuedEvent)
    /\ Len(queue) <= Capacity
    /\ server \in [pc : {"recv", "bump", "send", "join", "gone"}, job : Job]
    /\ generation \in Nat
    /\ commands \in Seq(Command)
    /\ worker \in [pc : {"recv", "check", "try", "notify", "drain", "gone"},
                   current : WorkItem, replace : BOOLEAN]

\* Every command is of a newer generation than the one before it and than
\* the current work; the counter may be ahead of all of them.
Ordered ==
    /\ \A i, j \in DOMAIN commands : i < j => commands[i].generation < commands[j].generation
    /\ \A i \in DOMAIN commands : /\ worker.current.generation < commands[i].generation
                                  /\ commands[i].generation <= generation
    /\ worker.current.generation <= generation
    /\ server.pc = "send" =>
         /\ \A i \in DOMAIN commands : commands[i].generation < generation
         /\ worker.current.generation < generation

\* Only work of an older generation is marked to be given up.
WorkerOk ==
    /\ worker.pc = "recv" => worker.current = NoWork
    /\ worker.pc \in {"check", "try", "notify"} => worker.current # NoWork
    /\ worker.replace => worker.pc \in {"drain", "check"} /\ worker.current.generation < generation

\* No candidate is built on a tip the node has not had.
PrevsOk ==
    /\ \A i \in DOMAIN commands :
         commands[i].job.kind = "Submit" => commands[i].job.candidate.prev <= state.tip
    /\ worker.current # NoWork => worker.current.candidate.prev <= state.tip

\* The job on its way to the miner fits the state.
Fits(job, s) ==
    \/ job = CancelJob /\ s.pool = {}
    \/ /\ job.kind = "Submit"
       /\ s.pool # {}
       /\ job.candidate.prev = s.tip

JobFits ==
    server.pc \in {"bump", "send"} => server.job = StopJob \/ Fits(server.job, state)

Booting == \E i \in DOMAIN queue : queue[i].kind = "Bootstrap"

\* What the two invariants say, from the moment Bootstrap has been handled.
Covered ==
    (server.pc = "recv" /\ ~Booting) =>
        IF state.pool = {}
          THEN ActiveCandidates = {}
          ELSE \E c \in ActiveCandidates \cup SolvedCandidates : c.prev = state.tip

MiningInv ==
    /\ Types
    /\ Ordered
    /\ WorkerOk
    /\ PrevsOk
    /\ JobFits
    /\ shell = "loop" => ~Booting
    /\ Covered

------------------------------------------------------------------------------
\* The four kinds of jobs are told apart.
LEMMA JobKinds ==
    ASSUME NEW job \in Job
    PROVE  /\ job.kind = "Submit" => job.candidate \in Candidate
           /\ job.kind = "Submit" => job # StopJob /\ job # NoJob /\ job # CancelJob
           /\ job.kind # "Submit" => job \in {NoJob, CancelJob, StopJob}
           /\ CancelJob # NoJob /\ StopJob # NoJob /\ CancelJob # StopJob
           /\ CancelJob.kind # "Submit" /\ StopJob.kind # "Submit" /\ NoJob.kind # "Submit"
<1>1. NoJob.kind = "None" /\ CancelJob.kind = "Cancel" /\ StopJob.kind = "Stop"
  BY DEF NoJob, CancelJob, StopJob
<1>2. ASSUME NEW c
      PROVE  SubmitJob(c).kind = "Submit" /\ SubmitJob(c).candidate = c
  BY DEF SubmitJob
<1>. QED
  BY <1>1, <1>2 DEF Job

\* A refresh leaves a job that fits the state.
LEMMA RefreshFits ==
    ASSUME NEW s \in LoopState, NEW job \in RefreshJobs(s)
    PROVE  job \in Job /\ job # NoJob /\ Fits(job, s)
<1>1. CASE s.pool = {}
  BY <1>1, JobKinds DEF RefreshJobs, Job, Fits
<1>2. CASE s.pool # {}
  <2>1. PICK c \in Candidates(s) : job = SubmitJob(c)
    BY <1>2 DEF RefreshJobs
  <2>2. c \in Candidate /\ c.prev = s.tip
    BY DEF Candidates, Candidate, LoopState
  <2>3. job.kind = "Submit" /\ job.candidate = c /\ job \in Job
    BY <2>1, <2>2 DEF SubmitJob, Job
  <2>. QED
    BY <1>2, <2>2, <2>3, JobKinds DEF Fits
<1>. QED
  BY <1>1, <1>2

\* What a command in the channel carries.
LEMMA CommandTypes ==
    ASSUME NEW cmds \in Seq(Command), NEW i \in DOMAIN cmds
    PROVE  /\ cmds[i].job \in Job
           /\ cmds[i].generation \in Nat
           /\ cmds[i].job.kind = "Submit" => cmds[i].job.candidate \in Candidate
<1>1. cmds[i] \in Command
  OBVIOUS
<1>2. cmds[i].job \in Job /\ cmds[i].generation \in Nat
  BY <1>1 DEF Command
<1>. QED
  BY <1>2, JobKinds

\* An update of the tip and the pool, field by field.
LEMMA UpdateTipAndPool ==
    ASSUME NEW s \in LoopState, NEW v \in Nat, NEW rest \in SUBSET s.pool
    PROVE  LET new == [s EXCEPT !.tip = v, !.pool = rest]
           IN  new \in LoopState /\ new.tip = v
<1>. DEFINE q == [s EXCEPT !.tip = v]
<1>1. [s EXCEPT !.tip = v, !.pool = rest] = [q EXCEPT !.pool = rest]
  BY DEF LoopState
<1>2. q \in LoopState /\ q.tip = v /\ rest \in SUBSET Txs
  BY DEF LoopState
<1>. HIDE DEF q
<1>3. [q EXCEPT !.pool = rest] \in LoopState /\ [q EXCEPT !.pool = rest].tip = v
  BY <1>2 DEF LoopState
<1>. QED
  BY <1>1, <1>3

\* An update of the pool and the known transactions, field by field.
LEMMA UpdatePoolAndKnown ==
    ASSUME NEW s \in LoopState, NEW p \in SUBSET Txs, NEW k \in SUBSET Txs
    PROVE  LET new == [s EXCEPT !.pool = p, !.known = k]
           IN  new \in LoopState /\ new.tip = s.tip
<1>. DEFINE q == [s EXCEPT !.pool = p]
<1>1. [s EXCEPT !.pool = p, !.known = k] = [q EXCEPT !.known = k]
  BY DEF LoopState
<1>2. q \in LoopState /\ q.tip = s.tip
  BY DEF LoopState
<1>. HIDE DEF q
<1>3. [q EXCEPT !.known = k] \in LoopState /\ [q EXCEPT !.known = k].tip = s.tip
  BY <1>2 DEF LoopState
<1>. QED
  BY <1>1, <1>3

\* What handling an event makes of the state.
LEMMA MovedTipsType ==
    ASSUME NEW s \in LoopState, NEW new \in MovedTips(s)
    PROVE  new \in LoopState /\ new.tip = s.tip + 1
<1>. DEFINE v == s.tip + 1
<1>1. PICK rest \in SUBSET s.pool : new = [s EXCEPT !.tip = v, !.pool = rest]
  BY DEF MovedTips
<1>2. v \in Nat
  BY DEF LoopState
<1>. HIDE DEF v
<1>3. new \in LoopState /\ new.tip = v
  BY <1>1, <1>2, UpdateTipAndPool, Zenon
<1>. QED
  BY <1>3 DEF v

\* An admitted transaction leaves the tip alone.
LEMMA AdmittedType ==
    ASSUME NEW s \in LoopState, NEW new \in Admitted(s)
    PROVE  new \in LoopState /\ new.tip = s.tip
<1>1. PICK t \in Txs :
        new \in { [s EXCEPT !.pool = rest \cup {t}, !.known = s.known \cup {t}] :
                    rest \in SUBSET s.pool }
  BY DEF Admitted
<1>3. PICK rest \in SUBSET s.pool :
        new = [s EXCEPT !.pool = rest \cup {t}, !.known = s.known \cup {t}]
  BY <1>1
<1>2. rest \cup {t} \in SUBSET Txs /\ s.known \cup {t} \in SUBSET Txs
  BY DEF LoopState
<1>. QED
  BY <1>2, <1>3, UpdatePoolAndKnown, Zenon

\* A solved candidate that is accepted moves the tip by one.
LEMMA ConfirmedType ==
    ASSUME NEW s \in LoopState, NEW c, NEW new \in Confirmed(s, c)
    PROVE  new \in LoopState /\ new.tip = s.tip + 1
<1>. DEFINE v == s.tip + 1
<1>1. PICK rest \in SUBSET s.pool : new = [s EXCEPT !.tip = v, !.pool = rest]
  BY DEF Confirmed
<1>2. v \in Nat
  BY DEF LoopState
<1>. HIDE DEF v
<1>3. new \in LoopState /\ new.tip = v
  BY <1>1, <1>2, UpdateTipAndPool, Zenon
<1>. QED
  BY <1>3 DEF v

\* The node starts with Bootstrap queued and an idle miner.
LEMMA Begin == Init => MiningInv
<1>. SUFFICES ASSUME Init PROVE MiningInv
  OBVIOUS
<1>1. state \in LoopState
  BY DEF Init, LoopState
<1>2. /\ queue \in Seq(QueuedEvent) /\ Len(queue) = 1 /\ queue[1].kind = "Bootstrap"
      /\ 1 \in DOMAIN queue
  <2>1. Event("Bootstrap") \in QueuedEvent /\ Event("Bootstrap").kind = "Bootstrap"
    BY DEF QueuedEvent, Event
  <2>. QED
    BY <2>1 DEF Init
<1>3. NoWork \in WorkItem /\ NoWork.generation = 0 /\ NoJob \in Job
  BY DEF WorkItem, NoWork, Job
<1>4. Types
  BY <1>1, <1>2, <1>3, MiningLoopAssumption DEF Init, Types
<1>5. commands = <<>> /\ DOMAIN commands = {}
  BY DEF Init
<1>. QED
  BY <1>2, <1>3, <1>4, <1>5
     DEF Init, MiningInv, Ordered, WorkerOk, PrevsOk, JobFits, Covered, Booting

------------------------------------------------------------------------------
\* Taking the first event off the queue.
LEMMA TailOfQueue ==
    ASSUME NEW q \in Seq(QueuedEvent), q # <<>>
    PROVE  /\ Tail(q) \in Seq(QueuedEvent)
           /\ Len(Tail(q)) = Len(q) - 1
           /\ \A i \in DOMAIN Tail(q) : i + 1 \in DOMAIN q /\ Tail(q)[i] = q[i + 1]
           /\ \A i \in DOMAIN q : i # 1 => i - 1 \in DOMAIN Tail(q) /\ Tail(q)[i - 1] = q[i]
           /\ 1 \in DOMAIN q /\ Head(q) = q[1]
  OBVIOUS

\* An event has been handled: either the miner is told about the new state, or
\* nothing it depends on has changed.
LEMMA HandleInv ==
    ASSUME MiningInv, NEW kind, NEW new \in LoopState, NEW jobs,
           Handle(kind, new, jobs),
           state.tip <= new.tip,
           \A job \in jobs : job = NoJob \/ job \in RefreshJobs(new),
           NoJob \in jobs =>
             /\ new.tip = state.tip /\ new.pool = state.pool
             /\ kind # "Bootstrap"
             /\ kind = "MinedCandidate" => Head(queue).candidate.prev # state.tip
    PROVE  MiningInv'
<1>1. /\ server.pc = "recv" /\ queue # <<>> /\ Head(queue).kind = kind
      /\ queue' = Tail(queue) /\ state' = new
      /\ UNCHANGED <<shell, stopping, generation, commands, worker>>
  BY DEF Handle
<1>2. PICK job \in jobs : Proceed(job, stopping \/ kind = "Stop")
  BY DEF Handle
<1>3. /\ server' \in [pc : {"recv", "bump", "send", "join", "gone"}, job : Job]
      /\ server'.pc = "recv" => job = NoJob
      /\ server'.pc = "bump" => server'.job = StopJob \/ Fits(server'.job, new)
      /\ server'.pc \in {"recv", "bump"}
  <2>1. CASE job # NoJob
    <3>1. job \in Job /\ Fits(job, new)
      BY <2>1, RefreshFits
    <3>. QED
      BY <1>2, <2>1, <3>1 DEF Proceed
  <2>2. CASE job = NoJob
    BY <1>2, <2>2 DEF Proceed, Job
  <2>. QED
    BY <2>1, <2>2
<1>4. /\ queue \in Seq(QueuedEvent) /\ Len(queue) <= Capacity
      /\ queue' \in Seq(QueuedEvent) /\ Len(queue') <= Capacity
      /\ state \in LoopState
  BY <1>1, TailOfQueue, MiningLoopAssumption DEF MiningInv, Types
<1>5. Types'
  BY <1>1, <1>3, <1>4 DEF MiningInv, Types
<1>6. Ordered' /\ WorkerOk'
  BY <1>1, <1>3 DEF MiningInv, Ordered, WorkerOk
<1>7. PrevsOk'
  <2>1. \A x \in Nat : x <= state.tip => x <= new.tip
    BY <1>4 DEF LoopState
  <2>2. \A i \in DOMAIN commands : commands[i].job.kind = "Submit" =>
            commands[i].job.candidate.prev \in Nat
    BY CommandTypes DEF MiningInv, Types, Candidate
  <2>3. worker.current # NoWork => worker.current.candidate.prev \in Nat
    BY DEF MiningInv, Types, WorkItem, Candidate
  <2>. QED
    BY <1>1, <2>1, <2>2, <2>3 DEF MiningInv, PrevsOk
<1>8. JobFits'
  BY <1>1, <1>3 DEF JobFits
<1>9. Booting' => Booting
  BY <1>1, <1>4, TailOfQueue DEF Booting
<1>10. Covered'
  <2>. SUFFICES ASSUME server'.pc = "recv", ~Booting'
                PROVE  IF new.pool = {}
                         THEN ActiveCandidates' = {}
                         ELSE \E c \in (ActiveCandidates \cup SolvedCandidates)' : c.prev = new.tip
    BY <1>1 DEF Covered
  <2>1. /\ new.tip = state.tip /\ new.pool = state.pool
        /\ kind # "Bootstrap"
        /\ kind = "MinedCandidate" => queue[1].candidate.prev # state.tip
    BY <1>1, <1>2, <1>3, <1>4, TailOfQueue
  <2>2. ~Booting
    <3>. SUFFICES ASSUME NEW i \in DOMAIN queue, queue[i].kind = "Bootstrap"
                  PROVE  FALSE
      BY DEF Booting
    <3>1. i # 1
      BY <1>1, <1>4, <2>1, TailOfQueue
    <3>2. i - 1 \in DOMAIN queue' /\ queue'[i - 1].kind = "Bootstrap"
      BY <1>1, <1>4, <3>1, TailOfQueue
    <3>. QED
      BY <3>2 DEF Booting
  <2>3. ActiveCandidates' = ActiveCandidates
    BY <1>1 DEF ActiveCandidates
  <2>4. ASSUME NEW c \in SolvedCandidates, c.prev = state.tip
        PROVE  c \in SolvedCandidates'
    <3>1. PICK i \in DOMAIN queue : queue[i].kind = "MinedCandidate" /\ c = queue[i].candidate
      BY DEF SolvedCandidates
    <3>2. i # 1
      BY <1>1, <1>4, <2>1, <2>4, <3>1, TailOfQueue
    <3>3. i - 1 \in DOMAIN queue' /\ queue'[i - 1] = queue[i]
      BY <1>1, <1>4, <3>2, TailOfQueue
    <3>. QED
      BY <3>1, <3>3 DEF SolvedCandidates
  <2>. QED
    BY <1>1, <2>1, <2>2, <2>3, <2>4 DEF MiningInv, Covered
<1>. QED
  BY <1>1, <1>5, <1>6, <1>7, <1>8, <1>9, <1>10 DEF MiningInv

------------------------------------------------------------------------------
\* The event loop thread.
LEMMA ServerInv ==
    ASSUME MiningInv, ~SyncAdvances, Server
    PROVE  MiningInv'
<1>. USE DEF MiningInv
<1>0. state \in LoopState /\ state.tip \in Nat
  BY DEF Types, LoopState
<1>1. CASE HandleBootstrap
  <2>1. PICK new \in {state} \cup MovedTips(state) :
          Handle("Bootstrap", new, RefreshJobs(new))
    BY <1>1 DEF HandleBootstrap
  <2>2. new \in LoopState /\ state.tip <= new.tip
    BY <1>0, MovedTipsType
  <2>3. NoJob \notin RefreshJobs(new)
    BY <2>2, RefreshFits
  <2>. QED
    BY <2>1, <2>2, <2>3, HandleInv
<1>2. CASE HandlePeerMessage
  <2>1. PICK new \in {state} \cup MovedTips(state) \cup Admitted(state) :
          Handle("PeerMessage", new, maybe_refresh_mining(state, new))
    BY <1>2 DEF HandlePeerMessage
  <2>2. new \in LoopState /\ state.tip <= new.tip
    BY <1>0, MovedTipsType, AdmittedType
  <2>3. /\ \A job \in maybe_refresh_mining(state, new) : job = NoJob \/ job \in RefreshJobs(new)
        /\ NoJob \in maybe_refresh_mining(state, new) =>
             new.tip = state.tip /\ new.pool = state.pool
    BY <2>2, RefreshFits DEF maybe_refresh_mining
  <2>. QED
    BY <2>1, <2>2, <2>3, HandleInv
<1>3. CASE HandleSyncTick
  <2>1. Handle("SyncTick", state, {NoJob})
    BY <1>3 DEF HandleSyncTick
  <2>. QED
    BY <1>0, <2>1, HandleInv
<1>4. CASE HandleMinedCandidate
  <2>. DEFINE c == Head(queue).candidate
  <2>1. PICK new \in IF c.prev = state.tip THEN Confirmed(state, c) ELSE {state} :
          Handle("MinedCandidate", new, maybe_refresh_mining(state, new))
    BY <1>4 DEF HandleMinedCandidate
  <2>2. /\ new \in LoopState /\ state.tip <= new.tip
        /\ new.tip = state.tip => c.prev # state.tip
    BY <1>0, ConfirmedType
  <2>3. /\ \A job \in maybe_refresh_mining(state, new) : job = NoJob \/ job \in RefreshJobs(new)
        /\ NoJob \in maybe_refresh_mining(state, new) =>
             new.tip = state.tip /\ new.pool = state.pool
    BY <2>2, RefreshFits DEF maybe_refresh_mining
  <2>. QED
    BY <2>1, <2>2, <2>3, HandleInv
<1>5. CASE HandleStop
  <2>1. Handle("Stop", state, {NoJob})
    BY <1>5 DEF HandleStop
  <2>. QED
    BY <1>0, <2>1, HandleInv
<1>6. CASE BumpGeneration
  <2>1. /\ server.pc = "bump" /\ generation' = generation + 1
        /\ server' = [server EXCEPT !.pc = "send"]
        /\ UNCHANGED <<state, queue, shell, stopping, commands, worker>>
    BY <1>6 DEF BumpGeneration
  <2>2. server'.pc = "send" /\ server'.job = server.job /\ Types'
    BY <2>1 DEF Types
  <2>3. /\ \A i \in DOMAIN commands : commands[i].generation \in Nat
        /\ worker.current.generation \in Nat /\ generation \in Nat
    BY CommandTypes DEF Types, WorkItem, NoWork
  <2>4. Ordered'
    BY <2>1, <2>2, <2>3 DEF Ordered
  <2>5. WorkerOk'
    BY <2>1, <2>3 DEF WorkerOk
  <2>. QED
    BY <2>1, <2>2, <2>4, <2>5 DEF PrevsOk, JobFits, Covered, Booting
<1>7. CASE SendCommand
  <2>. DEFINE cmd == [job |-> server.job, generation |-> generation]
  <2>1. /\ server.pc = "send" /\ commands' = Append(commands, cmd)
        /\ UNCHANGED <<state, queue, shell, stopping, generation, worker>>
    BY <1>7 DEF SendCommand
  <2>2. /\ commands \in Seq(Command) /\ cmd \in Command
        /\ cmd.job = server.job /\ cmd.generation = generation
        /\ generation \in Nat
    BY DEF Types, Command
  <2>3. /\ server' \in [pc : {"recv", "bump", "send", "join", "gone"}, job : Job]
        /\ server'.pc \in {"recv", "bump", "join"}
        /\ server'.pc = "bump" => server'.job = StopJob
        /\ server'.pc = "recv" => server.job # StopJob
    BY <1>7 DEF SendCommand, Proceed, Types, Job
  <2>. HIDE DEF cmd
  <2>4. /\ commands' \in Seq(Command) /\ Len(commands') = Len(commands) + 1
        /\ \A i \in DOMAIN commands : i \in DOMAIN commands' /\ commands'[i] = commands[i]
        /\ Len(commands) + 1 \in DOMAIN commands' /\ commands'[Len(commands) + 1] = cmd
        /\ \A i \in DOMAIN commands' : i \in DOMAIN commands \/ i = Len(commands) + 1
    BY <2>1, <2>2
  <2>5. Types'
    BY <2>1, <2>3, <2>4 DEF Types
  <2>6. Ordered'
    <3>1. \A i \in DOMAIN commands : commands[i].generation \in Nat /\ i < Len(commands) + 1
      BY <2>2, CommandTypes
    <3>. QED
      BY <2>1, <2>2, <2>3, <2>4, <3>1 DEF Ordered
  <2>7. WorkerOk' /\ JobFits'
    BY <2>1, <2>3 DEF WorkerOk, JobFits
  <2>8. PrevsOk'
    <3>1. cmd.job.kind = "Submit" => cmd.job.candidate.prev <= state.tip
      BY <1>0, <2>1, <2>2, JobKinds DEF JobFits, Fits, Types
    <3>. QED
      BY <2>1, <2>4, <3>1 DEF PrevsOk
  <2>9. Covered'
    <3>. SUFFICES ASSUME server'.pc = "recv"
                  PROVE  IF state.pool = {} THEN ActiveCandidates' = {}
                         ELSE \E c \in ActiveCandidates' : c.prev = state.tip
      BY <2>1 DEF Covered
    <3>1. Fits(server.job, state)
      BY <2>1, <2>3 DEF JobFits
    <3>2. CASE state.pool = {}
      <4>1. cmd.job.kind # "Submit"
        BY <2>2, <3>1, <3>2, JobKinds DEF Fits, Types
      <4>2. /\ \A i \in DOMAIN commands : commands[i].generation # generation
            /\ worker.current.generation # generation
        BY <2>1, <2>2, CommandTypes DEF Ordered, Types, WorkItem, NoWork
      <4>. QED
        BY <2>1, <2>4, <3>2, <4>1, <4>2 DEF ActiveCandidates
    <3>3. CASE state.pool # {}
      <4>1. cmd.job.kind = "Submit" /\ cmd.job.candidate.prev = state.tip
        BY <2>2, <3>1, <3>3 DEF Fits
      <4>2. cmd.job.candidate \in ActiveCandidates'
        BY <2>1, <2>2, <2>4, <4>1 DEF ActiveCandidates
      <4>. QED
        BY <3>3, <4>1, <4>2
    <3>. QED
      BY <3>2, <3>3
  <2>. QED
    BY <2>1, <2>5, <2>6, <2>7, <2>8, <2>9 DEF Booting
<1>8. CASE JoinMiner
  <2>1. /\ server' \in [pc : {"recv", "bump", "send", "join", "gone"}, job : Job]
        /\ server'.pc = "gone"
        /\ UNCHANGED <<state, queue, shell, stopping, generation, commands, worker>>
    BY <1>8 DEF JoinMiner, Types
  <2>. QED
    BY <2>1 DEF Types, Ordered, WorkerOk, PrevsOk, JobFits, Covered, Booting
<1>. QED
  BY <1>1, <1>2, <1>3, <1>4, <1>5, <1>6, <1>7, <1>8 DEF Server

------------------------------------------------------------------------------
WorkerType == [pc : {"recv", "check", "try", "notify", "drain", "gone"},
               current : WorkItem, replace : BOOLEAN]

\* Work has a generation above zero, and its absence generation zero.
LEMMA WorkTypes ==
    ASSUME NEW w \in WorkItem
    PROVE  /\ w.generation \in Nat
           /\ w # NoWork => w.candidate \in Candidate /\ w.generation # 0
           /\ NoWork \in WorkItem /\ NoWork.generation = 0
  BY DEF WorkItem, NoWork

\* The worker goes on with the work it has.
LEMMA SameWorkInv ==
    ASSUME MiningInv, worker' \in WorkerType, worker'.current = worker.current, WorkerOk',
           UNCHANGED <<state, queue, shell, server, stopping, generation, commands>>
    PROVE  MiningInv'
<1>1. ActiveCandidates' = ActiveCandidates /\ SolvedCandidates' = SolvedCandidates
  BY DEF ActiveCandidates, SolvedCandidates
<1>. QED
  BY <1>1 DEF MiningInv, Types, WorkerType, Ordered, PrevsOk, JobFits, Covered, Booting

\* The worker takes a command: the work it brings replaces older work.
LEMMA TakeCommandInv ==
    ASSUME MiningInv, commands # <<>>, commands' = Tail(commands),
           worker' \in [pc : {"recv", "check", "drain", "gone"},
                        current : {Work(Head(commands))}, replace : {FALSE}],
           worker'.pc = "check" => Head(commands).job.kind = "Submit",
           worker'.pc = "recv" => Head(commands).job.kind # "Submit",
           UNCHANGED <<state, queue, shell, server, stopping, generation>>
    PROVE  MiningInv'
<1>. DEFINE cmd == Head(commands)
<1>1. /\ commands \in Seq(Command) /\ commands' \in Seq(Command) /\ 1 \in DOMAIN commands
      /\ cmd = commands[1]
      /\ \A i \in DOMAIN commands' : i + 1 \in DOMAIN commands /\ commands'[i] = commands[i + 1]
      /\ \A i \in DOMAIN commands : i # 1 => /\ i - 1 \in DOMAIN commands'
                                             /\ commands'[i - 1] = commands[i]
      /\ \A i \in DOMAIN commands : i \in Nat /\ i >= 1
  BY DEF MiningInv, Types
<1>2. /\ cmd.job \in Job /\ cmd.generation \in Nat
      /\ cmd.job.kind = "Submit" => cmd.job.candidate \in Candidate
  BY <1>1, CommandTypes
<1>3. /\ generation \in Nat /\ worker.current.generation \in Nat
      /\ worker.current.generation < cmd.generation /\ cmd.generation <= generation
  BY <1>1, WorkTypes DEF MiningInv, Types, Ordered
<1>. HIDE DEF cmd
<1>4. /\ worker'.current = Work(cmd) /\ worker'.replace = FALSE
      /\ worker'.pc \in {"recv", "check", "drain", "gone"}
  BY DEF cmd
<1>5. /\ cmd.job.kind = "Submit" =>
           /\ Work(cmd).generation = cmd.generation
           /\ Work(cmd).candidate = cmd.job.candidate
           /\ Work(cmd) # NoWork
           /\ Work(cmd) \in WorkItem
      /\ cmd.job.kind # "Submit" => Work(cmd) = NoWork
  <2>1. cmd.generation \in Nat \ {0}
    BY <1>2, <1>3
  <2>. QED
    BY <1>2, <2>1, WorkTypes DEF Work, WorkItem
<1>11. /\ Work(cmd) \in WorkItem
       /\ cmd.job.kind # "Submit" => Work(cmd).generation = 0
  BY <1>5 DEF WorkItem, NoWork
<1>6. Types'
  <2>1. worker' \in WorkerType
    BY <1>11 DEF WorkerType, cmd
  <2>. QED
    BY <1>1, <2>1 DEF MiningInv, Types, WorkerType
<1>7. Ordered'
  <2>1. /\ Work(cmd).generation <= cmd.generation /\ Work(cmd).generation \in Nat
    BY <1>2, <1>5, <1>11
  <2>2. ASSUME NEW i \in DOMAIN commands'
        PROVE  /\ commands'[i].generation \in Nat
               /\ Work(cmd).generation < commands'[i].generation
               /\ commands'[i].generation <= generation
    <3>1. i + 1 \in DOMAIN commands /\ 1 < i + 1 /\ commands'[i] = commands[i + 1]
      BY <1>1
    <3>2. commands[i + 1].generation \in Nat
      BY <1>1, <3>1, CommandTypes
    <3>3. /\ commands[1].generation < commands[i + 1].generation
          /\ commands[i + 1].generation <= generation
      BY <1>1, <3>1 DEF MiningInv, Ordered
    <3>. QED
      BY <1>1, <1>2, <2>1, <3>1, <3>2, <3>3
  <2>3. \A i, j \in DOMAIN commands' :
            i < j => commands'[i].generation < commands'[j].generation
    <3>. SUFFICES ASSUME NEW i \in DOMAIN commands', NEW j \in DOMAIN commands', i < j
                  PROVE  commands'[i].generation < commands'[j].generation
      OBVIOUS
    <3>1. i \in Nat /\ j \in Nat /\ i + 1 < j + 1
      BY <1>1
    <3>. QED
      BY <1>1, <3>1 DEF MiningInv, Ordered
  <2>4. server.pc = "send" => /\ \A i \in DOMAIN commands' : commands'[i].generation < generation
                              /\ Work(cmd).generation < generation
    BY <1>1, <1>2, <1>3, <2>1 DEF MiningInv, Ordered
  <2>. QED
    BY <1>2, <1>3, <1>4, <2>1, <2>2, <2>3, <2>4 DEF Ordered
<1>8. WorkerOk'
  BY <1>4, <1>5 DEF WorkerOk, cmd
<1>9. PrevsOk'
  BY <1>1, <1>4, <1>5 DEF MiningInv, PrevsOk
<1>10. ActiveCandidates' = ActiveCandidates
  <2>1. worker.current.generation # generation
    BY <1>2, <1>3
  <2>2. ASSUME NEW c \in ActiveCandidates
        PROVE  c \in ActiveCandidates'
    <3>1. PICK i \in DOMAIN commands : /\ commands[i].job.kind = "Submit"
                                       /\ commands[i].generation = generation
                                       /\ c = commands[i].job.candidate
      BY <2>1 DEF ActiveCandidates
    <3>2. CASE i = 1
      BY <1>1, <1>4, <1>5, <3>1, <3>2 DEF ActiveCandidates
    <3>3. CASE i # 1
      <4>1. i - 1 \in DOMAIN commands' /\ commands'[i - 1] = commands[i]
        BY <1>1, <3>3
      <4>. HIDE DEF cmd
      <4>. QED
        BY <3>1, <4>1 DEF ActiveCandidates
    <3>. QED
      BY <3>2, <3>3
  <2>3. ASSUME NEW c \in ActiveCandidates'
        PROVE  c \in ActiveCandidates
    <3>1. CASE \E i \in DOMAIN commands' : /\ commands'[i].job.kind = "Submit"
                                           /\ commands'[i].generation = generation
                                           /\ c = commands'[i].job.candidate
      BY <1>1, <3>1 DEF ActiveCandidates
    <3>2. CASE /\ worker'.current.generation = generation /\ worker'.current # NoWork
               /\ c = worker'.current.candidate
      BY <1>1, <1>4, <1>5, <3>2 DEF ActiveCandidates
    <3>. QED
      BY <3>1, <3>2 DEF ActiveCandidates
  <2>. QED
    BY <2>2, <2>3
<1>. QED
  BY <1>6, <1>7, <1>8, <1>9, <1>10
     DEF MiningInv, JobFits, Covered, Booting, SolvedCandidates

\* An update of the worker's position and work, field by field.
LEMMA UpdateWorker ==
    ASSUME NEW w \in WorkerType, NEW pc, NEW work
    PROVE  [w EXCEPT !.pc = pc, !.current = work]
             = [pc |-> pc, current |-> work, replace |-> w.replace]
<1>. DEFINE q == [w EXCEPT !.pc = pc]
<1>1. [w EXCEPT !.pc = pc, !.current = work] = [q EXCEPT !.current = work]
  BY DEF WorkerType
<1>2. q = [pc |-> pc, current |-> w.current, replace |-> w.replace]
  BY DEF WorkerType
<1>. HIDE DEF q
<1>. QED
  BY <1>1, <1>2

\* The miner thread.
LEMMA WorkerInv ==
    ASSUME MiningInv, Worker
    PROVE  MiningInv'
<1>0. /\ worker \in WorkerType /\ generation \in Nat /\ worker.current \in WorkItem
      /\ worker.current.generation \in Nat /\ NoWork \in WorkItem /\ NoWork.generation = 0
  BY WorkTypes DEF MiningInv, Types, WorkerType
<1>1. CASE Receive
  <2>. DEFINE cmd == Head(commands)
              pc == CASE cmd.job = StopJob       -> "gone"
                      [] cmd.job.kind = "Submit" -> "check"
                      [] OTHER                   -> "recv"
  <2>1. /\ worker.pc = "recv" /\ commands # <<>> /\ commands' = Tail(commands)
        /\ worker' = [worker EXCEPT !.pc = pc, !.current = Work(cmd)]
        /\ UNCHANGED <<state, queue, shell, server, stopping, generation>>
    BY <1>1 DEF Receive, WorkerStep
  <2>2. cmd.job \in Job
    <3>1. commands \in Seq(Command) /\ 1 \in DOMAIN commands /\ cmd = commands[1]
      BY <2>1 DEF MiningInv, Types
    <3>. QED
      BY <3>1, CommandTypes
  <2>3. /\ pc \in {"recv", "check", "drain", "gone"}
        /\ pc = "check" => cmd.job.kind = "Submit"
        /\ pc = "recv" => cmd.job.kind # "Submit"
    OBVIOUS
  <2>. HIDE DEF pc, cmd
  <2>4. worker.replace = FALSE
    BY <1>0, <2>1 DEF MiningInv, WorkerOk, WorkerType
  <2>5. worker' = [pc |-> pc, current |-> Work(cmd), replace |-> FALSE]
    BY <1>0, <2>1, <2>4, UpdateWorker
  <2>6. /\ worker' \in [pc : {"recv", "check", "drain", "gone"},
                         current : {Work(cmd)}, replace : {FALSE}]
        /\ worker'.pc = pc
    BY <2>3, <2>5
  <2>. QED
    BY <2>1, <2>3, <2>6, TakeCommandInv DEF cmd
<1>2. CASE CheckGeneration
  <2>1. /\ worker.pc = "check"
        /\ worker' = IF generation # worker.current.generation
                       THEN [worker EXCEPT !.pc = "drain", !.replace = TRUE]
                       ELSE [worker EXCEPT !.pc = "try", !.replace = FALSE]
        /\ UNCHANGED <<state, queue, shell, server, stopping, generation, commands>>
    BY <1>2 DEF CheckGeneration, WorkerStep
  <2>2. worker.current # NoWork /\ worker.current.generation <= generation
    BY <2>1 DEF MiningInv, WorkerOk, Ordered
  <2>3. /\ worker' \in WorkerType /\ worker'.current = worker.current
        /\ worker'.replace => worker'.pc = "drain" /\ generation # worker.current.generation
        /\ worker'.pc \in {"drain", "try"}
    BY <1>0, <2>1 DEF WorkerType
  <2>4. WorkerOk'
    BY <1>0, <2>1, <2>2, <2>3 DEF WorkerOk
  <2>. QED
    BY <2>1, <2>3, <2>4, SameWorkInv
<1>3. CASE TryNonce \/ Solve
  <2>1. PICK pc \in {"check", "drain", "notify"} : worker' = [worker EXCEPT !.pc = pc]
    BY <1>3 DEF TryNonce, Solve, WorkerStep
  <2>2. /\ worker.pc = "try"
        /\ UNCHANGED <<state, queue, shell, server, stopping, generation, commands>>
    BY <1>3 DEF TryNonce, Solve, WorkerStep
  <2>3. /\ worker' \in WorkerType /\ worker'.current = worker.current
        /\ worker'.replace = worker.replace /\ worker'.pc = pc
    BY <1>0, <2>1 DEF WorkerType
  <2>4. ~worker.replace /\ worker.current # NoWork
    BY <2>2 DEF MiningInv, WorkerOk
  <2>5. WorkerOk'
    BY <2>3, <2>4 DEF WorkerOk
  <2>. QED
    BY <2>2, <2>3, <2>5, SameWorkInv
<1>4. CASE Notify
  <2>. DEFINE c == worker.current.candidate
  <2>1. /\ worker.pc = "notify" /\ Len(queue) < Capacity /\ queue' = Append(queue, Mined(c))
        /\ worker' = [worker EXCEPT !.pc = "drain", !.current = NoWork]
        /\ UNCHANGED <<state, shell, server, stopping, generation, commands>>
    BY <1>4 DEF Notify, WorkerStep
  <2>2. worker.current # NoWork /\ ~worker.replace /\ c \in Candidate
    BY <1>0, <2>1, WorkTypes DEF MiningInv, WorkerOk
  <2>. HIDE DEF c
  <2>3. /\ Mined(c) \in QueuedEvent /\ Mined(c).kind = "MinedCandidate"
        /\ Mined(c).candidate = c
    BY <2>2 DEF QueuedEvent, Mined
  <2>4. /\ queue \in Seq(QueuedEvent) /\ queue' \in Seq(QueuedEvent) /\ Len(queue') <= Capacity
        /\ \A i \in DOMAIN queue : i \in DOMAIN queue' /\ queue'[i] = queue[i]
        /\ Len(queue) + 1 \in DOMAIN queue' /\ queue'[Len(queue) + 1] = Mined(c)
        /\ \A i \in DOMAIN queue' : i \in DOMAIN queue \/ i = Len(queue) + 1
    BY <2>1, <2>3, MiningLoopAssumption DEF MiningInv, Types
  <2>5. /\ worker' \in WorkerType /\ worker'.current = NoWork /\ worker'.pc = "drain"
        /\ ~worker'.replace
    BY <1>0, <2>1, <2>2 DEF WorkerType
  <2>6. Types'
    BY <2>1, <2>4, <2>5 DEF MiningInv, Types, WorkerType
  <2>7. Ordered' /\ WorkerOk' /\ PrevsOk' /\ JobFits'
    <3>1. \A i \in DOMAIN commands : commands[i].generation \in Nat
      BY CommandTypes DEF MiningInv, Types
    <3>. QED
      BY <1>0, <2>1, <2>5, <3>1 DEF MiningInv, Ordered, WorkerOk, PrevsOk, JobFits
  <2>8. Booting' <=> Booting
    BY <2>3, <2>4 DEF Booting
  <2>9. Covered'
    <3>1. ActiveCandidates' \subseteq ActiveCandidates
      BY <2>1, <2>5 DEF ActiveCandidates
    <3>2. ActiveCandidates \subseteq ActiveCandidates' \cup {c}
      BY <2>1, <2>5 DEF ActiveCandidates, c
    <3>3. SolvedCandidates \cup {c} \subseteq SolvedCandidates'
      BY <2>3, <2>4 DEF SolvedCandidates
    <3>. QED
      BY <2>1, <2>8, <3>1, <3>2, <3>3 DEF MiningInv, Covered
  <2>. QED
    BY <2>1, <2>6, <2>7, <2>8, <2>9 DEF MiningInv
<1>5. CASE Drain
  <2>1. /\ worker.pc = "drain"
        /\ UNCHANGED <<state, queue, shell, server, stopping, generation>>
    BY <1>5 DEF Drain, WorkerStep
  <2>2. CASE commands = <<>>
    <3>. DEFINE left == IF worker.replace THEN NoWork ELSE worker.current
    <3>1. /\ commands' = commands
          /\ worker' = [pc |-> IF left = NoWork THEN "recv" ELSE "check",
                        current |-> left, replace |-> FALSE]
      BY <1>5, <2>2 DEF Drain, WorkerStep
    <3>2. left \in WorkItem /\ left.generation \in Nat /\ left.generation <= generation
          /\ (left = NoWork \/ left = worker.current)
      BY <1>0 DEF MiningInv, Ordered
    <3>3. left # worker.current => worker.current.generation # generation
      BY <1>0 DEF MiningInv, WorkerOk
    <3>. HIDE DEF left
    <3>4. /\ worker' \in WorkerType /\ worker'.current = left /\ ~worker'.replace
          /\ worker'.pc = "recv" => left = NoWork
          /\ worker'.pc = "check" => left # NoWork
          /\ worker'.pc \in {"recv", "check"}
      BY <3>1, <3>2 DEF WorkerType
    <3>5. DOMAIN commands = {}
      BY <2>2
    <3>6. Types' /\ WorkerOk' /\ PrevsOk' /\ JobFits'
      BY <2>1, <3>1, <3>2, <3>4, <3>5
         DEF MiningInv, Types, WorkerType, WorkerOk, PrevsOk, JobFits
    <3>7. Ordered'
      BY <1>0, <2>1, <3>1, <3>2, <3>4, <3>5 DEF MiningInv, Ordered
    <3>8. ActiveCandidates' = ActiveCandidates /\ SolvedCandidates' = SolvedCandidates
      BY <2>1, <3>1, <3>2, <3>3, <3>4, <3>5 DEF ActiveCandidates, SolvedCandidates
    <3>. QED
      BY <2>1, <3>6, <3>7, <3>8 DEF MiningInv, Covered, Booting
  <2>3. CASE commands # <<>>
    <3>1. /\ commands' = Tail(commands)
          /\ worker' = [pc |-> IF Head(commands).job = StopJob THEN "gone" ELSE "drain",
                        current |-> Work(Head(commands)), replace |-> FALSE]
      BY <1>5, <2>3 DEF Drain, WorkerStep
    <3>. QED
      BY <2>1, <2>3, <3>1, TakeCommandInv
  <2>. QED
    BY <2>2, <2>3
<1>. QED
  BY <1>1, <1>2, <1>3, <1>4, <1>5 DEF Worker

------------------------------------------------------------------------------
\* A message, a tick or the wake-up enters the queue.
LEMMA SendInv ==
    ASSUME MiningInv, NEW kind \in {"PeerMessage", "SyncTick", "Stop"},
           Len(queue) < Capacity, queue' = Append(queue, Event(kind)),
           shell' \in {shell, "join"},
           UNCHANGED <<state, server, stopping, generation, commands, worker>>
    PROVE  MiningInv'
<1>1. /\ Event(kind) \in QueuedEvent /\ Event(kind).kind = kind
  BY DEF QueuedEvent, Event
<1>2. /\ queue \in Seq(QueuedEvent) /\ queue' \in Seq(QueuedEvent) /\ Len(queue') <= Capacity
      /\ \A i \in DOMAIN queue : i \in DOMAIN queue' /\ queue'[i] = queue[i]
      /\ \A i \in DOMAIN queue' : i \in DOMAIN queue \/ queue'[i] = Event(kind)
  BY <1>1, MiningLoopAssumption DEF MiningInv, Types
<1>3. Booting' <=> Booting
  BY <1>1, <1>2 DEF Booting
<1>4. ActiveCandidates' = ActiveCandidates /\ SolvedCandidates \subseteq SolvedCandidates'
  BY <1>2 DEF ActiveCandidates, SolvedCandidates
<1>5. Covered'
  BY <1>3, <1>4 DEF MiningInv, Covered
<1>. QED
  BY <1>2, <1>3, <1>5 DEF MiningInv, Types, Ordered, WorkerOk, PrevsOk, JobFits

\* The threads that feed the event loop, and the one that stops it.
LEMMA ShellInv ==
    ASSUME MiningInv, Bootstrapped \/ SendPeerMessage \/ Tick \/ RequestStop
                        \/ LeaveLoop \/ JoinServer
    PROVE  MiningInv'
<1>1. CASE SendPeerMessage \/ Tick
  <2>1. PICK kind \in {"PeerMessage", "SyncTick", "Stop"} : queue' = Append(queue, Event(kind))
    BY <1>1 DEF SendPeerMessage, Tick
  <2>2. /\ Len(queue) < Capacity /\ shell' = shell
        /\ UNCHANGED <<state, server, stopping, generation, commands, worker>>
    BY <1>1 DEF SendPeerMessage, Tick, Room, ShellStep
  <2>. QED
    BY <2>1, <2>2, SendInv
<1>2. CASE LeaveLoop /\ Len(queue) < Capacity
  BY <1>2, SendInv DEF LeaveLoop, ShellStep
<1>3. CASE \/ Bootstrapped \/ RequestStop \/ JoinServer
           \/ LeaveLoop /\ ~(Len(queue) < Capacity)
  <2>1. /\ UNCHANGED <<state, server, generation, commands, worker, queue>>
        /\ shell' = "loop" => queue = <<>> \/ shell = "loop"
    BY <1>3 DEF Bootstrapped, RequestStop, JoinServer, LeaveLoop, ShellStep
  <2>2. shell' = "loop" => ~Booting'
    BY <2>1 DEF MiningInv, Booting
  <2>3. ActiveCandidates' = ActiveCandidates /\ SolvedCandidates' = SolvedCandidates
    BY <2>1 DEF ActiveCandidates, SolvedCandidates
  <2>. QED
    BY <2>1, <2>2, <2>3
       DEF MiningInv, Types, Ordered, WorkerOk, PrevsOk, JobFits, Covered, Booting
<1>. QED
  BY <1>1, <1>2, <1>3

\* The inductive invariant, for a node whose periodic sync finds no new blocks.
THEOREM MiningInvariance == ~SyncAdvances => (Spec => []MiningInv)
<1>. SUFFICES ASSUME ~SyncAdvances
              PROVE  Spec => []MiningInv
  OBVIOUS
<1>1. MiningInv /\ [Next]_vars => MiningInv'
  <2>. SUFFICES ASSUME MiningInv, [Next]_vars
                PROVE  MiningInv'
    OBVIOUS
  <2>1. CASE UNCHANGED vars
    <3>1. ActiveCandidates' = ActiveCandidates /\ SolvedCandidates' = SolvedCandidates
      BY <2>1 DEF vars, ActiveCandidates, SolvedCandidates
    <3>. QED
      BY <2>1, <3>1 DEF vars, MiningInv, Types, Ordered, WorkerOk, PrevsOk, JobFits,
                        Covered, Booting
  <2>. QED
    BY <2>1, ServerInv, WorkerInv, ShellInv DEF Next, Done
<1>. QED
  BY Begin, <1>1, PTL DEF Spec

\* The queue stays within its capacity and work is of the past, whatever the
\* threads do (notify_mined_block, run_miner_worker).
THEOREM MiningTypes == ~SyncAdvances => (Spec => []MiningTypeOK)
<1>. SUFFICES ASSUME ~SyncAdvances
              PROVE  Spec => []MiningTypeOK
  OBVIOUS
<1>1. MiningInv => MiningTypeOK
  <2>. SUFFICES ASSUME MiningInv PROVE MiningTypeOK
    OBVIOUS
  <2>1. /\ worker.current \in WorkItem /\ generation \in Nat /\ Len(queue) <= Capacity
        /\ worker.current.generation <= generation
    BY DEF MiningInv, Types, Ordered
  <2>2. worker.current # NoWork => /\ worker.current.candidate \in Candidate
                                   /\ worker.current.generation \in 1..generation
    BY <2>1, WorkTypes
  <2>. QED
    BY <2>1, <2>2 DEF MiningInv, WorkerOk, PrevsOk, MiningTypeOK
<1>. QED
  BY MiningInvariance, <1>1, PTL

\* While transactions are pending and the event loop waits, a candidate on the
\* current tip is under way: submitted, being searched or solved
\* (maybe_refresh_mining, Miner::submit, run_miner_worker).
THEOREM NoJobIsLost == ~SyncAdvances => (Spec => []MinerWorksOnTip)
<1>. SUFFICES ASSUME ~SyncAdvances
              PROVE  Spec => []MinerWorksOnTip
  OBVIOUS
<1>1. MiningInv => MinerWorksOnTip
  BY DEF MiningInv, Covered, MinerWorksOnTip
<1>. QED
  BY MiningInvariance, <1>1, PTL

\* With nothing pending every attempt has been called off
\* (refresh_mining_candidate, Miner::cancel).
THEOREM EmptyPoolIsIdle == ~SyncAdvances => (Spec => []EmptyPoolCallsOffMining)
<1>. SUFFICES ASSUME ~SyncAdvances
              PROVE  Spec => []EmptyPoolCallsOffMining
  OBVIOUS
<1>1. MiningInv => EmptyPoolCallsOffMining
  BY DEF MiningInv, Covered, EmptyPoolCallsOffMining
<1>. QED
  BY MiningInvariance, <1>1, PTL
==============================================================================
