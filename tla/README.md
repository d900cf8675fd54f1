# TLA+ specifications of the MIT 6.5840 labs

The repository is one program per lab, each built on the one before: a
MapReduce framework (`mr/`), a single key/value server (`kvsrv/`), Raft
(`raft/`), a replicated key/value service (`kvraft/`), a replicated shard
controller (`shardctrler/`) and a sharded key/value service (`shardkv/`). This
directory has TLA+ specifications of them, TLC runs that check small instances
and TLAPS proofs for all instances. Line numbers refer to `src/src/`.

Check everything with

    tlc -workers 2 -config RaftElections.cfg MCRaft      (one run; see "Runs")
    tlapm RaftProofs.tla                                  (one module of proofs)

## 1. The system

### Components, their state and operations

| Component | State | Operations |
|---|---|---|
| Raft peer, `raft/raft.go`, `raft/persister.go` | persistent: state, currentTerm, votedFor, log, snapshot; volatile: commitIndex, lastApplied, nextIndex, matchIndex; goroutines: ticker, election, leader session, apply loop | RequestVote, AppendEntries, InstallSnapshot; election, syncEntries, handleFailedReply, commitCheck, applyEntries; Start, Snapshot; Kill and Make |
| Apply queue, `raft/util.go` | a queue between rf.mu and applyCh | enqueue, dequeue and deliver, clear |
| kvsrv server, clerk | the map; per clerk one bit and the last answer | Get, Put, Append; the clerk repeats until it has a reply |
| kvraft server, clerk | map, sessions, logRecord, lastApplied, snapshot | handleNormalRPC, waittingForCommit, handleApplyMsg; the clerk goes round the servers |
| shard controller | list of configurations; sessions as in kvraft | Join, Leave, Move, Query; rebalance |
| shardkv server, clerk | as kvraft, and configuration, shardVec, shardLastNums | as kvraft, and pollConfig in three phases (UpdateShardVec, MoveShards with RequestMapAndSession, ApplyMovement and DeleteShards, ChangeConfig) |
| MapReduce coordinator | worker table, task table, phase | RegisterWorker, GetWorkerInfo, WorkFinish, WorkerDeath; run, AllocWork, Exit |
| MapReduce worker | its job; the files | do_mapf, do_reducef |
| labrpc | ends, connections, servers; a goroutine per request and per handler | Call, processReq; MakeEnd, Connect, Enable, AddServer, DeleteServer, Cleanup |
| testers, `raft/config.go` | a persister per server | crash1, start1: delete the server, copy its persister, start another |

### How they interact

Peers call each other by RPC through labrpc, which loses requests and replies,
delays and reorders them; callers repeat. A service calls `Start` and gets an
index; it learns from `applyCh` what was committed there. It calls `Snapshot`,
and gets snapshots back on `applyCh`. Clerks call servers and repeat a request
until one server says OK. shardkv servers poll the controller and call the
servers of other groups. MapReduce workers poll the coordinator over a local
socket, and share a directory.

### What is hard

* *Windows between locks.* Raft's goroutines read state, release or take rf.mu
  late, and act on it: the poll of an election (raft.go:755), the goroutine of
  syncEntries (raft.go:852), replies (raft.go:892). The coordinator takes its
  locks one by one (coordinator.go:149-229).
* *Repetition.* Everything is repeated; every server has its own way to
  recognise it: terms and indices in Raft, one bit in kvsrv, a session with the
  last request number in kvraft, shardctrler and shardkv, the Death mark in
  MapReduce.
* *Crashes.* Raft persists in every critical section that changes persistent
  state, but a new leader persists twice; a crashed leader restarts as leader.
  Services come back from a snapshot with sessions but without logRecord.
* *Timeouts.* A 30 ms commit timeout races the commit; a 10 second worker
  timeout races a slow worker.
* *Renumbering.* Raft keeps global indices, local indices into a log that is
  cut, and external indices that leave no-op entries out.
* *Liveness.* The repair of a follower's log; the end of a MapReduce job; the
  hand-over of shards.

* *Locks and wake-ups.* Raft's apply goroutines sleep on conditions whose
  signals are lost while nobody waits, deliver on a channel without a buffer,
  and the service at its other end takes kv.mu, then rf.mu.
* *Hand-over.* A shardkv server works through a configuration change in three
  phases and may be deposed or crash between any two steps; its requests to
  other groups are repeated and arrive late.

`PROJECT.json` lists these as hazards, each at its line, with the property that
covers it or the reason why none does.

### What makes each component correct

* Raft: one leader per term; what is committed is in every later leader's log;
  no two services get different commands at one index; indices stay in range.
* kvsrv: linearizable, and every call returns.
* kvraft: every operation takes effect once, in the clerk's order; reads are
  fresh; across elections, snapshots and restarts.
* shard controller: balanced assignments, as few moves as possible, the same on
  every replica, and no hand-over that waits for itself.
* MapReduce: reports finish the right task; what a finished task made is kept;
  output that is not whole has a cause that can be named; the job ends.
* Apply queue: the service gets every committed command once and in order,
  whatever snapshots are taken or installed meanwhile; nobody waits for ever.
* shardkv: a shard is served by at most one group at a time, with the data and
  sessions of its last owner; configuration changes and calls complete.
* labrpc: a positive reply is about state that survives; every Call returns.

## 2. Modules

| Module | What it has | Code |
|---|---|---|
| `RaftLog` | operators on logs: indices, the voting restriction, what a follower does with a request, what a leader does with a refusal, cuts | raft.go |
| `Raft` | the peers and the network | raft.go, persister.go |
| `MCRaft`, `MCRaftRestart` | instances of Raft; one behaviour of Raft with five peers | |
| `RaftApply`, `MCRaftApply`, `RaftApplyProofs` | one peer's way from commitIndex to its service, with locks, conditions and the channel; uses `RaftLog` | raft.go, util.go, kvraft/server.go |
| `RaftLogProofs`, `RaftProofs`, `RaftSafetyProofs` | theorems about logs; types, indices and elections; what is committed stays | |
| `KVModel` | the sequential store | models/kv.go |
| `Linear` | abstract: a linearizable store, one step per operation between call and return | (models/kv.go, which the testers give to porcupine) |
| `KVSrv`, `MCKVSrv`, `KVSrvProofs` | the server and its clerks; that it implements `Linear` | kvsrv/ |
| `ReplicatedLog` | abstract: what a service may rely on when it runs on Raft | |
| `KVRaft`, `MCKVRaft`, `KVRaftProofs` | the replicated service on `ReplicatedLog` | kvraft/ |
| `MapReduce`, `MCMapReduce`, `MapReduceProofs` | coordinator, workers, files | mr/ |
| `ShardRebalance`, `ShardCtrler`, `MCShardCtrler` | rebalancing, and the configurations that sequences of operations make | shardctrler/ |
| `ShardKV`, `MCShardKV` | groups, the hand-over of shards, clerks; uses `KVModel` | shardkv/ |
| `LabRPC`, `MCLabRPC`, `LabRPCProofs` | the network and the tester that crashes servers on it | labrpc/, raft/config.go |

### Raft

One action is one critical section of rf.mu. All sections that change
persistent state call `persist()` before they unlock, so a crash
(`Restart`) keeps the persistent variables and resets the others; the exception
is the end of `election()`, which persists twice, and a crash in between is
`CrashMidWin`. Messages are kept in sets that only grow: a message that is not
handled is lost, one that is handled twice was repeated. Timers may fire at any
moment. A cancel token only forbids steps, and no step is forced, so setting
one is not an action.

Four windows of the code are named by the constant `Races` (`stalePoll`,
`lateSync`, `lateReply`, `midWin`; see the head of `Raft.tla`). A run says which
of them the scheduler may hit. This is needed because with `stalePoll` the code
is not correct (run `stale_poll`), and nor is it with `lateSync`: a goroutine of
`syncEntries` that gets rf.mu after its peer has heard of a later term sends the
old log under that term, and a follower takes it for the later leader's.

| Raft.tla | raft.go |
|---|---|
| TickerFire, Election, RequestVote, ElectionWin | ticker, election, RequestVote |
| PollArmed, ArmedWin | the poll of election between reading its ballots and taking the lock |
| SyncEntries, AppendEntries, AppendRefuse, AppendSuccess | syncEntries, AppendEntries |
| BackUp, SendSnapshot, SnapshotSent | handleFailedReply |
| CommitCheck, ApplyEntries | commitCheck, applyEntries |
| Start, Snapshot, InstallSnapshot | the same |
| Restart, CrashMidWin | Kill, then Make |

`applied` is history: what was handed to any service, with its external index.

### Raft's apply queue

`RaftApply` is a magnifying glass on `applyEntries`, which is one action in
`Raft`. A goroutine is a variable that says where it is; a step is taken when
the locks it needs are free; `Signalled` wakes a waiter if there is one. The
rest of the peer appears as what it does to the log and to commitIndex:
AppendEntries requests of any leader, late ones included (commitIndex goes down
as well as up, raft.go:401), InstallSnapshot in two steps (the applier reads the
queue without rf.mu and can come between `Clean` and `Enqueue`), elections,
commitCheck, heartBeat. All of the log is a stretch of one sequence, the entries
that will be committed: `Raft` shows that committed entries agree, and
applyEntries reads no others. Entry 1 is assumed to be a no-op
(`CommittedAssumption`), as Make's lastApplied = 1 does; see the hazard at
raft.go:1110.

| RaftApply.tla | code |
|---|---|
| ApplierWait, ApplierWake, ApplierUnlock, Dequeue, Send | applyEntries, first goroutine; ApplyQueue |
| EnqueuerWait, EnqueuerWake, EnqueueCommand, SkipNoop, EnqueueDone | applyEntries, the loop after it |
| ServiceApply, ServiceSnapshot, HandlerLock, HandlerStart | handleApplyMsg, Snapshot; handleNormalRPC holding kv.mu while it calls Start |
| AppendEntries, InstallSnapshot, EnqueueSnapshot, BecomeLeader, StepDown, StopServing, CommitCheck, HeartBeatEnqueue, HeartBeatApply | the same in raft.go |
| CancelTasks | handleFailedReply on a reply of a higher term: the leader's tasks end, and it stays Leader |
| Reboot | Kill, then Make with what was persisted |

### kvsrv

A handler is one action (it holds kv.mu throughout); the clerk's loop is
`Begin`, `Retry`, `Finish`. A request or reply that is lost is one that never
arrives. `Linear` has, for every clerk, a call, one step that takes effect, and
a return. `KVSrv` maps the server's map to the abstract store and a clerk's call
to "done" as soon as the server has executed it.

### kvraft

The handler is two actions, before and after it waits, and the clerk may be told
no, or nothing, at any moment (`TryNext`). A request may also be handled after
its Call has failed (`GiveUp`, `HandleLate`): labrpc gives up when a connection
is cut while the handler still waits for kv.mu. `Op.Number`, random in the code,
counts the calls of Start. logRecord is never trimmed by the code (`confirmMap`
is never written). The steps of `ReplicatedLog` (elections with deposed leaders
that have not heard, replication, commitment, installation of snapshots) are
what `Raft` provides in the indices the service sees; that `Raft` implements it
is planned. `InstallSnapshot` compares indices of snapshots only (raft.go:488-497),
so `ApplySnapshot` may set a server back; logRecord is kept, and reaches beyond
lastApplied then. Between the two nothing is applied (`installing`): what the
queue and the channel hold at that moment is `RaftApply`'s subject.

### MapReduce

Each locked block of AllocWork and Exit is a step; each RPC is a step; a worker
writes its output in two parts. A map task is reported first and its files are
renamed one by one afterwards (worker.go:148, 176), and everybody else may step in
between; a reducer that has lost its task still creates and writes its file.
`Faults` says what else may go wrong: workers that miss the 10 seconds ("slow"),
crashes of workers without a task ("idle crash"), and errors of file operations
("io error").

| MapReduce.tla | mr/ |
|---|---|
| Start, Recover, FindReady, FindWait, PickWorker, NoFreeWorker, Assign, Announce | run, AllocWork |
| MapPhaseDone, ReducePhaseDone, SendExit, AwaitDeaths, AllDead | run, Exit |
| Register, WorkFinish, WorkerDeath | the handlers |
| TakeJob, MapFile, FinishMap, RefuseMap, Rename | do_it, do_mapf |
| ReadInter, Create, Write, FinishReduce | do_reducef |
| GiveUpMap, GiveUpReduce, GiveUpRename | error returns: before the report the job is taken up again, after it (worker.go:153-161) the files keep their private names |
| CreateFails, WriteFails | errors nobody looks at (worker.go:227, 242); GiveUpRename is also the one at 176 |

`unrenamed`, `missed` and `unwritten` are history: who failed to rename, which
files a reducer did not find, which output could once not be written.

### Shard controller

`ShardRebalance` has the parts of `rebalance`, `ShardCtrler` its loop and
`applyOp`. The order in which Go iterates over the groups is a parameter.

### Sharded service

Each group has one log, abstracted further than `ReplicatedLog` does: entries
nobody has applied (`log`), the numbers of those that were (`record`), and the
state after them (`tip`). The leader applies the next entry (`Apply`); another
member, or a new leader, comes to `tip` in one step (`CatchUp`), because what it
passes through on the way shows nowhere: it answers no one before. A new leader
keeps all that was applied and any prefix of the rest. What a deposed leader
still takes in is lost, so only an answer from its session table (`Answered`) is
modelled. `Op.Number` is the term of the entry, which with its index is as good
as random. The session key is clerk and shard; a server's own operations have
its `uid`, new after each start.

`pollConfig` is a program counter `poll` per server: idle, update (phase 1), move
(phase 2, with one part per group to fetch from, each a goroutine), change
(phase 3). Local calls are started, committed, repeated or given up. The clerk's
round over the servers of a group is a choice of any of them. A goroutine that
asks for deletion uses one request number for all servers of a round
(`OfRound`). A snapshot from the leader may set the service back, as in `KVRaft`.

| ShardKV.tla | shardkv/ |
|---|---|
| Starts, Answered; IsCommitted, GivesUp, Return | handleNormalRPC; waittingForCommit; successCommit |
| ApplyOp with ChangeConfig, ApplyMovement, DeleteShards, UpdateShardVec; Applied, Recorded, Apply, CatchUp, ApplySnapshot | applyOp; handleApplyMsg |
| PollConfig, LocalStart, LocalRetry, LocalWrongLeader, UpdateDone, StartChange, ChangeDone | pollConfig |
| Fetch, MoveBegin, MoveStart, MoveRetry, MoveEnd, AllMoved; DeleteSend, DeleteLate, DeleteRetry, DeleteEnd, AllDeleted | MoveShards, RequestMapAndSession, ApplyMovement, DeleteShards |
| Invoke, Refresh, HandleAnswered, HandleStart, HandleCommitted, TryAgain, SendLate, HandleLate | client.go and the handlers it calls |
| Restart | Kill, then StartServer |
| Publish | shardctrler/server.go, applyOp (`ShardCtrler` has the detail) |
| Elect, StepDown, InstallSnapshot | raft.go (`Raft` and `RaftApply` have the detail) |

Three windows are named by `Races` (`oldMove`, `lateRead`, `regress`; see the head
of the module). The runs have them closed because the properties do not hold
otherwise; see Findings.

### labrpc

One action per critical section or channel operation. What a request's end leads
to is read once (`ProcessReq`), and everything later uses what was read. Delays
are not actions: any step may be late. A ClientEnd that was made once can Call
after its end was deleted, and fails (`made`). A server is a number that is new each
time, like the pointer it is in the code. The tester's part is `AddServer`,
`DeleteServer` and `Supersede`: crash1 copies the persister only after it has
deleted the server, and what the old server writes from then on is not seen
again.

## 3. Runs

`CHECK_DEADLOCK FALSE` is in the runs of bounded instances, which stop when the
bounds are reached; the runs of MapReduce and of the apply queue check for
deadlock.

| Run | Expect | Shows |
|---|---|---|
| elections | pass | ElectionSafety, VotesStable, TypeOK, IndexInv, AppliedAgree. Two courses of one instance: elections of any of three peers in two terms after the first, each may crash once, `midWin` open; and one leader, s1, with two commands, that snapshots at either, late and repeated InstallSnapshots |
| stale_poll | violation | ElectionSafety with `stalePoll`: see Findings |
| leaders | pass | AppliedAgree, LeaderCompleteness, MatchIndexSound over changes of leader |
| raft_apply | pass | TypeOK, InOrder, Accounted, SnapshotFitsLog, LeaderDelivers, no deadlock |
| kvsrv_mixed | pass | BitsInStep, Linearizable (refinement of `Linear`), AllReturn |
| kvraft | pass | TypeOK, ExactlyOnce, InProgramOrder, ReadsFresh |
| kvraft_regress | violation | ExactlyOnce with a late request |
| shardctrler | pass | Balanced, MovesFewest, ReplicasAgree, NoCircularWait |
| shardkv | pass | OneServes, NothingLost, ExactlyOnce, AllWritten, ReadsFresh: a shard goes there and back under a writer and a reader |
| shardkv_settles | pass | NothingLost, Follows, Returns: two movements in one change |
| labrpc | pass | PositiveIsKept, CallReturns, HandlersEnd |
| mr | pass | FinishesOwnTask, OneTaskEach, MapsKept, OutputComplete, Terminates, no deadlock |

### Bounds

*Raft.* Three peers are the fewest with a majority that is neither one nor all.
Two terms after the first let a deposed leader meet its successor; a third lets
it return. `MaxAppends` bounds the different AppendEntries a session sends
(repeats are free): one round is two requests, and the third is what the leader
sends after a refusal. Logs of four entries hold the two no-ops and a command of
each leader. Run `leaders` is restricted by `Courses` to three courses of
events: the second leader takes over for good; the first crashes once; the first
sends nothing and returns in a third term with its divergent log; a poll that is
armed acts before anybody campaigns again (otherwise the finding of `stale_poll`
breaks LeaderCompleteness as well). In all of them, and in the leading course of
`elections`, a second ballot of a term is lost (`OneBallot`), which decides
nothing with three peers; that course also stops at two different refusals of an
AppendEntries (`FewRefusals`), each of which may be answered with a snapshot or
a longer suffix, again and again. The proofs have no bounds and no such restriction.

*Apply queue.* One peer and the entries of two leaders: no-op, command, no-op,
command. Two commands let a snapshot cover one while the other is on its way,
and a second snapshot overtake the first; the no-op between them makes internal
and external indices differ. One crash.

*kvsrv.* Three clerks: one appends and puts, one appends and reads, one reads;
two keys. Everything between two Appends of one clerk, and lost replies anywhere.

*kvraft.* Two servers, two elections, three calls of Start: enough for an
operation that is in the log of a deposed leader, and again in the log of its
successor. `Courses` has either two clerks, or one clerk with snapshots and a
restart, and late requests only of the clerk that has one operation; with others
ExactlyOnce does not hold (kvraft_regress).

*MapReduce.* Two workers let one be dead or slow while the other takes over; two
map tasks let the phase end while one is in progress; one reduce task is enough
for two workers to write the same file. Workers crash only while they hold a
task ("idle crash" off): with it Terminates fails, see Findings. All errors of
file operations are on.

*Sharded service.* Run `shardkv` has a group of one server and one of two, so
that leadership can change where the shard arrives, and configurations that
take the shard there and back, so that a late DeleteShards or ApplyMovement
meets a shard that has returned. One clerk appends twice, another reads.
`Bounded` lets one thing go wrong while the shard goes there (a message lost or
late, a leader deposed, a leader crashed), under the second append or the read.
The append may also begin while a server handles the read and there has been a
change of leader, so that the new leader takes in the append while the deposed
one has the read. `Paced` and `Scheduled` order what is independent (a follower
applies entries only when somebody can see it; the first append ends before the
shard is to go). Run `shardkv_settles` has three groups of one server and no
fault: two groups give a shard each to the third in one change.

*labrpc.* Two requests on one end to one name, one of whose handlers hangs; two
servers of that name, one after the other; three switches of enabled, reliable
or the end itself.

*Shard controller.* Four shards and five groups have balanced assignments with
and without a remainder, more shards than groups and more groups than shards;
five configurations are four operations. TLC compares states by the latest
configuration and the assignment before it, all that any property or operation
looks at.

### Fairness

* `KVSrv!FairSpec`: a clerk takes its steps and a server handles what arrives
  (weak fairness); of the replies to a call that is repeated for ever one
  arrives (strong fairness of `Finish`). The clerk's loop has no end condition
  but a reply, and labrpc loses each reply independently.
* `MapReduce!FairSpec`: the coordinator's goroutine and live workers take steps;
  a crashed worker's task is overdue in the end (its 10 seconds pass while the
  loop sleeps and begins again); a worker that is given its job again and again
  gets past file errors in the end.

* `RaftApply!FairSpec`: goroutines run; heartBeat comes round while it runs; who
  waits for a lock gets it (strong fairness: Go's mutexes hand over to a waiter
  of more than a millisecond). Nothing is assumed of AppendEntries or elections;
  LeaderDelivers speaks of a peer that stays leader and whose tasks run.
* `ShardKV!FairSpec`: pollConfig, the goroutines of MoveShards, the apply loop and
  the clerks run; a group without a leader elects one. Nobody has to publish a
  configuration, and no loss is ever due.
* `LabRPC!FairSpec`: the goroutines of a request run, and a handler that does not
  hang returns. The tester owes nothing.

Raft and kvraft have no liveness properties; see the plan.

## 4. Proofs

Checked by TLAPS, for every value of the constants.

* `RaftLogProofs`: what the operators on logs keep (non-empty, Index fields
  consecutive), and `FailedReplyCasesTotal`: the five cases of handleFailedReply
  are exhaustive, so the `log.Fatalf` after them is unreachable.
* `RaftProofs`: `TypeCorrect` (TypeOK) and `IndicesCorrect` (IndexInv), for any
  number of peers, with all windows open and any number of crashes and
  snapshots. The inductive invariant `TypeInv` is TypeOK and IndexInv together:
  TypeOK needs the Index fields for the cuts to leave a non-empty log, and
  IndexInv needs the same fact about the entries that are on their way. One
  step per action, with the lemmas of `RaftLogProofs`.
* `RaftProofs` also has `ElectionSafe` (ElectionSafety), if `stalePoll` is not in
  `Races`; `VotesStay` (VotesStable), in all cases. ElectionSafety is not
  inductive; `VoteInv` adds that requests and votes bind who sent them, that
  nobody votes twice in a term, that a poll of a peer that is still a candidate
  is in its term, and that a leader has a majority of votes. Two leaders of a
  term have majorities that meet in a peer that voted once. The run `stale_poll`
  shows that the condition on `Races` cannot be dropped.
* `RaftSafetyProofs`: `LeadersComplete` (LeaderCompleteness), `MatchesSound`
  (MatchIndexSound) and `ServicesAgree` (AppliedAgree), and `SafeWithoutCrashes`
  (all three); see "Raft's safety" below.
* `KVSrvProofs`: `TypeCorrect`, `BitsCorrect` (BitsInStep: a clerk's bit and the
  server's expectation stay in step) and `KVSrvLinearizable` (Linearizable):
  `KVSrv` implements `Linear`, provided a key that is put has a single writer
  (`PutsPrivate`). Initial states map to initial states; each step maps to a
  step of `Linear` or to none. The invariant `PutsInPlace` says that a Put whose
  reply is on its way is still what its key holds, which is why repeating it
  changes nothing. With `SharedPutScript` of `MCKVSrv`
  TLC refutes `OverwrittenStaysOverwritten`: the proviso cannot be dropped.

* `LabRPCProofs`: `PositiveKept` (PositiveIsKept). The invariant follows a
  positive reply back through the handler: it was made by the server that the
  request's name stood for, before that server was deleted, and its effect was
  in what start1 copies for the next one.
* `MapReduceProofs`: `OwnTaskFinished` (FinishesOwnTask) and `OneTaskOnly`
  (OneTaskEach), whatever the faults. The invariant relates workInfo, workerMap,
  the phase and what each worker holds, also while the coordinator is between
  its locks. `FinishedMapsKept` (MapsKept) and `OutputStaysComplete`
  (OutputComplete), whatever the faults. `InterInv` adds that a worker that maps
  or renames has the files of its task; `OutInv` follows the writers of an
  output file: who has the task has read every file that was not missed, and what
  it has not written yet is still to come. The code does not promise complete
  output; the theorem says that a file renamed too late, an ignored error and a
  worker that lost its task and writes on are the only things that spoil it.
* `RaftApplyProofs`: `TypeCorrect` (TypeOK), `SnapshotFits` (SnapshotFitsLog),
  `CommandsInOrder` (InOrder) and `AllAccounted` (Accounted), for every
  sequence of committed entries. None is inductive alone. `LogInv` says that the
  log is the stretch of the committed entries from the snapshot's to some last
  one, that lastApplied is in it, and that nothing on its way is beyond it;
  `ControlInv` says that between its two critical sections InstallSnapshot meets
  an empty queue and nobody in the enqueuer's loop, which is why its message
  cannot fall between two commands; `QueueInv` is InOrder and Accounted. What
  one message more does to a queue in order is a lemma of its own. The constant
  `Committed` is assumed to have an entry 1, and a no-op there: a peer with an
  empty log takes entry 1 for applied (raft.go:1110).
* `KVRaftProofs`: `TypeCorrect` (TypeOK) and `ProgramOrder` (InProgramOrder),
  unconditionally, also when an older snapshot sets a server back; `EffectsOnce`
  (ExactlyOnce) and `ReadsAreFresh` (ReadsFresh)
  if no request is handled after its Call has failed (`MaxLate = 0`). The run
  `kvraft_regress` shows that ExactlyOnce needs it. The invariant has four
  parts. `LogInv`: a log that still agrees with what is chosen misses no earlier
  operation of a clerk; this holds of a deposed leader's log too, since an entry
  it takes in at an index that is chosen already has a number nobody chose, so
  the log no longer agrees. A number is of one operation. Without late
  requests, the operations of a clerk never decrease along a log. `CallInv`: what
  was returned is chosen, and what is being called was not chosen before it was
  called. `ServerInv`: records are of chosen entries, and a session, live or in a
  snapshot, is of the last entry of its clerk. From this the test of
  handleApplyMsg (server.go:187) finds exactly the entries that were applied
  before (`StaleIsRepeated`), and each step of a store is the step of the ideal
  store. `ReadInv`: a read is of the state after some entry between what was
  chosen at the call and at the return. `Ideal` is a recursive function; that it
  exists, its equation, and that more entries do not change it, are proved by
  taking a least counterexample.

Assumptions are those named in the modules: finite sets of peers, bounds that
are natural numbers, and `Committed` as above. All inductive invariants were
model-checked before they were proved; that of `RaftSafetyProofs` with the
history kept in variables, on three peers with a crash.

### Raft's safety

The theorems of `RaftSafetyProofs` hold for any number of peers, any bounds and
any loss, repetition and reordering of messages, under these hypotheses:

* `Races = {}`. With `stalePoll` the code is not correct (run `stale_poll`), nor
  is it with `lateSync` (section 2). `lateReply` is left to the run `leaders`,
  `midWin` to the run `elections`.
* `NoSnapshots`: no service takes one, so that logs start at index 0. With
  snapshots AppliedAgree is model-checked (run `elections`).
* `[]NoLateFirst`, or no crashes. A request from index 1 on, of a leader's own
  term, must not be waiting for a peer that restarted (lastApplied = 0) and has
  another leader's no-op at index 1. `MCRaftRestart` is a behaviour in which
  one is and AppliedAgree fails (section 5). A peer that has not restarted never
  has lastApplied = 0, so
  `SafeWithoutCrashes` needs no such hypothesis.

No variable keeps what the argument is about: the log that the leader of each
term had when it last led. The inductive invariant therefore says that a history
exists: `HistoryInv` is "there is a G, a leader and a log for every term, with
`SafeInv(G)`" (`HistoryExists`), and a step extends G when a leader is elected or
takes a command. The parts of `SafeInv`:

* `GoodHistory`, `PeerInv`, `RequestInv`: the leaders' logs, the peers' logs and
  the entries on their way match one another (an entry is that of the leader of
  its term, and so is everything before it), and a leader's log is what G says.
  Index 1 is left out: every log has a no-op there, and a fresh peer keeps
  whichever it got first.
* `Elected`, `PollInv`, `MessageInv`: every leader in G has the votes of a
  majority; a candidate's log is the one it asked for votes with; acks are about
  what the leader has.
* `HasInv`: a peer that acknowledged n entries of term t has a log at least as
  up to date as that. `PromiseInv`: who voted for a request had, at the time,
  nothing that the request does not beat.
* `CompleteInv`, the heart: of an entry of the leader of term t and a later
  leader, either the later one has it, or it is `Blocked`: a majority has gone
  to later terms without acknowledging it, so it never will be decided.
* `CommitInv`, `MatchInv`, `AppliedInv`: what a peer takes for committed, what a
  leader counts and what a service got was decided: acknowledged by a majority.

A new leader keeps `CompleteInv`: if an entry of an earlier term is not blocked,
a voter has acknowledged it (`HasInv`), the new leader's log is at least as up to
date as what that voter had (`PromiseInv`), and so has the entry, either because
it is of the same term and longer, or by `CompleteInv` of the term of its last
entry. A decided entry cannot be blocked, since two majorities meet. The other
half is the follower: what `AppendEntries` replaces is never something it has
acknowledged in that term. This is where the code differs from Raft as published
(it replaces everything after lastApplied, not after the first difference), and
where `NoLateFirst` comes from.

Only model-checked: LeaderCompleteness, AppliedAgree and MatchIndexSound of Raft
beyond those hypotheses (snapshots, `lateReply`, `midWin`), and everything about
the controller, whose module is recursive, and about the sharded service, where
OneServes does not hold in every schedule (section 5, `oldMove`) and the
inductive invariant is still to be found. Liveness
(AllReturn, Terminates, LeaderDelivers, Follows, Returns, CallReturns,
HandlersEnd) is outside what TLAPS proves, and so is the loop of `rebalance`,
which is recursive.

## 5. Findings

With a run of their own:

* `stale_poll`. `election` reads its ballots and its cancel token, then waits
  for rf.mu, then tests only that the peer is a candidate. If the peer campaigned
  again in between, it becomes the leader of the new term with the ballots of
  the old one.
* `kvraft_regress`. A stale operation does not change the store but becomes the
  session's last operation. A late copy of operation n after n + 1 makes a
  repetition of n + 1 look new.

What the passing runs leave out, and what happens when a constant lets it in:

* Raft, a restart: a peer that never persisted anything takes index 1 for applied
  (raft.go:1110) and keeps an earlier leader's no-op there when a later leader
  repairs its log from index 2 on. After a restart its lastApplied is 0
  (raft.go:236). A request of the same leader from index 1 on, sent before and
  repeated (raft.go:885-891), then looks like a divergence at index 1, and its
  shorter entries replace the log: entries that the peer acknowledged and the
  leader counted are gone. With five peers a committed command is lost this way
  and another is applied in its place: `tlc -config RaftRestart.cfg
  MCRaftRestart` refutes AppliedAgree, which the tester's checkLogs
  (raft/config.go:146) states, with all windows of `Races` closed. It is one
  behaviour, step by step, since no search over all schedules gets as far as
  five peers, three leaders and 44 steps. It was found by the proof of
  `RaftSafetyProofs`, where this is the case that does not go through.
* kvsrv: `Put` has no duplicate detection. A repeated Put brings back a value
  that another clerk has read and overwritten (`Script <- SharedPutScript`
  refutes OverwrittenStaysOverwritten).
* MapReduce does not always deliver complete output, and no run claims it does.
  A map task is reported before its files are renamed (worker.go:148, 176): a
  reducer that lists the directory in between leaves it out, without any fault,
  and nobody notices. A crash, an error return (153-161) or a failed Rename after
  the report loses the files for good. A reducer that has lost its task creates,
  and so empties, the output another has finished (227). Errors of Create and
  Fprintf (227, 242) are dropped and the task is reported finished. OutputComplete
  names these cases; without the part about `missed`, `unwritten` or
  IsOverwritten TLC refutes it.
* MapReduce, "idle crash": a worker that dies without a task keeps Exit waiting
  (Terminates fails).
* shardkv, `oldMove`: a leader that is in MoveShards, loses its place and regains
  it, enters the movement of an old configuration in its log after later ones;
  applyOp sets shardVec without looking at the configuration, and two groups
  serve the shard (OneServes fails, with three terms in the second group).
* shardkv, `lateRead`: the handler of a Get waits in steps of 10 ms and reads
  kv.mp when it notices that its operation was applied; if the shard has been
  moved and deleted by then, it answers "" (ReadsFresh fails). The window is also
  there for a server that comes to a later state at once, by applying entries or
  by a snapshot (`PassesRead`).
* shardkv, `regress`: as `kvraft_regress` (ExactlyOnce fails).
* Apply queue: on a follower nobody repeats a lost wake-up. A message that is
  enqueued between the applier's last look at the queue and its `Wait`, and the
  snapshot that Make puts in the queue (it signals with rf.mu held, before the
  applier can wait), stay there until the next command is enqueued; the head of
  raft.go (15-17) says that every committed entry is sent to the service. The same
  holds of a leader that has heard of a higher term in a reply: its tasks are
  cancelled (raft.go:916-920, 985-989), it stays Leader, and its heartBeat, which
  would repeat the wake-up, has ended.

Known from reading, without a model that shows it: two repairs in Raft make no
progress, of a fresh follower whose entry 1 is of another term than the
leader's, with lastApplied 1, and of a follower with lastApplied just before the
start of the leader's log and a longer, divergent log; a shard that goes to
group 0 and back is never fetched, and neither is a configuration finished whose
old owner is shut down before it has deleted.

## 6. Not modelled, and the plan

Not modelled: `labgob` (a wrapper of encoding/gob without state), `porcupine`
(third party; `models/kv.go` is `KVModel`), the applications of MapReduce and
the main programs (pure functions and file I/O), the testers except for crash1
and start1, and the session layer of the controller, which is the code of kvraft
once more.

Done, in this order: Raft, kvsrv, MapReduce, kvraft, shard rebalancing, the
sharded service, labrpc, the apply queue. To do:

1. Proofs: the safety of Raft with snapshots and with `lateReply` and `midWin`;
   OneServes of the sharded service.
2. `LogRepair`: the leader's and follower's side of one repair, with fairness.
3. `Raft` implements `ReplicatedLog`, model-checked.
4. Liveness of kvraft under a stable leader.
