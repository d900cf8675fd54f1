----------------------------- MODULE RaftApply -----------------------------
(***************************************************************************)
(* How one Raft peer hands committed entries and snapshots to its service  *)
(* (applyEntries of raft/raft.go, ApplyQueue of raft/util.go): the         *)
(* goroutine that moves committed entries into applyQueue, the goroutine   *)
(* that empties the queue into applyCh, the two condition variables they   *)
(* sleep on, the service that reads applyCh and calls Snapshot, and an RPC *)
(* handler of the service that calls Start.  rf.mu, kv.mu, applyCh (which  *)
(* has no buffer) and the condition variables are modelled as such: a      *)
(* Signal nobody waits for is lost.                                        *)
(*                                                                         *)
(* What the other peers do reaches this one as AppendEntries and           *)
(* InstallSnapshot requests, in any order, late ones included.  The log is *)
(* always a stretch of one sequence, Committed: applyEntries reads no      *)
(* entry that is not committed, and module Raft shows that committed       *)
(* entries do not change.                                                  *)
(***************************************************************************)
EXTENDS RaftLog

CONSTANTS
    Committed,     \* all the entries there will ever be, the filler first
    MaxReboots     \* bound: crashes

(* A leader's first entry of a term is a no-op, so entry 1 is one; until   *)
(* there is an entry 1, there is nothing to apply.                         *)
ASSUME CommittedAssumption ==
    /\ Committed \in Log /\ Indexed(Committed)
    /\ Committed[1].index = 0 /\ Committed[1].cmd = Noop
    /\ Len(Committed) > 1 /\ Committed[2].cmd = Noop
    /\ MaxReboots \in Nat

VARIABLES
    log, snapshotIndex, leader,     \* persisted; the snapshot's contents are the
                                    \* commands up to snapshotIndex
    commitIndex, lastApplied,
    applyQueue,
    applier,        \* the goroutine that empties applyQueue
    enqueuer,       \* the goroutine that fills it
    installer,      \* an InstallSnapshot request in the middle of its work
    serving,        \* commitCheck and heartBeat are running
    sending,        \* the message applier is offering to applyCh
    service,        \* the service's handleApplyMsg, and
    received,       \* the message it has in hand
    position,       \* kv.lastApplied: the commands the service's state contains
    handler,        \* an RPC handler of the service
    reboots

raftVars == <<log, snapshotIndex, leader, commitIndex, lastApplied>>
threadVars == <<applier, enqueuer, installer, serving, sending>>
serviceVars == <<service, received, position, handler>>
vars == <<log, snapshotIndex, leader, commitIndex, lastApplied, applyQueue, applier, enqueuer,
          installer, serving, sending, service, received, position, handler, reboots>>

Final == LastIndex(Committed)
CommandMsg(e) == [snapshot |-> FALSE, index |-> e]
SnapshotMsg(e) == [snapshot |-> TRUE, index |-> e]
NoMsg == SnapshotMsg(0)

(* Entries first..last, given by their global indices.                     *)
Entries(first, last) == SubSeq(Committed, first + 1, last + 1)

(* The commands among the first g entries there will ever be.              *)
CommandsUpTo(g) == CommandCount(Committed, 1, g)

(* Make() on a fresh persister.                                            *)
Init ==
    /\ log = Entries(0, 0) /\ snapshotIndex = 0 /\ leader = FALSE
    /\ commitIndex = 0 /\ lastApplied = 1
    /\ applyQueue = <<>>
    /\ applier = "top" /\ enqueuer = "top" /\ installer = "idle" /\ serving = FALSE
    /\ sending = NoMsg
    /\ service = "receive" /\ received = NoMsg /\ position = 0
    /\ handler = "idle"
    /\ reboots = 0

----------------------------------------------------------------------------
(* Locks.  Only sections that do something in several visible steps are    *)
(* seen holding rf.mu; the others are one step, taken when rf.mu is free.  *)

MuFree == applier # "woken" /\ enqueuer # "loop" /\ installer = "idle"
KvMuFree == service # "snapshot" /\ handler = "idle"

(* Signal on a condition variable: it wakes the waiter, if there is one.   *)
Signalled(thread) == IF thread = "waiting" THEN "signalled" ELSE thread

----------------------------------------------------------------------------
(* The applier *)

ApplierWait ==
    /\ applier = "top" /\ MuFree
    /\ applier' = "waiting"
    /\ UNCHANGED <<raftVars, applyQueue, enqueuer, installer, serving, sending, serviceVars,
                   reboots>>

(* Wait returns holding rf.mu ...                                          *)
ApplierWake ==
    /\ applier = "signalled" /\ MuFree
    /\ applier' = "woken"
    /\ UNCHANGED <<raftVars, applyQueue, enqueuer, installer, serving, sending, serviceVars,
                   reboots>>

(* ... which is given back before the queue is looked at.                  *)
ApplierUnlock ==
    /\ applier = "woken"
    /\ applier' = "drain"
    /\ UNCHANGED <<raftVars, applyQueue, enqueuer, installer, serving, sending, serviceVars,
                   reboots>>

(* Size() and Dequeue(), or Size() = 0: the end of the inner loop.         *)
Dequeue ==
    /\ applier = "drain"
    /\ IF applyQueue = <<>>
       THEN applier' = "top" /\ UNCHANGED <<applyQueue, sending>>
       ELSE /\ applier' = "send"
            /\ sending' = Head(applyQueue)
            /\ applyQueue' = Tail(applyQueue)
    /\ UNCHANGED <<raftVars, enqueuer, installer, serving, serviceVars, reboots>>

(* rf.applyCh <- applyMsg, and the service's receive.                      *)
Send ==
    /\ applier = "send" /\ service = "receive"
    /\ applier' = "drain" /\ service' = "received"
    /\ received' = sending /\ sending' = NoMsg
    /\ UNCHANGED <<raftVars, applyQueue, enqueuer, installer, serving, position, handler,
                   reboots>>

----------------------------------------------------------------------------
(* The enqueuer *)

EnqueuerWait ==
    /\ enqueuer = "top" /\ MuFree
    /\ enqueuer' = "waiting"
    /\ UNCHANGED <<raftVars, applyQueue, applier, installer, serving, sending, serviceVars,
                   reboots>>

EnqueuerWake ==
    /\ enqueuer = "signalled" /\ MuFree
    /\ enqueuer' = "loop"
    /\ UNCHANGED <<raftVars, applyQueue, applier, installer, serving, sending, serviceVars,
                   reboots>>

IsNext(i) ==
    /\ i <= commitIndex /\ i < GlobalLogLen(log)
    /\ LocalIndex(log, i) > 0

EnqueueCommand ==
    LET i == lastApplied + 1
    IN  /\ enqueuer = "loop" /\ IsNext(i) /\ At(log, i).cmd # Noop
        /\ applyQueue' = Append(applyQueue, CommandMsg(ExternalIndex(log, snapshotIndex, i)))
        /\ lastApplied' = i
        /\ applier' = Signalled(applier)
        /\ UNCHANGED <<log, snapshotIndex, leader, commitIndex, enqueuer, installer, serving,
                       sending, serviceVars, reboots>>

SkipNoop ==
    LET i == lastApplied + 1
    IN  /\ enqueuer = "loop" /\ IsNext(i) /\ At(log, i).cmd = Noop
        /\ lastApplied' = i
        /\ UNCHANGED <<log, snapshotIndex, leader, commitIndex, applyQueue, threadVars,
                       serviceVars, reboots>>

EnqueueDone ==
    /\ enqueuer = "loop" /\ ~IsNext(lastApplied + 1)
    /\ enqueuer' = "top"
    /\ UNCHANGED <<raftVars, applyQueue, applier, installer, serving, sending, serviceVars,
                   reboots>>

----------------------------------------------------------------------------
(* The service: handleApplyMsg holds kv.mu while it applies a message and  *)
(* while it calls Snapshot.  Whether the log has become too long is left   *)
(* open.                                                                   *)

ServiceApply ==
    /\ service = "received" /\ KvMuFree
    /\ position' = received.index
    /\ \/ service' = "receive" /\ received' = NoMsg
       \/ ~received.snapshot /\ service' = "snapshot" /\ UNCHANGED received
    /\ UNCHANGED <<raftVars, applyQueue, threadVars, handler, reboots>>

IfOlder(e, g) == snapshotIndex >= e   \* mutants of IsRefused
IfReset(e, g) == lastApplied < g

(* Snapshot(e, ...) where e is entry g of the log: refused when the peer   *)
(* has a newer snapshot, or was reset to before entry g.                   *)
IsRefused(e, g) == snapshotIndex >= e \/ lastApplied < g

ServiceSnapshot ==
    LET e == received.index
        g == InternalIndex(log, snapshotIndex, e)
    IN  /\ service = "snapshot" /\ MuFree
        /\ service' = "receive" /\ received' = NoMsg
        /\ IF IsRefused(e, g)
           THEN UNCHANGED <<log, snapshotIndex>>
           ELSE log' = CutAt(log, g) /\ snapshotIndex' = e
        /\ UNCHANGED <<leader, commitIndex, lastApplied, applyQueue, threadVars, position,
                       handler, reboots>>

(* An RPC handler holds kv.mu while it calls Start, which adds an entry if *)
(* the peer is leader.                                                     *)
HandlerLock ==
    /\ handler = "idle" /\ service # "snapshot"
    /\ handler' = "locked"
    /\ UNCHANGED <<raftVars, applyQueue, threadVars, service, received, position, reboots>>

HandlerStart ==
    LET i == GlobalLogLen(log)
    IN  /\ handler = "locked" /\ MuFree
        /\ handler' = "idle"
        /\ IF leader /\ i <= Final /\ Entries(i, i)[1].cmd # Noop
           THEN log' = log \o Entries(i, i)
           ELSE UNCHANGED log
        /\ UNCHANGED <<snapshotIndex, leader, commitIndex, lastApplied, applyQueue, threadVars,
                       service, received, position, reboots>>

----------------------------------------------------------------------------
(* The rest of the peer *)

(* An accepted AppendEntries request: the log may have grown, and          *)
(* commitIndex is the leader's, higher or lower than before.               *)
AppendEntries(last, commit) ==
    /\ MuFree
    /\ last \in LastIndex(log)..Final /\ commit \in 0..Final
    /\ log' = log \o Entries(LastIndex(log) + 1, last)
    /\ commitIndex' = commit
    /\ leader' = FALSE
    /\ enqueuer' = Signalled(enqueuer)
    /\ UNCHANGED <<snapshotIndex, lastApplied, applyQueue, applier, installer, serving, sending,
                   serviceVars, reboots>>

(* InstallSnapshot of a snapshot up to command g, up to applyQueue.Clean() *)
InstallSnapshot(g) ==
    /\ MuFree
    /\ Entries(g, g)[1].cmd # Noop
    /\ CommandsUpTo(g) > snapshotIndex
    /\ log' = Installed(log, g, Entries(g, g)[1].term)
    /\ snapshotIndex' = CommandsUpTo(g)
    /\ leader' = FALSE
    /\ lastApplied' = g /\ commitIndex' = g
    /\ enqueuer' = Signalled(enqueuer)
    /\ installer' = "cleaned" /\ applyQueue' = <<>>
    /\ UNCHANGED <<applier, serving, sending, serviceVars, reboots>>

EnqueueSnapshot ==
    /\ installer = "cleaned"
    /\ installer' = "idle"
    /\ applyQueue' = Append(applyQueue, SnapshotMsg(snapshotIndex))
    /\ applier' = Signalled(applier)
    /\ UNCHANGED <<raftVars, enqueuer, serving, sending, serviceVars, reboots>>

(* The peer wins an election: the first entry of its term is a no-op.      *)
BecomeLeader ==
    LET i == GlobalLogLen(log)
    IN  /\ MuFree /\ ~leader /\ ~serving
        /\ i <= Final /\ Entries(i, i)[1].cmd = Noop
        /\ log' = log \o Entries(i, i)
        /\ leader' = TRUE /\ serving' = TRUE
        /\ UNCHANGED <<snapshotIndex, commitIndex, lastApplied, applyQueue, applier, enqueuer,
                       installer, sending, serviceVars, reboots>>

(* It hears of a higher term.                                              *)
StepDown ==
    /\ MuFree /\ leader
    /\ leader' = FALSE
    /\ UNCHANGED <<log, snapshotIndex, commitIndex, lastApplied, applyQueue, threadVars,
                   serviceVars, reboots>>

(* serveAsLeader notices, some time later, and cancels the leader's tasks. *)
StopServing ==
    /\ serving /\ ~leader
    /\ serving' = FALSE
    /\ UNCHANGED <<raftVars, applyQueue, applier, enqueuer, installer, sending, serviceVars,
                   reboots>>

(* A reply of a higher term, to AppendEntries or InstallSnapshot, sets     *)
(* cancelToken: the leader's tasks end, and rf.state stays Leader.         *)
CancelTasks ==
    /\ serving /\ leader /\ MuFree
    /\ serving' = FALSE
    /\ UNCHANGED <<raftVars, applyQueue, applier, enqueuer, installer, sending, serviceVars,
                   reboots>>

CommitCheck ==
    /\ serving /\ MuFree
    /\ \E c \in (commitIndex + 1)..LastIndex(log) : commitIndex' = c
    /\ enqueuer' = Signalled(enqueuer)
    /\ UNCHANGED <<log, snapshotIndex, leader, lastApplied, applyQueue, applier, installer,
                   serving, sending, serviceVars, reboots>>

(* heartBeat signals without rf.mu.                                        *)
HeartBeatEnqueue ==
    /\ serving /\ enqueuer = "waiting"
    /\ enqueuer' = Signalled(enqueuer)
    /\ UNCHANGED <<raftVars, applyQueue, applier, installer, serving, sending, serviceVars,
                   reboots>>

SignalNobody(thread) == thread   \* mutant of BeatSignal

BeatSignal(thread) == Signalled(thread)

HeartBeatApply ==
    /\ serving /\ applier = "waiting"
    /\ applier' = BeatSignal(applier)
    /\ UNCHANGED <<raftVars, applyQueue, enqueuer, installer, serving, sending, serviceVars,
                   reboots>>

NothingRestored == <<>>   \* mutant of Restored

(* What Make() puts into the queue.                                        *)
Restored == IF snapshotIndex = 0 THEN <<>> ELSE <<SnapshotMsg(snapshotIndex)>>

(* Kill(), and Make() and a fresh service on what was persisted (lastApplied *)
(* is 1 if nothing ever was).  Make signals applyCond with rf.mu held, when  *)
(* the applier it has just started cannot be waiting yet.                    *)
Reboot ==
    /\ reboots < MaxReboots
    /\ installer = "idle"
    /\ reboots' = reboots + 1
    /\ commitIndex' = 0
    /\ \/ lastApplied' = log[1].index
       \/ log = Entries(0, 0) /\ ~leader /\ lastApplied' = 1
    /\ applyQueue' = Restored
    /\ applier' = "top" /\ enqueuer' = "top" /\ sending' = NoMsg
    /\ serving' = leader
    /\ service' = "receive" /\ received' = NoMsg /\ position' = 0
    /\ handler' = "idle"
    /\ UNCHANGED <<log, snapshotIndex, leader, installer>>

----------------------------------------------------------------------------
Applier == ApplierWait \/ ApplierWake \/ ApplierUnlock \/ Dequeue \/ Send
Enqueuer == EnqueuerWait \/ EnqueuerWake \/ EnqueueCommand \/ SkipNoop \/ EnqueueDone
Service == ServiceApply \/ ServiceSnapshot \/ HandlerLock \/ HandlerStart
Peer ==
    \/ \E last, commit \in 0..Final : AppendEntries(last, commit)
    \/ \E g \in 0..Final : InstallSnapshot(g)
    \/ EnqueueSnapshot
    \/ BecomeLeader \/ StepDown \/ StopServing \/ CancelTasks
    \/ CommitCheck \/ HeartBeatEnqueue \/ HeartBeatApply
    \/ Reboot

Next == Applier \/ Enqueuer \/ Service \/ Peer

Spec == Init /\ [][Next]_vars

(* Every goroutine is scheduled, heartBeat comes round again while it      *)
(* runs, and a goroutine that waits for a lock gets it (Go's mutexes hand  *)
(* over to one that has waited for a millisecond).                         *)
Fairness ==
    /\ SF_vars(ApplierWait) /\ SF_vars(ApplierWake)
    /\ WF_vars(ApplierUnlock) /\ WF_vars(Dequeue) /\ WF_vars(Send)
    /\ SF_vars(EnqueuerWait) /\ SF_vars(EnqueuerWake)
    /\ WF_vars(EnqueueCommand \/ SkipNoop \/ EnqueueDone)
    /\ SF_vars(ServiceApply) /\ SF_vars(ServiceSnapshot) /\ SF_vars(HandlerStart)
    /\ WF_vars(EnqueueSnapshot)
    /\ WF_vars(HeartBeatEnqueue) /\ WF_vars(HeartBeatApply)

FairSpec == Spec /\ Fairness

----------------------------------------------------------------------------
Msg == [snapshot : BOOLEAN, index : 0..CommandsUpTo(Final)]

(* Types of the variables, the ones of log and lastApplied with what       *)
(* applyEntries counts on: the log is a stretch of the committed entries   *)
(* (its first entry taken for a no-op) that holds entry lastApplied.       *)
TypeOK ==
    /\ \E first \in 0..Final : \E last \in first..Final : log = CutAt(Entries(0, last), first)
    /\ lastApplied >= log[1].index /\ lastApplied <= Final
    /\ lastApplied <= LastIndex(log) \/ (log = Entries(0, 0) /\ lastApplied = 1)
    /\ commitIndex \in 0..Final
    /\ leader \in BOOLEAN /\ serving \in BOOLEAN
    /\ applyQueue \in Seq(Msg) /\ sending \in Msg /\ received \in Msg
    /\ applier \in {"top", "waiting", "signalled", "woken", "drain", "send"}
    /\ enqueuer \in {"top", "waiting", "signalled", "loop"}
    /\ installer \in {"idle", "cleaned"}
    /\ service \in {"receive", "received", "snapshot"}
    /\ handler \in {"idle", "locked"}
    /\ position \in 0..CommandsUpTo(Final)
    /\ reboots \in 0..MaxReboots

(* What is on its way to the service, oldest first.                        *)
Pending ==
    (IF service = "received" THEN <<received>> ELSE <<>>)
    \o (IF applier = "send" THEN <<sending>> ELSE <<>>)
    \o applyQueue

(* Where the service will be when the first k of them have been applied.   *)
PositionAfter(k) == IF k = 0 THEN position ELSE Pending[k].index

(* The service never gets a command out of order: whatever is on its way,  *)
(* each command comes right after the state the message before it leaves.  *)
(* handleApplyMsg and the testers' appliers die of it otherwise.  A        *)
(* snapshot may be installed while a message of before is on its way.      *)
InOrder ==
    \A k \in 1..Len(Pending) :
        ~Pending[k].snapshot => Pending[k].index = PositionAfter(k - 1) + 1

(* Nothing is lost between lastApplied and the service: once it has got    *)
(* what is on its way, its state contains exactly the commands up to entry *)
(* lastApplied, across snapshots taken, installed and recovered from.      *)
Accounted ==
    installer = "idle" => PositionAfter(Len(Pending)) = CommandsUpTo(lastApplied)

(* The snapshot and the log fit together: the snapshot contains exactly    *)
(* the commands up to the entry the log starts at, although the service    *)
(* makes snapshots of a state that a snapshot from the leader may have     *)
(* overtaken.                                                              *)
SnapshotFitsLog == snapshotIndex = CommandsUpTo(log[1].index)

(* A leader whose heartBeat goes on gets everything that is committed to   *)
(* its service, whatever wake-ups were lost and whoever holds which lock.  *)
(* rf.state alone is not enough: once a reply of a higher term has         *)
(* cancelled its tasks, nothing repeats a wake-up on a peer that is still  *)
(* Leader.                                                                 *)
LeaderDelivers ==
    <>[](leader /\ serving) =>
        <>[](/\ Pending = <<>>
             /\ \/ lastApplied >= commitIndex
                \/ lastApplied = LastIndex(log))

=============================================================================
