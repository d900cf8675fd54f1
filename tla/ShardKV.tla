------------------------------ MODULE ShardKV -------------------------------
(***************************************************************************)
(* The sharded key/value service (shardkv/server.go, shardkv/client.go):   *)
(* replica groups that serve the shards the controller gives them, hand    *)
(* them over when the configuration changes, and clerks that follow.       *)
(*                                                                         *)
(* A server works through configurations one by one in pollConfig:         *)
(* UpdateShardVec stops serving what it is to lose, MoveShards fetches     *)
(* what it is to get from the groups that had it, enters it in its own     *)
(* log (ApplyMovement) and asks them to forget it (DeleteShards), and      *)
(* ChangeConfig ends the change.  Every phase is an operation in the log   *)
(* of the group; the goroutine that drives the phases is on one server,    *)
(* and the server may stop being the leader, or crash, between any two.    *)
(*                                                                         *)
(* A group's log is what Raft provides: the leader appends, and applies    *)
(* the entries in order when they are committed; the others follow.  A new *)
(* leader keeps what anybody has applied, and maybe some of the rest.      *)
(* What a deposed leader takes in is lost.  An entry is known by its index *)
(* and its term, which stand for the random Op.Number.                     *)
(***************************************************************************)
EXTENDS KVModel, FiniteSets

CONSTANTS
    Group, Server,
    GroupOf,       \* server -> its group
    NoServer,
    NShards,
    Configs,       \* what the controller decides: configuration n gives shard
                   \* sh to group Configs[n][sh], or to 0
    Key, Key2Shard,
    Clerk,
    Script,        \* what each clerk calls, in this order
    Races,         \* the narrow windows that the scheduler may hit, see below
    MaxTerm,       \* bound: elections while a group has a leader
    MaxCrashes,    \* bound: restarts, per server
    MaxTimeouts,   \* bound: replies lost, and commits not awaited
    MaxLate,       \* bound: requests handled after their Call has failed
    SnapshotAt     \* group -> indices at which the log may have grown large enough

(***************************************************************************)
(*  oldMove   a server that is in MoveShards is deposed, and leads again   *)
(*            before MoveShards has noticed (server.go:453-519: no test of *)
(*            the term, nor of kv.config, when ApplyMovement is started);  *)
(*  lateRead  a Get that was applied reads kv.mp only after the shard was  *)
(*            deleted (server.go:228-232: the handler sleeps for 10 ms);   *)
(*  regress   a request is handled only after its clerk has gone on to the *)
(*            next call, and takes the session back (server.go:581-586).   *)
(***************************************************************************)
Race == {"oldMove", "lateRead", "regress"}

Shard == 1..NShards

ASSUME ShardKVAssumption ==
    /\ GroupOf \in [Server -> Group] /\ NoServer \notin Server
    /\ 0 \notin Group
    /\ NShards \in Nat \ {0}
    /\ \A n \in DOMAIN Configs : Configs[n] \in [Shard -> Group \cup {0}]
    /\ Key2Shard \in [Key -> Shard]
    /\ Races \subseteq Race
    /\ MaxTerm \in [Group -> Nat] /\ MaxCrashes \in [Server -> Nat]
    /\ MaxTimeouts \in Nat /\ MaxLate \in Nat

VARIABLES
    \* the controller
    published,     \* the number of the latest configuration
    \* groups
    log,           \* the entries that nobody has applied yet
    leader, term,
    record,        \* what is put in logRecord at the indices that were applied
    tip,           \* the state after that
    \* servers
    believes,      \* the servers that take themselves for leaders
    kv,            \* server -> what is in a Snapshot: mp, ckSessions, config,
                   \*           shardVec, shardLastNums
    lastApplied,
    logRecord,     \* the indices that are in it
    snapshot,      \* what the persister has
    installing,    \* the servers to whose service it is on its way
    poll,          \* where pollConfig is
    localReqNum,
    \* clerks
    call, called,
    ckConfig,      \* the number of the clerk's configuration
    late,          \* requests in flight whose Call has failed
    \* history
    executed,      \* the writes in the order in which they took effect
    since, got,    \* clerk -> writes before its call; its last read
    \* bounds
    crashes, timeouts, lates

groupVars == <<log, leader, term, record, tip, believes>>
serverVars == <<kv, lastApplied, logRecord, snapshot, installing>>
pollVars == <<poll, localReqNum>>
clerkVars == <<call, called, ckConfig, late>>
history == <<executed, since, got>>
bounds == <<crashes, timeouts, lates>>
vars == <<published, log, leader, term, record, tip, believes, kv, lastApplied,
          logRecord, snapshot, installing, poll, localReqNum, call, called, ckConfig, late,
          executed, since, got, crashes, timeouts, lates>>

Members(g) == {s \in Server : GroupOf[s] = g}

(* Config.Shards; configuration 0 gives every shard to nobody. *)
Owner(n, sh) == IF n = 0 THEN 0 ELSE Configs[n][sh]

NoSessions == [id \in {} |-> 0]
NewKV == [mp |-> [k \in Key |-> Empty], ckSessions |-> NoSessions, config |-> 0,
          shardVec |-> [sh \in Shard |-> FALSE],
          shardLastNums |-> [sh \in Shard |-> 0]]
Idle == [at |-> "idle"]
Calling(op) == [at |-> "calling", op |-> op]
NoRead == [key |-> "none", value |-> Empty, from |-> 0, to |-> 0]

(* StartServer on fresh persisters, MakeClerk *)
Init ==
    /\ published = 0
    /\ log = [g \in Group |-> <<>>] /\ record = [g \in Group |-> <<>>]
    /\ leader = [g \in Group |-> NoServer] /\ term = [g \in Group |-> 0]
    /\ tip = [g \in Group |-> NewKV] /\ believes = {}
    /\ kv = [s \in Server |-> NewKV] /\ lastApplied = [s \in Server |-> 0]
    /\ logRecord = [s \in Server |-> {}]
    /\ snapshot = [s \in Server |-> [index |-> 0, kv |-> NewKV]] /\ installing = {}
    /\ poll = [s \in Server |-> Idle] /\ localReqNum = [s \in Server |-> 1]
    /\ call = [c \in Clerk |-> Idle] /\ called = [c \in Clerk |-> 0]
    /\ ckConfig = [c \in Clerk |-> 0] /\ late = {}
    /\ executed = <<>>
    /\ since = [c \in Clerk |-> 0] /\ got = [c \in Clerk |-> NoRead]
    /\ crashes = [s \in Server |-> 0] /\ timeouts = 0 /\ lates = 0

-----------------------------------------------------------------------------
(* The controller and the logs of the groups *)

(* The controller makes its next configuration. *)
Publish ==
    /\ published < Len(Configs)
    /\ published' = published + 1
    /\ UNCHANGED <<groupVars, serverVars, pollVars, clerkVars, history, bounds>>

(* A server becomes the leader with all that was applied and some of the   *)
(* rest.  The leader before it may not hear of it at once.                 *)
Elect(s) ==
    LET g == GroupOf[s]
    IN  /\ leader[g] # s
        /\ leader[g] = NoServer \/ term[g] < MaxTerm[g]
        /\ "oldMove" \in Races \/ poll[s].at # "move"
        /\ leader' = [leader EXCEPT ![g] = s]
        /\ term' = [term EXCEPT ![g] = @ + 1]
        /\ \E n \in 0..Len(log[g]) :
              log' = [log EXCEPT ![g] = SubSeq(@, 1, n)]
        /\ believes' = believes \cup {s}
        /\ UNCHANGED <<published, record, tip, serverVars, pollVars, clerkVars, history, bounds>>

(* A deposed leader hears of the other one. *)
StepDown(s) ==
    /\ s \in believes /\ leader[GroupOf[s]] # s
    /\ believes' = believes \ {s}
    /\ UNCHANGED <<published, log, leader, term, record, tip, serverVars, pollVars, clerkVars,
                   history, bounds>>

-----------------------------------------------------------------------------
(* Operations *)

FromClerk(op) == op.type \in {"Get", "Put", "Append"}

(* uniKey: the clerk and the shard; for the servers' own operations the    *)
(* uid of the server that made it, which is new after every restart.       *)
Uid(s) == <<s, crashes[s]>>
UniKey(op) == IF FromClerk(op) THEN <<op.ck, Key2Shard[op.key]>> ELSE op.ck
OfClerk(id) == id[1] \in Clerk

Has(state, op) == state.shardVec[Key2Shard[op.key]]

ChangeConfig(state, g, op) ==
    IF state.config < op.num
    THEN [state EXCEPT
            !.config = op.num,
            !.shardVec = [sh \in Shard |-> Owner(op.num, sh) = g],
            !.shardLastNums = [sh \in Shard |->
                IF Owner(op.num, sh) = g THEN op.num ELSE @[sh]]]
    ELSE state

\* Mutant: what is moved is always taken
AlwaysNews(state, sh, op) == TRUE

(* Data and sessions of a shard are taken only if the group has not had    *)
(* the shard in that configuration already.                                *)
IsNews(state, sh, op) == state.shardLastNums[sh] < op.num

ApplyMovement(state, op) ==
    LET taken == {id \in DOMAIN op.sessions : IsNews(state, id[2], op)}
    IN  [state EXCEPT
            !.mp = [k \in Key |->
                IF op.mp[k] # Empty /\ IsNews(state, Key2Shard[k], op) THEN op.mp[k] ELSE @[k]],
            !.ckSessions = [id \in DOMAIN @ \cup taken |->
                IF id \in taken THEN [op.sessions[id] EXCEPT !.index = -1] ELSE @[id]],
            !.shardVec = [sh \in Shard |-> @[sh] \/ sh \in op.shards],
            !.shardLastNums = [sh \in Shard |->
                IF sh \in op.shards THEN op.num ELSE @[sh]]]

(* ... and forgotten only if it has not come back since.                   *)
Unneeded(state, op) == {sh \in op.shards : op.num >= state.shardLastNums[sh]}

DeleteShards(state, op) ==
    LET gone == Unneeded(state, op)
    IN  [state EXCEPT
            !.mp = [k \in Key |-> IF Key2Shard[k] \in gone THEN Empty ELSE @[k]],
            !.ckSessions = [id \in {i \in DOMAIN @ : ~(OfClerk(i) /\ i[2] \in gone)} |-> @[id]]]

UpdateShardVec(state, op) ==
    IF state.config < op.num THEN [state EXCEPT !.shardVec = op.newVec] ELSE state

(* applyOp; an operation on a shard that is not served fails.              *)
Fails(state, op) == FromClerk(op) /\ ~Has(state, op)

ApplyOp(state, g, op) ==
    CASE FromClerk(op) -> [state EXCEPT !.mp = After(@, op)]
      [] op.type = "ChangeConfig" -> ChangeConfig(state, g, op)
      [] op.type = "ApplyMovement" -> ApplyMovement(state, op)
      [] op.type = "DeleteShards" -> DeleteShards(state, op)
      [] op.type = "UpdateShardVec" -> UpdateShardVec(state, op)

(* handleApplyMsg: an operation that is not newer than the last one of its *)
(* session does not change the state, but becomes the last one; one that   *)
(* fails leaves no trace but a number nobody waits for.                    *)
Stale(state, op, i) ==
    LET id == UniKey(op)
    IN  id \in DOMAIN state.ckSessions /\ state.ckSessions[id].index < i
        /\ op.req <= state.ckSessions[id].req

WithSession(state, entry, i) ==
    [state EXCEPT !.ckSessions =
        [id \in DOMAIN @ \cup {UniKey(entry.op)} |->
            IF id = UniKey(entry.op)
            THEN [req |-> entry.op.req, number |-> entry.number, index |-> i]
            ELSE @[id]]]

Applied(state, g, entry, i) ==
    CASE Stale(state, entry.op, i) -> WithSession(state, entry, i)
      [] ~Stale(state, entry.op, i) /\ Fails(state, entry.op) -> state
      [] OTHER -> WithSession(ApplyOp(state, g, entry.op), entry, i)

\* Mutant: a failed operation is recorded as if it had been carried out
RecordedAnyway(state, entry, i) == entry.number

Recorded(state, entry, i) ==
    IF ~Stale(state, entry.op, i) /\ Fails(state, entry.op) THEN -1 ELSE entry.number

-----------------------------------------------------------------------------
(* Handlers *)

(* handleNormalRPC: the clerk's last operation here was this one, and the  *)
(* record of its index still shows it.                                     *)
Answered(s, op) ==
    LET sessions == kv[s].ckSessions
        id == UniKey(op)
    IN  /\ id \in DOMAIN sessions /\ sessions[id].req = op.req
        /\ sessions[id].index \in logRecord[s]
        /\ record[GroupOf[s]][sessions[id].index] = sessions[id].number

(* Otherwise Start.  (One who only believes it leads starts in vain.)      *)
Ticket(s) ==
    LET g == GroupOf[s]
    IN  [server |-> s, index |-> Len(record[g]) + Len(log[g]) + 1, number |-> term[g]]

Starts(s, op) ==
    LET g == GroupOf[s]
    IN  /\ leader[g] = s
        /\ FromClerk(op) => Has(kv[s], op)
        /\ ~Answered(s, op)
        /\ log' = [log EXCEPT ![g] = Append(@, [op |-> op, number |-> term[g]])]
        /\ UNCHANGED <<leader, term, record, tip, believes>>

(* waittingForCommit: the operation is committed at its index ...          *)
IsCommitted(t) ==
    /\ t.index <= lastApplied[t.server] /\ t.index \in logRecord[t.server]
    /\ record[GroupOf[t.server]][t.index] = t.number

(* ... or something else is, or nothing is within 30 ms, which costs a     *)
(* timeout unless it has to happen.                                        *)
IsPending(t) ==
    LET g == GroupOf[t.server]
        numbers == record[g] \o [i \in DOMAIN log[g] |-> log[g][i].number]
    IN  /\ t.index > lastApplied[t.server]
        /\ t.index <= Len(numbers) /\ numbers[t.index] = t.number

IsLost(t) == ~IsCommitted(t) /\ ~IsPending(t)

GivesUp(t) ==
    \/ IsLost(t) /\ UNCHANGED timeouts
    \/ ~IsLost(t) /\ timeouts < MaxTimeouts /\ timeouts' = timeouts + 1

(* What a server applies up to index n takes it past a Get that one of its *)
(* handlers has yet to answer.                                             *)
PassesRead(s, n) ==
    \E c \in Clerk :
        /\ call[c].at = "waiting" /\ call[c].op.type = "Get"
        /\ call[c].wait.server = s /\ call[c].wait.index < n
        /\ IsCommitted(call[c].wait) \/ IsPending(call[c].wait)

(* handleApplyMsg: the next operation of the log, then maybe a snapshot.   *)
Apply(s) ==
    LET g == GroupOf[s]
        i == Len(record[g]) + 1
        entry == Head(log[g])
        stale == Stale(kv[s], entry.op, i)
    IN  /\ leader[g] = s /\ lastApplied[s] = Len(record[g]) /\ s \notin installing
        /\ log[g] # <<>>
        /\ "lateRead" \in Races \/ entry.op.type # "DeleteShards" \/ ~PassesRead(s, i)
        /\ kv' = [kv EXCEPT ![s] = Applied(@, g, entry, i)]
        /\ tip' = [tip EXCEPT ![g] = kv'[s]]
        /\ lastApplied' = [lastApplied EXCEPT ![s] = i]
        /\ record' = [record EXCEPT ![g] = Append(@, Recorded(kv[s], entry, i))]
        /\ logRecord' = [logRecord EXCEPT ![s] = @ \cup {i}]
        /\ \/ UNCHANGED snapshot
           \/ /\ ~stale /\ i \in SnapshotAt[g]
              /\ snapshot' = [snapshot EXCEPT ![s] = [index |-> i, kv |-> kv'[s]]]
        /\ executed' = IF entry.op.type \in {"Put", "Append"} /\ ~stale /\ Has(kv[s], entry.op)
                       THEN Append(executed, entry.op) ELSE executed
        /\ log' = [log EXCEPT ![g] = Tail(@)]
        /\ UNCHANGED <<published, leader, term, believes, installing, pollVars, clerkVars,
                       since, got, bounds>>

(* The others come to the same state when they have applied as much.  A    *)
(* deposed leader gets the entries of its successor with the news of it.   *)
CatchUp(s) ==
    LET g == GroupOf[s]
        n == Len(record[g])
    IN  /\ s \notin installing /\ lastApplied[s] < n
        /\ s \in believes => leader[g] = s
        /\ "lateRead" \in Races \/ ~PassesRead(s, n)
        /\ kv' = [kv EXCEPT ![s] = tip[g]]
        /\ lastApplied' = [lastApplied EXCEPT ![s] = n]
        /\ logRecord' = [logRecord EXCEPT ![s] = @ \cup (lastApplied[s] + 1)..n]
        /\ UNCHANGED <<published, groupVars, snapshot, installing, pollVars, clerkVars,
                       history, bounds>>

(* Raft gives a server the leader's snapshot if its own is older, even if  *)
(* it has applied more than that; one that took itself for the leader does *)
(* so no longer.                                                           *)
InstallSnapshot(s) ==
    LET l == leader[GroupOf[s]]
    IN  /\ l \notin {s, NoServer}
        /\ snapshot[l].index > snapshot[s].index
        /\ snapshot' = [snapshot EXCEPT ![s] = snapshot[l]]
        /\ installing' = installing \cup {s}
        /\ believes' = believes \ {s}
        /\ UNCHANGED <<published, log, leader, term, record, tip, kv, lastApplied, logRecord,
                       pollVars, clerkVars, history, bounds>>

(* The service takes it over, forwards or back, as it does with its own    *)
(* after a restart; logRecord is kept.                                     *)
ApplySnapshot(s) ==
    /\ s \in installing
    /\ "lateRead" \in Races \/ ~PassesRead(s, snapshot[s].index)
    /\ installing' = installing \ {s}
    /\ kv' = [kv EXCEPT ![s] = snapshot[s].kv]
    /\ lastApplied' = [lastApplied EXCEPT ![s] = snapshot[s].index]
    /\ UNCHANGED <<published, groupVars, logRecord, snapshot, pollVars, clerkVars,
                   history, bounds>>

-----------------------------------------------------------------------------
(* Clerks *)

Current(c) == Script[c][called[c]]

(* Get, PutAppend: the arguments keep the old reqNum. *)
Invoke(c) ==
    /\ call[c] = Idle
    /\ called[c] < Len(Script[c])
    /\ called' = [called EXCEPT ![c] = @ + 1]
    /\ LET step == Script[c][called[c] + 1]
       IN  call' = [call EXCEPT ![c] =
              Calling([type |-> step.type, key |-> step.key, val |-> step.val,
                       ck |-> c, req |-> called[c] + 1])]
    /\ since' = [since EXCEPT ![c] = Len(executed)]
    /\ UNCHANGED <<published, groupVars, serverVars, pollVars, ckConfig, late, executed,
                   got, bounds>>

(* The servers of the group the clerk thinks has the shard; it tries them  *)
(* one after the other.                                                    *)
Targets(c) == Members(Owner(ckConfig[c], Key2Shard[call[c].op.key]))

\* Mutant: the clerk keeps its first configuration
RefreshOnce(c) ==
    /\ call[c].at = "calling"
    /\ ckConfig[c] = 0 /\ published > 0
    /\ ckConfig' = [ckConfig EXCEPT ![c] = published]
    /\ UNCHANGED <<published, groupVars, serverVars, pollVars, call, called, late,
                   history, bounds>>

(* Nobody was there, nobody was the leader, or the group was wrong: ask    *)
(* the controller again.                                                   *)
Refresh(c) ==
    /\ call[c].at = "calling"
    /\ ckConfig[c] # published
    /\ ckConfig' = [ckConfig EXCEPT ![c] = published]
    /\ UNCHANGED <<published, groupVars, serverVars, pollVars, call, called, late,
                   history, bounds>>

(* The reply is OK and arrives; server s has answered from its store.      *)
Return(c, s) ==
    /\ call' = [call EXCEPT ![c] = Idle]
    /\ got' = IF Current(c).type = "Get"
              THEN [got EXCEPT ![c] = [key |-> Current(c).key,
                                       value |-> kv[s].mp[Current(c).key],
                                       from |-> since[c], to |-> Len(executed)]]
              ELSE got

HandleAnswered(c, s) ==
    /\ call[c].at = "calling" /\ s \in Targets(c)
    /\ s \in believes
    /\ Has(kv[s], call[c].op)
    /\ Answered(s, call[c].op)
    /\ Return(c, s)
    /\ UNCHANGED <<published, groupVars, serverVars, pollVars, called, ckConfig, late,
                   executed, since, bounds>>

HandleStart(c, s) ==
    /\ call[c].at = "calling" /\ s \in Targets(c)
    /\ Starts(s, call[c].op)
    /\ call' = [call EXCEPT ![c] = [at |-> "waiting", op |-> @.op, wait |-> Ticket(s)]]
    /\ UNCHANGED <<published, serverVars, pollVars, called, ckConfig, late, history, bounds>>

HandleCommitted(c) ==
    /\ call[c].at = "waiting"
    /\ IsCommitted(call[c].wait)
    /\ Return(c, call[c].wait.server)
    /\ UNCHANGED <<published, groupVars, serverVars, pollVars, called, ckConfig, late,
                   executed, since, bounds>>

(* The reply says FailedToCommit or CommitTimeout, or is lost. *)
TryAgain(c) ==
    /\ call[c].at = "waiting"
    /\ GivesUp(call[c].wait)
    /\ call' = [call EXCEPT ![c] = Calling(@.op)]
    /\ UNCHANGED <<published, groupVars, serverVars, pollVars, called, ckConfig, late,
                   history, crashes, lates>>

(* A Call fails although its request will still be handled; nobody reads   *)
(* the reply.                                                              *)
SendLate(c, s) ==
    /\ lates < MaxLate /\ lates' = lates + 1
    /\ call[c].at = "calling" /\ s \in Targets(c)
    /\ late' = late \cup {[server |-> s, op |-> call[c].op]}
    /\ UNCHANGED <<published, groupVars, serverVars, pollVars, call, called, ckConfig,
                   history, crashes, timeouts>>

HandleLate(r) ==
    /\ "regress" \in Races \/ FromClerk(r.op) => r.op.req = called[r.op.ck]
    /\ Starts(r.server, r.op)
    /\ late' = late \ {r}
    /\ UNCHANGED <<published, serverVars, pollVars, call, called, ckConfig, history, bounds>>

-----------------------------------------------------------------------------
(* pollConfig *)

NoWait == [server |-> NoServer, index |-> 0, number |-> 0]

(* An RPC of a server to itself: OK when it is committed, or was before.   *)
Succeeds(s, op, wait) ==
    IF wait = NoWait THEN s \in believes /\ Answered(s, op) ELSE IsCommitted(wait)

(* The shards of group g in configuration next that others had in old.     *)
Receives(g, old, next, src) ==
    {sh \in Shard : Owner(next, sh) = g /\ Owner(old, sh) = src}

Sources(g, old, next) ==
    {src \in (Group \cup {0}) \ {g} : Receives(g, old, next, src) # {}}

IsBehind(s) == kv[s].config < published

(* Phase 1.  A leader that is behind stops serving the shards it loses and *)
(* serves at once those that nobody had.                                   *)
PollConfig(s) ==
    LET g == GroupOf[s]
        next == kv[s].config + 1
        newVec == [sh \in Shard |-> /\ Owner(next, sh) = g
                                    /\ Owner(kv[s].config, sh) \in {g, 0}]
    IN  /\ poll[s] = Idle /\ s \in believes
        /\ IsBehind(s)
        /\ poll' = [poll EXCEPT ![s] =
              [at |-> "update", next |-> next, wait |-> NoWait,
               op |-> [type |-> "UpdateShardVec", num |-> next, newVec |-> newVec,
                       ck |-> Uid(s), req |-> localReqNum[s]]]]
        /\ localReqNum' = [localReqNum EXCEPT ![s] = @ + 1]
        /\ UNCHANGED <<published, groupVars, serverVars, clerkVars, history, bounds>>

(* Phase 3.  The shards are here. *)
StartChange(s, next) ==
    /\ poll' = [poll EXCEPT ![s] =
          [at |-> "change", next |-> next, wait |-> NoWait,
           op |-> [type |-> "ChangeConfig", num |-> next,
                   ck |-> Uid(s), req |-> localReqNum[s]]]]
    /\ localReqNum' = [localReqNum EXCEPT ![s] = @ + 1]

(* The other leader may have made the change meanwhile. *)
IsChanged(s, next) == kv[s].config >= next

(* Phase 2, if the shard vector is in the log: nothing to move at the      *)
(* first configuration; else one goroutine for every group to fetch from.  *)
UpdateDone(s) ==
    LET g == GroupOf[s]
        next == poll[s].next
        old == kv[s].config
    IN  /\ poll[s].at = "update"
        /\ Succeeds(s, poll[s].op, poll[s].wait)
        /\ \/ /\ IsChanged(s, next)
              /\ poll' = [poll EXCEPT ![s] = Idle]
              /\ UNCHANGED localReqNum
           \/ /\ ~IsChanged(s, next) /\ old = 0
              /\ StartChange(s, next)
           \/ /\ ~IsChanged(s, next) /\ old # 0
              /\ poll' = [poll EXCEPT ![s] =
                    [at |-> "move", old |-> old, next |-> next, deleting |-> FALSE,
                     parts |-> [src \in Sources(g, old, next) |-> [at |-> "fetch"]]]]
              /\ UNCHANGED localReqNum
        /\ UNCHANGED <<published, groupVars, serverVars, clerkVars, history, bounds>>

ChangeDone(s) ==
    /\ poll[s].at = "change"
    /\ Succeeds(s, poll[s].op, poll[s].wait)
    /\ poll' = [poll EXCEPT ![s] = Idle]
    /\ UNCHANGED <<published, groupVars, serverVars, localReqNum, clerkVars, history, bounds>>

(* The local RPCs of phases 1 and 3: started, repeated, given up.          *)
LocalStart(s) ==
    /\ poll[s].at \in {"update", "change"} /\ poll[s].wait = NoWait
    /\ Starts(s, poll[s].op)
    /\ poll' = [poll EXCEPT ![s].wait = Ticket(s)]
    /\ UNCHANGED <<published, serverVars, localReqNum, clerkVars, history, bounds>>

LocalRetry(s) ==
    /\ poll[s].at \in {"update", "change"} /\ poll[s].wait # NoWait
    /\ GivesUp(poll[s].wait)
    /\ poll' = [poll EXCEPT ![s].wait = NoWait]
    /\ UNCHANGED <<published, groupVars, serverVars, localReqNum, clerkVars, history, crashes, lates>>

LocalWrongLeader(s) ==
    /\ poll[s].at \in {"update", "change"} /\ poll[s].wait = NoWait
    /\ s \notin believes
    /\ poll' = [poll EXCEPT ![s] = Idle]
    /\ UNCHANGED <<published, groupVars, serverVars, localReqNum, clerkVars, history, bounds>>

-----------------------------------------------------------------------------
(* MoveShards *)

Part(s, src) == poll[s].parts[src]
SetPart(s, src, part) == poll' = [poll EXCEPT ![s].parts[src] = part]
Moving(s, src) == poll[s].at = "move" /\ src \in DOMAIN poll[s].parts

\* Mutants: gives data away before it has stopped serving; only when it is past
\* the configuration
GivesEarly(t, num) == t \in believes
GivesLate(t, num) == t \in believes /\ kv[t].config > num

(* RequestMapAndSession at server t: a leader that has adopted the         *)
(* configuration, and so no longer serves the shards, gives them away.     *)
Gives(t, num) == t \in believes /\ kv[t].config >= num

\* Mutant: the sessions stay behind
NoSessionsOf(t, shards) == NoSessions

SessionsOf(t, shards) ==
    [id \in {i \in DOMAIN kv[t].ckSessions : OfClerk(i) /\ i[2] \in shards} |->
        kv[t].ckSessions[id]]

Fetch(s, src, t) ==
    LET shards == Receives(GroupOf[s], poll[s].old, poll[s].next, src)
    IN  /\ Moving(s, src) /\ Part(s, src).at = "fetch"
        /\ t \in Members(src) /\ Gives(t, poll[s].next)
        /\ SetPart(s, src, [at |-> "fetched",
              mp |-> [k \in Key |-> IF Key2Shard[k] \in shards THEN kv[t].mp[k] ELSE Empty],
              sessions |-> SessionsOf(t, shards)])
        /\ UNCHANGED <<published, groupVars, serverVars, localReqNum, clerkVars, history, bounds>>

(* One ApplyMovement at a time, so that they commit in the order of their  *)
(* request numbers; started, and repeated.                                 *)
Movement(s, src) ==
    [type |-> "ApplyMovement", num |-> poll[s].next,
     mp |-> Part(s, src).mp, sessions |-> Part(s, src).sessions,
     shards |-> Receives(GroupOf[s], poll[s].old, poll[s].next, src),
     ck |-> Uid(s), req |-> localReqNum[s]]

\* Mutant: sendApplyMovementLock is not taken
Unlocked(s) == TRUE

SendApplyMovementLock(s) ==
    \A src \in DOMAIN poll[s].parts : Part(s, src).at # "moving"

MoveBegin(s, src) ==
    /\ Moving(s, src) /\ Part(s, src).at = "fetched"
    /\ SendApplyMovementLock(s)
    /\ SetPart(s, src, [at |-> "moving", op |-> Movement(s, src), wait |-> NoWait])
    /\ localReqNum' = [localReqNum EXCEPT ![s] = @ + 1]
    /\ UNCHANGED <<published, groupVars, serverVars, clerkVars, history, bounds>>

MoveStart(s, src) ==
    /\ Moving(s, src) /\ Part(s, src).at = "moving" /\ Part(s, src).wait = NoWait
    /\ Starts(s, Part(s, src).op)
    /\ SetPart(s, src, [Part(s, src) EXCEPT !.wait = Ticket(s)])
    /\ UNCHANGED <<published, serverVars, localReqNum, clerkVars, history, bounds>>

MoveRetry(s, src) ==
    /\ Moving(s, src) /\ Part(s, src).at = "moving" /\ Part(s, src).wait # NoWait
    /\ GivesUp(Part(s, src).wait)
    /\ SetPart(s, src, [Part(s, src) EXCEPT !.wait = NoWait])
    /\ UNCHANGED <<published, groupVars, serverVars, localReqNum, clerkVars, history, crashes, lates>>

MoveEnd(s, src) ==
    /\ Moving(s, src)
    /\ \/ /\ Part(s, src).at = "moving"
          /\ Succeeds(s, Part(s, src).op, Part(s, src).wait)
          /\ SetPart(s, src, [at |-> "moved"])
       \/ /\ Part(s, src).at = "moving" /\ Part(s, src).wait = NoWait
          /\ s \notin believes
          /\ SetPart(s, src, [at |-> "failed"])
    /\ UNCHANGED <<published, groupVars, serverVars, localReqNum, clerkVars, history, bounds>>

(* A goroutine that asks for deletion: the request of the round it is in,  *)
(* and the servers it has been sent to.                                    *)
NoRound == [at |-> "delete", tried |-> {}, wait |-> NoWait]

(* All goroutines have returned.  Deletion is only asked for by a leader   *)
(* whose movements all succeeded.                                          *)
AllMoved(s) ==
    /\ poll[s].at = "move" /\ ~poll[s].deleting
    /\ \A src \in DOMAIN poll[s].parts : Part(s, src).at \in {"moved", "failed"}
    /\ IF s \in believes /\ \A src \in DOMAIN poll[s].parts : Part(s, src).at = "moved"
       THEN poll' = [poll EXCEPT ![s] =
               [@ EXCEPT !.deleting = TRUE,
                         !.parts = [src \in DOMAIN @ |-> NoRound]]]
       ELSE poll' = [poll EXCEPT ![s] = Idle]
    /\ UNCHANGED <<published, groupVars, serverVars, localReqNum, clerkVars, history, bounds>>

DeleteOp(s, src) ==
    [type |-> "DeleteShards", num |-> poll[s].next, ck |-> Uid(s), req |-> localReqNum[s],
     shards |-> Receives(GroupOf[s], poll[s].old, poll[s].next, src)]

(* In a round, the servers are asked one after the other, with the same    *)
(* request number.  One that refuses, or does not hear of it, leaves no    *)
(* trace, so that the next to take in the request may be of a new round.   *)
OfRound(s, src, t) ==
    IF Part(s, src).tried # {} /\ t \notin Part(s, src).tried THEN {Part(s, src).op} ELSE {}

Requests(s, src, t) == {DeleteOp(s, src)} \cup OfRound(s, src, t)

Sent(s, src, t, op, wait) ==
    /\ localReqNum' = [localReqNum EXCEPT ![s] = IF op = DeleteOp(s, src) THEN @ + 1 ELSE @]
    /\ SetPart(s, src, [at |-> "delete", op |-> op, wait |-> wait,
          tried |-> {t} \cup (IF op = DeleteOp(s, src) THEN {} ELSE Part(s, src).tried)])

DeleteSend(s, src, t) ==
    /\ Moving(s, src) /\ Part(s, src).at = "delete" /\ Part(s, src).wait = NoWait
    /\ t \in Members(src)
    /\ \E op \in Requests(s, src, t) : Starts(t, op) /\ Sent(s, src, t, op, Ticket(t))
    /\ UNCHANGED <<published, serverVars, clerkVars, history, bounds>>

DeleteRetry(s, src) ==
    /\ Moving(s, src) /\ Part(s, src).at = "delete" /\ Part(s, src).wait # NoWait
    /\ GivesUp(Part(s, src).wait)
    /\ SetPart(s, src, [Part(s, src) EXCEPT !.wait = NoWait])
    /\ UNCHANGED <<published, groupVars, serverVars, localReqNum, clerkVars, history, crashes, lates>>

DeleteLate(s, src, t) ==
    /\ lates < MaxLate /\ lates' = lates + 1
    /\ Moving(s, src) /\ Part(s, src).at = "delete" /\ Part(s, src).wait = NoWait
    /\ t \in Members(src)
    /\ \E op \in Requests(s, src, t) :
         /\ late' = late \cup {[server |-> t, op |-> op]}
         /\ Sent(s, src, t, op, NoWait)
    /\ UNCHANGED <<published, groupVars, serverVars, call, called, ckConfig,
                   history, crashes, timeouts>>

(* The server it waits for has carried it out, or the next of the round    *)
(* has done so already.                                                    *)
IsDeleted(s, src) ==
    IF Part(s, src).wait # NoWait
    THEN IsCommitted(Part(s, src).wait)
    ELSE \E t \in Members(src) \cap believes :
            \E op \in OfRound(s, src, t) : Answered(t, op)

DeleteEnd(s, src) ==
    /\ Moving(s, src) /\ Part(s, src).at = "delete"
    /\ IsDeleted(s, src)
    /\ SetPart(s, src, [at |-> "done"])
    /\ UNCHANGED <<published, groupVars, serverVars, localReqNum, clerkVars, history, bounds>>

AllDeleted(s) ==
    /\ poll[s].at = "move" /\ poll[s].deleting
    /\ \A src \in DOMAIN poll[s].parts : Part(s, src).at = "done"
    /\ StartChange(s, poll[s].next)
    /\ UNCHANGED <<published, groupVars, serverVars, clerkVars, history, bounds>>

-----------------------------------------------------------------------------
(* A server dies with its handlers and goroutines and is started again     *)
(* with what the persister has; Calls to it fail.                          *)
Unanswered(s, part) ==
    IF part.at = "delete" /\ part.wait.server = s THEN [part EXCEPT !.wait = NoWait] ELSE part

Restart(s) ==
    LET g == GroupOf[s]
    IN  /\ crashes[s] < MaxCrashes[s]
        /\ crashes' = [crashes EXCEPT ![s] = @ + 1]
        /\ kv' = [kv EXCEPT ![s] = NewKV] /\ lastApplied' = [lastApplied EXCEPT ![s] = 0]
        /\ logRecord' = [logRecord EXCEPT ![s] = {}]
        /\ installing' = {t \in installing \cup {s} : t = s => snapshot[s].index > 0}
        /\ leader' = [leader EXCEPT ![g] = IF @ = s THEN NoServer ELSE @]
        /\ believes' = believes \ {s}
        /\ localReqNum' = [localReqNum EXCEPT ![s] = 1]
        /\ poll' = [r \in Server |->
              IF r = s THEN Idle
              ELSE IF poll[r].at # "move" THEN poll[r]
              ELSE [poll[r] EXCEPT !.parts = [src \in DOMAIN @ |-> Unanswered(s, @[src])]]]
        /\ call' = [c \in Clerk |->
              IF call[c].at = "waiting" /\ call[c].wait.server = s
              THEN Calling(call[c].op) ELSE call[c]]
        /\ late' = {r \in late : r.server # s}
        /\ UNCHANGED <<published, log, term, record, tip, snapshot, called, ckConfig, history,
                       timeouts, lates>>

(* What a server does with its log, and what its pollConfig does. *)
Replicate(s) == Apply(s) \/ CatchUp(s) \/ ApplySnapshot(s)

PollStep(s) ==
    \/ PollConfig(s) \/ UpdateDone(s) \/ ChangeDone(s)
    \/ LocalStart(s) \/ LocalRetry(s) \/ LocalWrongLeader(s)
    \/ AllMoved(s) \/ AllDeleted(s)

PartStep(s, src) ==
    \/ MoveBegin(s, src) \/ MoveStart(s, src) \/ MoveRetry(s, src) \/ MoveEnd(s, src)
    \/ DeleteRetry(s, src) \/ DeleteEnd(s, src)
    \/ \E t \in Server : Fetch(s, src, t) \/ DeleteSend(s, src, t)

ClerkStep(c) ==
    \/ Refresh(c) \/ HandleCommitted(c) \/ TryAgain(c)
    \/ \E s \in Server : HandleAnswered(c, s) \/ HandleStart(c, s)

Source == Group \cup {0}

Next ==
    \/ Publish
    \/ \E s \in Server :
          \/ Elect(s) \/ StepDown(s) \/ Replicate(s) \/ InstallSnapshot(s) \/ Restart(s)
          \/ PollStep(s)
          \/ \E src \in Source : \/ PartStep(s, src)
                                \/ \E t \in Server : DeleteLate(s, src, t)
    \/ \E c \in Clerk : \/ Invoke(c) \/ ClerkStep(c)
                        \/ \E s \in Server : SendLate(c, s)
    \/ \E r \in late : HandleLate(r)

Spec == Init /\ [][Next]_vars

(* Goroutines run; Raft elects a leader for a group that has none and      *)
(* commits what it takes in.  Nobody has to make a configuration or a call,*)
(* and neither loss nor delay is ever due.                                 *)
Work(s) ==
    \/ leader[GroupOf[s]] = NoServer /\ Elect(s)
    \/ StepDown(s) \/ Replicate(s) \/ PollStep(s)
    \/ \E src \in Source : PartStep(s, src)

FairSpec ==
    /\ Spec
    /\ \A s \in Server : WF_vars(Work(s))
    /\ \A c \in Clerk : WF_vars(ClerkStep(c))

-----------------------------------------------------------------------------
(* Properties *)

(* What the writes on all groups together make of the store. *)
Ideal(n) ==
    LET after[i \in 0..n] ==
            IF i = 0 THEN NewKV.mp ELSE After(after[i - 1], executed[i])
    IN  after[n]

(* At most one group serves a shard. *)
OneServes ==
    \A sh \in Shard, g, h \in Group :
        tip[g].shardVec[sh] /\ tip[h].shardVec[sh] => g = h

(* Who serves a shard has all that was ever written to it, by whichever    *)
(* group: a hand-over loses nothing and brings nothing back.               *)
NothingLost ==
    \A g \in Group, k \in Key :
        tip[g].shardVec[Key2Shard[k]] => tip[g].mp[k] = Ideal(Len(executed))[k]

(* A write takes effect once, on whatever groups its repetitions land, and *)
(* the writes of a clerk take effect in the order of its calls.            *)
ExactlyOnce ==
    \A i, j \in DOMAIN executed :
        i < j /\ executed[i].ck = executed[j].ck => executed[i].req < executed[j].req

(* A write that returned has taken effect. *)
Returned(c) == IF call[c] = Idle THEN called[c] ELSE called[c] - 1

AllWritten ==
    \A c \in Clerk : \A r \in 1..Returned(c) :
        Script[c][r].type # "Get" =>
            \E i \in DOMAIN executed : executed[i].ck = c /\ executed[i].req = r

(* A read returns what its key held at a moment of the call. *)
ReadsFresh ==
    \A c \in Clerk : got[c].key \in Key =>
        \E n \in got[c].from..got[c].to : got[c].value = Ideal(n)[got[c].key]

(* Every group comes to adopt every configuration. *)
Follows ==
    \A n \in DOMAIN Configs :
        published >= n ~> \A g \in Group : tip[g].config >= n

(* Once there is a configuration, every call returns, wherever its shard   *)
(* is meanwhile.                                                           *)
Returns == \A c \in Clerk : (call[c] # Idle /\ published > 0) ~> call[c] = Idle

=============================================================================
