------------------------------- MODULE KVRaft -------------------------------
(***************************************************************************)
(* The replicated key/value service (kvraft/server.go, kvraft/client.go)   *)
(* on a replicated log.                                                    *)
(*                                                                         *)
(* The log is the abstract one of module ReplicatedLog, which delivers     *)
(* entries and snapshots in order; module Raft has the protocol behind it. *)
(*                                                                         *)
(* A clerk tries the servers in turn (here: in any order) until one says   *)
(* OK.  That a Call fails says nothing about what the server did.          *)
(***************************************************************************)
EXTENDS KVModel, ReplicatedLog, FiniteSets

CONSTANTS
    Clerk, Key,
    Script,        \* what each clerk calls, in this order
    MaxStarts,     \* bound: calls of Start
    MaxElections,  \* bound: changes of leader
    MaxCrashes,    \* bound: restarts of a server
    MaxLate,       \* bound: requests handled after their Call has failed
    SnapshotAt     \* indices at which the log may have grown large enough

ASSUME KVRaftAssumption ==
    /\ MaxStarts \in Nat /\ MaxElections \in Nat /\ MaxCrashes \in Nat
    /\ MaxLate \in Nat /\ SnapshotAt \subseteq Nat

VARIABLES
    \* servers
    mp, ckSessions, logRecord, lastApplied,
    snapshot,      \* what the persister has
    installing,    \* the servers to whose service their snapshot is on its way
    \* clerks
    call,          \* the state of the current call
    called,        \* reqNum - 1: operations called
    late,          \* requests in flight whose Call has failed
    \* history and bounds
    since,         \* clerk -> how much was chosen when the operation was called
    got,           \* clerk -> the last read: its value, and what was chosen
                   \*          when it was called and when it returned
    number, elections, crashes

kvVars == <<mp, ckSessions, logRecord, lastApplied, snapshot, installing>>
clerkVars == <<call, called, late>>
bounds == <<number, elections, crashes>>
vars == <<rlog, chosen, leader, believes, mp, ckSessions, logRecord, lastApplied,
          snapshot, installing, call, called, late, since, got, number, elections, crashes>>

NewStore == [k \in Key |-> Empty]
NoSession == [valid |-> FALSE, req |-> 0, number |-> 0, index |-> 0]
NewSessions == [c \in Clerk |-> NoSession]
NoRecord == [i \in {} |-> 0]
NoSnapshot == [index |-> 0, mp |-> NewStore, ckSessions |-> NewSessions]
Idle == [at |-> "idle"]

(* StartKVServer on fresh persisters, MakeClerk *)
Init ==
    /\ LogInit
    /\ mp = [s \in Server |-> NewStore]
    /\ ckSessions = [s \in Server |-> NewSessions]
    /\ logRecord = [s \in Server |-> NoRecord]
    /\ lastApplied = [s \in Server |-> 0]
    /\ snapshot = [s \in Server |-> NoSnapshot] /\ installing = {}
    /\ call = [c \in Clerk |-> Idle]
    /\ called = [c \in Clerk |-> 0]
    /\ late = {}
    /\ since = [c \in Clerk |-> 0]
    /\ got = [c \in Clerk |-> [key |-> "none", value |-> Empty, from |-> 0, to |-> 0]]
    /\ number = 0 /\ elections = 0 /\ crashes = 0

-----------------------------------------------------------------------------
(* The replicated log *)

Elect(s) ==
    /\ elections < MaxElections
    /\ LogElect(s)
    /\ elections' = elections + 1
    /\ UNCHANGED <<kvVars, clerkVars, since, got, number, crashes>>

Replicate(l, s) ==
    LogReplicate(l, s) /\ UNCHANGED <<kvVars, clerkVars, since, got, bounds>>

Commit(l) ==
    LogCommit(l) /\ UNCHANGED <<kvVars, clerkVars, since, got, bounds>>

-----------------------------------------------------------------------------
(* The clerk *)

Current(c) == Script[c][called[c]]

Sent(s, op) == [at |-> "sent", server |-> s, op |-> op]

(* Clerk.Get, Clerk.PutAppend: the arguments keep the old reqNum.          *)
Invoke(c) ==
    /\ call[c] = Idle
    /\ called[c] < Len(Script[c])
    /\ called' = [called EXCEPT ![c] = @ + 1]
    /\ \E s \in Server :
         call' = [call EXCEPT ![c] =
                    Sent(s, [type |-> Script[c][called[c] + 1].type,
                             key |-> Script[c][called[c] + 1].key,
                             val |-> Script[c][called[c] + 1].val,
                             ck |-> c, req |-> called[c] + 1])]
    /\ since' = [since EXCEPT ![c] = Len(chosen)]
    /\ UNCHANGED <<raftVars, kvVars, late, got, bounds>>

(* The request or its reply is lost, or the reply says NotLeader,          *)
(* FailedToCommit or CommitTimeout: all the same to the loop.              *)
TryNext(c) ==
    /\ call[c] # Idle
    /\ \E s \in Server : call' = [call EXCEPT ![c] = Sent(s, call[c].op)]
    /\ UNCHANGED <<raftVars, kvVars, called, late, since, got, bounds>>

(* The Call fails although the request will still be handled: labrpc gives *)
(* up on a disconnected server while the handler waits for kv.mu.          *)
GiveUp(c) ==
    /\ Cardinality(late) < MaxLate
    /\ call[c].at = "sent"
    /\ late' = late \cup {call[c]}
    /\ \E s \in Server : call' = [call EXCEPT ![c] = Sent(s, call[c].op)]
    /\ UNCHANGED <<raftVars, kvVars, called, since, got, bounds>>

(* The reply is OK and arrives; server s has answered from its store.      *)
Return(c, s) ==
    /\ call' = [call EXCEPT ![c] = Idle]
    /\ got' = IF Current(c).type = "Get"
              THEN [got EXCEPT ![c] = [key |-> Current(c).key,
                                       value |-> mp[s][Current(c).key],
                                       from |-> since[c], to |-> Len(chosen)]]
              ELSE got

-----------------------------------------------------------------------------
(* The server *)

\* Mutant: a leader answers reads at once
AnsweredReads(s, op) == op.type = "Get" /\ s \in believes

(* handleNormalRPC: the clerk's last operation here was this one, and the  *)
(* record of its index still shows it.                                     *)
Answered(s, op) ==
    LET session == ckSessions[s][op.ck]
    IN  /\ session.valid /\ session.req = op.req
        /\ session.index \in DOMAIN logRecord[s]
        /\ logRecord[s][session.index] = session.number

HandleAnswered(c) ==
    /\ call[c].at = "sent"
    /\ Answered(call[c].server, call[c].op)
    /\ Return(c, call[c].server)
    /\ UNCHANGED <<raftVars, kvVars, called, late, since, bounds>>

(* Otherwise Start, if this server takes itself for the leader.            *)
Starts(s, op) ==
    /\ ~Answered(s, op)
    /\ number < MaxStarts
    /\ number' = number + 1
    /\ LogStart(s, [op |-> op, number |-> number + 1])

HandleStart(c) ==
    /\ call[c].at = "sent"
    /\ Starts(call[c].server, call[c].op)
    /\ call' = [call EXCEPT ![c] = [at |-> "waiting", server |-> call[c].server,
                                    op |-> call[c].op, number |-> number',
                                    index |-> NextIndex(call[c].server)]]
    /\ UNCHANGED <<kvVars, called, late, since, got, elections, crashes>>

(* A late request is handled like any other; nobody reads the reply.       *)
HandleLate(r) ==
    /\ r \in late
    /\ Starts(r.server, r.op)
    /\ late' = late \ {r}
    /\ UNCHANGED <<kvVars, call, called, since, got, elections, crashes>>

\* Mutant: whatever was committed at the index
CommittedAny(c, s) ==
    /\ call[c].index <= lastApplied[s]
    /\ call[c].index \in DOMAIN logRecord[s]

(* waittingForCommit: the operation itself was committed at its index.     *)
Committed(c, s) ==
    /\ call[c].index <= lastApplied[s]
    /\ call[c].index \in DOMAIN logRecord[s]
    /\ logRecord[s][call[c].index] = call[c].number

HandleCommitted(c) ==
    /\ call[c].at = "waiting"
    /\ Committed(c, call[c].server)
    /\ Return(c, call[c].server)
    /\ UNCHANGED <<raftVars, kvVars, called, late, since, bounds>>

(* handleApplyMsg: an operation of this clerk that is not newer than the   *)
(* last one does not change the store,                                     *)
Stale(session, entry, i) ==
    session.valid /\ session.index < i /\ entry.op.req <= session.req

\* Mutant: the index before
SessionBefore(entry, i) ==
    [valid |-> TRUE, req |-> entry.op.req, number |-> entry.number, index |-> i - 1]

NewSession(entry, i) ==
    [valid |-> TRUE, req |-> entry.op.req, number |-> entry.number, index |-> i]

(* but becomes the last operation of the session in either case.  The      *)
(* entries applyCh had in hand when a snapshot was installed are applied   *)
(* before it (module RaftApply): here, before InstallSnapshot.             *)
Apply(s) ==
    LET i == lastApplied[s] + 1
        entry == chosen[i]
        stale == Stale(ckSessions[s][entry.op.ck], entry, i)
    IN  /\ Delivers(s, i)
        /\ s \notin installing
        /\ logRecord' = [logRecord EXCEPT ![s] =
                           [j \in DOMAIN @ \cup {i} |->
                              IF j = i THEN entry.number ELSE @[j]]]
        /\ lastApplied' = [lastApplied EXCEPT ![s] = i]
        /\ ckSessions' = [ckSessions EXCEPT ![s][entry.op.ck] = NewSession(entry, i)]
        /\ mp' = IF stale THEN mp ELSE [mp EXCEPT ![s] = After(@, entry.op)]
        /\ \/ UNCHANGED snapshot
           \/ /\ ~stale /\ i \in SnapshotAt
              /\ snapshot' = [snapshot EXCEPT ![s] =
                    [index |-> i, mp |-> mp'[s], ckSessions |-> ckSessions'[s]]]
        /\ UNCHANGED <<raftVars, installing, clerkVars, since, got, bounds>>

(* InstallSnapshot of Raft: the leader no longer has what s lacks, or so   *)
(* it thought when it sent the request.  Only the snapshots are compared:  *)
(* the service of s may have applied more than is in the one it gets.      *)
InstallSnapshot(l, s) ==
    /\ LogInstall(l, s, snapshot[l].index)
    /\ snapshot[l].index > snapshot[s].index
    /\ snapshot' = [snapshot EXCEPT ![s] = snapshot[l]]
    /\ installing' = installing \cup {s}
    /\ UNCHANGED <<mp, ckSessions, logRecord, lastApplied, clerkVars, since, got, bounds>>

\* Mutant: the session of the snapshot is not restored
ForgetSessions(snap) == NewSessions

RestoredSessions(snap) == snap.ckSessions

(* handleApplyMsg: a snapshot, from the leader or after a restart.  The    *)
(* service goes back to it if need be; logRecord keeps what it has.        *)
ApplySnapshot(s) ==
    /\ s \in installing
    /\ installing' = installing \ {s}
    /\ mp' = [mp EXCEPT ![s] = snapshot[s].mp]
    /\ ckSessions' = [ckSessions EXCEPT ![s] = RestoredSessions(snapshot[s])]
    /\ lastApplied' = [lastApplied EXCEPT ![s] = snapshot[s].index]
    /\ UNCHANGED <<raftVars, logRecord, snapshot, clerkVars, since, got, bounds>>

(* The server dies with its handlers and is started again with what the    *)
(* persister has, a snapshot first of all; the clerks' Calls fail.         *)
Restart(s) ==
    /\ crashes < MaxCrashes
    /\ crashes' = crashes + 1
    /\ mp' = [mp EXCEPT ![s] = NewStore]
    /\ ckSessions' = [ckSessions EXCEPT ![s] = NewSessions]
    /\ logRecord' = [logRecord EXCEPT ![s] = NoRecord]
    /\ lastApplied' = [lastApplied EXCEPT ![s] = 0]
    /\ installing' = {t \in installing \cup {s} : t = s => snapshot[s].index > 0}
    /\ LogRestart(s)
    /\ call' = [c \in Clerk |->
                  IF call[c] # Idle /\ call[c].server = s
                  THEN Sent(s, call[c].op) ELSE call[c]]
    /\ late' = {r \in late : r.server # s}
    /\ UNCHANGED <<snapshot, called, since, got, number, elections>>

Next ==
    \/ \E s \in Server : Elect(s) \/ Commit(s) \/ Apply(s) \/ ApplySnapshot(s) \/ Restart(s)
    \/ \E l, s \in Server : Replicate(l, s) \/ InstallSnapshot(l, s)
    \/ \E c \in Clerk : \/ Invoke(c) \/ TryNext(c) \/ GiveUp(c)
                        \/ HandleAnswered(c) \/ HandleStart(c) \/ HandleCommitted(c)
    \/ \E r \in late : HandleLate(r)

Spec == Init /\ [][Next]_vars

-----------------------------------------------------------------------------
(* Properties *)

Is(entry, c, r) == entry.op.ck = c /\ entry.op.req = r

(* What each operation should do to the store: the first entry of every    *)
(* operation counts.                                                       *)
IsFirst(log, i) == \A j \in 1..(i - 1) : ~Is(log[j], log[i].op.ck, log[i].op.req)

(* The store after the first n entries of a log, for every n.              *)
Ideal(log) ==
    LET store[n \in 0..Len(log)] ==
            IF n = 0 THEN NewStore
            ELSE IF IsFirst(log, n) THEN After(store[n - 1], log[n].op)
            ELSE store[n - 1]
    IN  store

(* The store of every server, live or in a snapshot, is what the chosen    *)
(* operations make of it when each takes effect once, however often the    *)
(* clerks sent it, Start was called for it, and it was committed.          *)
ExactlyOnce ==
    \A s \in Server :
        /\ mp[s] = Ideal(chosen)[lastApplied[s]]
        /\ snapshot[s].mp = Ideal(chosen)[snapshot[s].index]

Returned(c) == IF call[c] = Idle THEN called[c] ELSE called[c] - 1

(* What a clerk was told is done is chosen, and its operations take effect *)
(* in the order it called them: before an operation comes every earlier    *)
(* one of the clerk.                                                       *)
InProgramOrder ==
    \A c \in Clerk :
        /\ \A r \in 1..Returned(c) : \E i \in 1..Len(chosen) : Is(chosen[i], c, r)
        /\ \A i \in 1..Len(chosen) : chosen[i].op.ck = c =>
             \A r \in 1..(chosen[i].op.req - 1) : \E j \in 1..(i - 1) : Is(chosen[j], c, r)

(* A read returns what its key held at a moment of the call: whatever was  *)
(* chosen at the call is in it, whatever server answered.                  *)
ReadsFresh ==
    \A c \in Clerk : got[c].key \in Key =>
        \E n \in got[c].from..got[c].to :
            got[c].value = Ideal(chosen)[n][got[c].key]

(* Records and sessions speak of operations that are chosen, at the index  *)
(* they say; a session of one the store contains, while a record may be of *)
(* one the service has gone back behind.  A service that has got its       *)
(* snapshot is never behind it.                                            *)
TypeOK ==
    /\ \A s \in Server :
         /\ lastApplied[s] \in 0..Len(chosen)
         /\ s \notin installing => snapshot[s].index <= lastApplied[s]
         /\ DOMAIN logRecord[s] \subseteq 1..Len(chosen)
         /\ \A i \in DOMAIN logRecord[s] : logRecord[s][i] = chosen[i].number
         /\ \A c \in Clerk : ckSessions[s][c].valid =>
              /\ ckSessions[s][c].index \in 1..lastApplied[s]
              /\ chosen[ckSessions[s][c].index].op.ck = c
              /\ chosen[ckSessions[s][c].index].op.req = ckSessions[s][c].req
    /\ \A s \in leader : IsPrefix(chosen, rlog[s])
    /\ \A c \in Clerk : call[c] = Idle \/ call[c].op.req = called[c]

=============================================================================
