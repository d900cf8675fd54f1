------------------------------- MODULE Raft --------------------------------
(***************************************************************************)
(* The Raft peers of raft.go: elections, log replication, commitment,      *)
(* application, snapshots, crashes and restarts, over a network that may   *)
(* lose, duplicate, delay and reorder every request and every reply.       *)
(*                                                                         *)
(* Every action is one critical section of rf.mu.  Every critical section  *)
(* that changes persistent state calls persist() before it unlocks, so the *)
(* persister always holds the current values of the persistent variables:  *)
(* a crash keeps them and resets the others.  The one exception is the end *)
(* of election(), which persists twice; see CrashMidWin.                   *)
(*                                                                         *)
(* Messages are kept in sets that only grow.  A message that is never      *)
(* handled is lost; one handled twice is a retry (every RPC is retried up  *)
(* to MAX_RETRY_TIMES times and re-sent at every heartbeat).               *)
(***************************************************************************)
EXTENDS RaftLog

CONSTANTS
    Server,      \* the peers
    Nil,         \* votedFor == nil
    Submits,     \* bound: what each peer's service passes to Start(), once each
    Races,       \* the unlocked windows of the code that the scheduler may hit
    Bids,        \* bound: the <<peer, term>> pairs for which a ticker may fire
    MaxLog,      \* bound: no log grows beyond this global length
    MaxCrashes,  \* bound: crashes, per peer
    MaxAppends,  \* bound: different AppendEntries requests sent by the session of a term
    MaxSnapshot  \* bound: the highest external index to snapshot at, per peer

(***************************************************************************)
(* Four windows in the code are narrow.  A run says which of them the      *)
(* scheduler may hit:                                                      *)
(*  stalePoll  election() reads its ballots and its cancel token before it *)
(*             takes rf.mu, and does not look at the token or the term     *)
(*             again when it has it (raft.go:755-762);                     *)
(*  lateSync   syncEntries() runs in a goroutine of its own and sends      *)
(*             rf.currentTerm without checking that the peer still leads   *)
(*             (raft.go:847-876);                                          *)
(*  lateReply  a reply is handled if the cancel token of the session that  *)
(*             sent the request is not set yet, whatever the peer has      *)
(*             become since (raft.go:892-906);                             *)
(*  midWin     a crash between the two persist() calls of a new leader     *)
(*             (raft.go:764, 786).                                         *)
(* A cancel token only forbids later steps, and no step of this            *)
(* specification is ever forced.  Setting a token is therefore not an      *)
(* action: an election or a session may be idle from any moment on, and    *)
(* "cancelled at once" is the run without the window.                      *)
(***************************************************************************)
ASSUME RacesAssumption == Races \subseteq {"stalePoll", "lateSync", "lateReply", "midWin"}
ASSUME ServerAssumption == IsFiniteSet(Server) /\ Nil \notin Server
ASSUME SubmitsAssumption == Submits \in [Server -> SUBSET Commands]
ASSUME BoundsAssumption == /\ Bids \subseteq Server \X Nat /\ MaxLog \in Nat
                           /\ MaxCrashes \in [Server -> Nat] /\ MaxAppends \in Seq(Nat)
                           /\ MaxSnapshot \in [Server -> Nat]

VARIABLES
    \* persistent
    state, currentTerm, votedFor, log, snapshotIndex,
    \* volatile
    commitIndex, lastApplied, nextIndex, matchIndex,
    \* goroutines: the ticker's election, an election past its checks, and
    \* the terms of the serveAsLeader sessions started
    campaign, armed, live,
    \* which incarnation of the peer is running
    crashes,
    \* the network
    voteReqs, voteReps, appendReqs, appendAcks, appendNacks, snapReqs, snapReps,
    \* history: every <<external index, command>> handed to a service
    applied

persistent == <<state, currentTerm, votedFor, log, snapshotIndex>>
leaderVars == <<nextIndex, matchIndex>>
goroutines == <<campaign, armed, live>>
votes == <<voteReqs, voteReps>>
appends == <<appendReqs, appendAcks, appendNacks>>
snaps == <<snapReqs, snapReps>>
network == <<votes, appends, snaps>>
vars == <<persistent, commitIndex, lastApplied, leaderVars, goroutines, crashes,
          network, applied>>

(***************************************************************************)
(* Types.                                                                  *)
(***************************************************************************)
VoteReq == [from : Server, term : Nat, lastLogIndex : Nat, lastLogTerm : Nat]
VoteRep == [from : Server, to : Server, term : Nat]    \* VoteGranted = true

\* A reply is handled by the goroutine that sent the request: the sender's
\* incarnation and the leader session whose cancel token it tests travel along.
AppendReq == [from : Server, to : Server, inc : Nat, session : Nat, term : Nat,
              prev : Nat, prevTerm : Nat, entries : Seq(Entry), commit : Nat]
AppendAck == [from : Server, to : Server, inc : Nat, session : Nat, next : Nat]
AppendNack == [from : Server, to : Server, inc : Nat, session : Nat,
               prev : Nat, prevTerm : Nat,
               term : Nat, lastIndex : Nat, lastTerm : Nat, lastApplied : Nat]

SnapReq == [from : Server, to : Server, inc : Nat, session : Nat, term : Nat,
            lastInternal : Nat, lastExternal : Nat, lastTerm : Nat]
SnapRep == [from : Server, to : Server, inc : Nat, session : Nat, term : Nat,
            lastExternal : Nat]

Campaign == [pc : {"idle", "spawned", "polling"}, term : Nat]

(* Every variable has the Go type the code gives it: in particular a log   *)
(* never becomes empty (raft.go indexes rf.log[0] and rf.log[len-1]        *)
(* without a check) and no index goes negative.                            *)
TypeOK ==
    /\ state \in [Server -> {"Follower", "Candidate", "Leader"}]
    /\ currentTerm \in [Server -> Nat]
    /\ votedFor \in [Server -> Server \cup {Nil}]
    /\ log \in [Server -> Log]
    /\ snapshotIndex \in [Server -> Nat]
    /\ commitIndex \in [Server -> Nat]
    /\ lastApplied \in [Server -> Nat]
    /\ nextIndex \in [Server -> [Server -> Nat]]
    /\ matchIndex \in [Server -> [Server -> Nat]]
    /\ campaign \in [Server -> Campaign]
    /\ armed \in [Server -> BOOLEAN]
    /\ live \in [Server -> SUBSET Nat]
    /\ crashes \in [Server -> Nat]
    /\ voteReqs \subseteq VoteReq
    /\ voteReps \subseteq VoteRep
    /\ appendReqs \subseteq AppendReq
    /\ appendAcks \subseteq AppendAck
    /\ appendNacks \subseteq AppendNack
    /\ snapReqs \subseteq SnapReq
    /\ snapReps \subseteq SnapRep
    /\ applied \subseteq Nat \X Commands

AnyOne(Q) == Q \subseteq Server /\ Cardinality(Q) >= Cardinality(Server) \div 2   \* mutant of Majority

Majority(Q) == Q \subseteq Server /\ Cardinality(Q) > Cardinality(Server) \div 2

Idle == [pc |-> "idle", term |-> 0]

(* The sender of a request still takes its reply: same incarnation, and    *)
(* the session that sent the request is not over.                          *)
Awaits(s, r) ==
    /\ r.to = s
    /\ r.inc = crashes[s]
    /\ r.session \in live[s]
    /\ "lateReply" \in Races \/ (state[s] = "Leader" /\ currentTerm[s] = r.session)

(***************************************************************************)
(* Make() on a fresh persister.  lastApplied starts at 1: the code treats  *)
(* the first leader's no-op as applied.                                    *)
(***************************************************************************)
Init ==
    /\ state = [s \in Server |-> "Follower"]
    /\ currentTerm = [s \in Server |-> 1]
    /\ votedFor = [s \in Server |-> Nil]
    /\ log = [s \in Server |-> <<NoopEntry(0, 1)>>]
    /\ snapshotIndex = [s \in Server |-> 0]
    /\ commitIndex = [s \in Server |-> 0]
    /\ lastApplied = [s \in Server |-> 1]
    /\ nextIndex = [s \in Server |-> [p \in Server |-> 1]]
    /\ matchIndex = [s \in Server |-> [p \in Server |-> 0]]
    /\ campaign = [s \in Server |-> Idle]
    /\ armed = [s \in Server |-> FALSE]
    /\ live = [s \in Server |-> {}]
    /\ crashes = [s \in Server |-> 0]
    /\ voteReqs = {} /\ voteReps = {}
    /\ appendReqs = {} /\ appendAcks = {} /\ appendNacks = {}
    /\ snapReqs = {} /\ snapReps = {}
    /\ applied = {}

(***************************************************************************)
(* Elections.                                                              *)
(***************************************************************************)

(* The election timer expires: the ticker becomes a candidate and spawns   *)
(* election(); it cancels the election it started before.                  *)
TickerFire(s) ==
    /\ state[s] # "Leader"
    /\ campaign[s].pc # "spawned"
    /\ <<s, currentTerm[s] + 1>> \in Bids
    /\ state' = [state EXCEPT ![s] = "Candidate"]
    /\ campaign' = [campaign EXCEPT ![s] = [pc |-> "spawned", term |-> 0]]
    /\ UNCHANGED <<currentTerm, votedFor, log, snapshotIndex, commitIndex, lastApplied,
                   leaderVars, armed, live, crashes, network, applied>>

(* election() up to its polling loop.  It does not look at the state: it   *)
(* takes the next term even if the peer has voted or has heard of a leader *)
(* since the ticker fired.  (An election cancelled before it starts is one *)
(* whose requests are all lost.)                                           *)
Election(s) ==
    /\ campaign[s].pc = "spawned"
    /\ votedFor' = [votedFor EXCEPT ![s] = s]
    /\ currentTerm' = [currentTerm EXCEPT ![s] = @ + 1]
    /\ voteReqs' = voteReqs \cup
           {[from |-> s, term |-> currentTerm[s] + 1,
             lastLogIndex |-> GlobalLogLen(log[s]), lastLogTerm |-> LastTerm(log[s])]}
    /\ campaign' = [campaign EXCEPT ![s] = [pc |-> "polling", term |-> currentTerm[s] + 1]]
    /\ UNCHANGED <<state, log, snapshotIndex, commitIndex, lastApplied, leaderVars,
                   armed, live, crashes, voteReps, appends, snaps, applied>>

ForgetVote(s, t) == IF t >= currentTerm[s] THEN Nil ELSE votedFor[s]   \* mutant of VotedIn

(* What is left of a peer's vote when it hears of term t.                  *)
VotedIn(s, t) == IF t > currentTerm[s] THEN Nil ELSE votedFor[s]

(* The handler.  A refusal can only make the candidate cancel, so granted  *)
(* votes alone are recorded.                                               *)
RequestVote(s, m) ==
    LET grant == /\ IsUpToDate(log[s], m.lastLogIndex, m.lastLogTerm)
                 /\ VotedIn(s, m.term) \in {Nil, m.from}
    IN  /\ m.from # s
        /\ m.term > currentTerm[s] \/ (m.term = currentTerm[s] /\ grant)
        /\ currentTerm' = [currentTerm EXCEPT ![s] = m.term]
        /\ state' = [state EXCEPT ![s] = "Follower"]
        /\ votedFor' = [votedFor EXCEPT ![s] = IF grant THEN m.from ELSE VotedIn(s, m.term)]
        /\ voteReps' = IF grant
                       THEN voteReps \cup {[from |-> s, to |-> m.from, term |-> m.term]}
                       ELSE voteReps
        /\ UNCHANGED <<log, snapshotIndex, commitIndex, lastApplied, leaderVars, goroutines,
                       crashes, voteReqs, appends, snaps, applied>>

(* The ballots election() of term t may have counted by now.               *)
Ballots(s, t) == {s} \cup {r.from : r \in {q \in voteReps : q.to = s /\ q.term = t}}

(* A new leader: reinitialise the leader state, append a no-op of the      *)
(* current term (not of the term campaigned for), start a session.         *)
BecomeLeader(s) ==
    LET len == GlobalLogLen(log[s])
    IN  /\ state' = [state EXCEPT ![s] = "Leader"]
        /\ log' = [log EXCEPT ![s] = Append(@, NoopEntry(len, currentTerm[s]))]
        /\ nextIndex' = [nextIndex EXCEPT ![s] =
                            [p \in Server |-> IF p = s THEN len + 1 ELSE len]]
        /\ matchIndex' = [matchIndex EXCEPT ![s] =
                            [p \in Server |-> IF p = s THEN len ELSE 0]]
        /\ live' = [live EXCEPT ![s] = @ \cup {currentTerm[s]}]

(* The poll finds a majority and the peer still a candidate.               *)
ElectionWin(s) ==
    /\ campaign[s].pc = "polling"
    /\ ~armed[s]
    /\ Majority(Ballots(s, campaign[s].term))
    /\ state[s] = "Candidate"
    /\ GlobalLogLen(log[s]) < MaxLog
    /\ BecomeLeader(s)
    /\ campaign' = [campaign EXCEPT ![s] = Idle]
    /\ UNCHANGED <<currentTerm, votedFor, snapshotIndex, commitIndex, lastApplied, armed,
                   crashes, network, applied>>

(* stalePoll: the poll has seen a majority and a clear token and is about  *)
(* to lock rf.mu; the peer may campaign again ...                          *)
PollArmed(s) ==
    /\ "stalePoll" \in Races
    /\ campaign[s].pc = "polling"
    /\ Majority(Ballots(s, campaign[s].term))
    /\ ~armed[s]
    /\ armed' = [armed EXCEPT ![s] = TRUE]
    /\ campaign' = [campaign EXCEPT ![s] = Idle]
    /\ UNCHANGED <<persistent, commitIndex, lastApplied, leaderVars, live,
                   crashes, network, applied>>

(* ... and gets it later, when only the state is tested.                   *)
ArmedWin(s) ==
    /\ armed[s]
    /\ armed' = [armed EXCEPT ![s] = FALSE]
    /\ IF state[s] = "Candidate"
       THEN GlobalLogLen(log[s]) < MaxLog /\ BecomeLeader(s)
       ELSE UNCHANGED <<state, log, leaderVars, live>>
    /\ UNCHANGED <<currentTerm, votedFor, snapshotIndex, commitIndex, lastApplied, campaign,
                   crashes, network, applied>>

(***************************************************************************)
(* A leader's session.                                                     *)
(***************************************************************************)

(* syncEntries of the session of term t: one AppendEntries to every peer,  *)
(* in the peer's current term.  serveAsLeader has checked that the peer    *)
(* leads in term t; in the lateSync window that may no longer hold.        *)
SyncEntries(s, t) ==
    /\ t \in live[s]
    /\ "lateSync" \in Races \/ (state[s] = "Leader" /\ currentTerm[s] = t)
    /\ appendReqs' = appendReqs \cup
           {LET a == AppendArgs(log[s], nextIndex[s][p])
            IN  [from |-> s, to |-> p, inc |-> crashes[s], session |-> t,
                 term |-> currentTerm[s], prev |-> a.prev, prevTerm |-> a.prevTerm,
                 entries |-> a.entries, commit |-> commitIndex[s]] : p \in Server \ {s}}
    /\ Cardinality({m \in appendReqs' : m.session = t}) <= MaxAppends[t]
    /\ UNCHANGED <<persistent, commitIndex, lastApplied, leaderVars, goroutines, crashes,
                   votes, appendAcks, appendNacks, snaps, applied>>

(* Start(): a leader appends a command; the others refuse.                 *)
Start(s, c) ==
    LET len == GlobalLogLen(log[s])
    IN  /\ state[s] = "Leader"
        /\ len < MaxLog
        /\ \A i \in 1..Len(log[s]) : log[s][i].cmd # c
        /\ log' = [log EXCEPT ![s] =
                      Append(@, [term |-> currentTerm[s], index |-> len, cmd |-> c])]
        /\ nextIndex' = [nextIndex EXCEPT ![s][s] = len + 1]
        /\ matchIndex' = [matchIndex EXCEPT ![s][s] = len]
        /\ UNCHANGED <<state, currentTerm, votedFor, snapshotIndex, commitIndex, lastApplied,
                       goroutines, crashes, network, applied>>

(***************************************************************************)
(* The AppendEntries handler.                                              *)
(***************************************************************************)
Nack(m, term, lastIndex, lastTerm, la) ==
    [from |-> m.to, to |-> m.from, inc |-> m.inc, session |-> m.session,
     prev |-> m.prev, prevTerm |-> m.prevTerm,
     term |-> term, lastIndex |-> lastIndex, lastTerm |-> lastTerm, lastApplied |-> la]

(* A request of an old term is refused; the reply's other fields stay 0.   *)
AppendRefuse(s, m) ==
    /\ m.to = s
    /\ m.term < currentTerm[s]
    /\ appendNacks' = appendNacks \cup {Nack(m, currentTerm[s], 0, 0, 0)}
    /\ UNCHANGED <<persistent, commitIndex, lastApplied, leaderVars, goroutines, crashes,
                   votes, appendReqs, appendAcks, snaps, applied>>

(* Otherwise the sender is the leader: follow it, take its entries if they *)
(* attach to the end of the log or start right after lastApplied ("fix     *)
(* package"), and adopt its commit index unless nothing was taken.         *)
AppendEntries(s, m) ==
    LET l == log[s]
        la == lastApplied[s]
        prefix == FixPackage(l, la, m) /\ PrefixEntries(l, la, m)
    IN  /\ m.to = s
        /\ m.term >= currentTerm[s]
        /\ currentTerm' = [currentTerm EXCEPT ![s] = m.term]
        /\ votedFor' = [votedFor EXCEPT ![s] = VotedIn(s, m.term)]
        /\ state' = [state EXCEPT ![s] = "Follower"]
        /\ log' = [log EXCEPT ![s] = Appended(l, la, m)]
        /\ commitIndex' = [commitIndex EXCEPT ![s] =
                              IF BadCase(l, la, m) \/ prefix THEN @ ELSE m.commit]
        /\ IF BadCase(l, la, m)
           THEN /\ appendNacks' = appendNacks \cup
                       {Nack(m, m.term, LastIndex(l), LastTerm(l), la)}
                /\ UNCHANGED appendAcks
           ELSE /\ appendAcks' = appendAcks \cup
                       {[from |-> s, to |-> m.from, inc |-> m.inc, session |-> m.session,
                         next |-> NewNextIndex(m)]}
                /\ UNCHANGED appendNacks
        /\ UNCHANGED <<snapshotIndex, lastApplied, leaderVars, goroutines, crashes,
                       votes, appendReqs, snaps, applied>>

(***************************************************************************)
(* The replies, handled by the goroutine that sent the request.            *)
(***************************************************************************)
AppendSuccess(s, r) ==
    /\ Awaits(s, r)
    /\ nextIndex' = [nextIndex EXCEPT ![s][r.from] = r.next]
    /\ matchIndex' = [matchIndex EXCEPT ![s][r.from] = IF @ <= r.next - 1 THEN r.next - 1 ELSE @]
    /\ UNCHANGED <<persistent, commitIndex, lastApplied, goroutines, crashes, network, applied>>

(* handleFailedReply.  Case 0, a reply from a higher term, cancels the     *)
(* session; cases 1-4 back up nextIndex.                                   *)
BackUp(s, r) ==
    /\ Awaits(s, r)
    /\ currentTerm[s] >= r.term
    /\ \/ /\ Case12(log[s], r, r)
          /\ nextIndex' = [nextIndex EXCEPT ![s][r.from] = r.lastIndex + 1]
       \/ /\ Case34(log[s], r, r)
          /\ nextIndex' = [nextIndex EXCEPT ![s][r.from] = r.lastApplied + 1]
    /\ UNCHANGED <<persistent, commitIndex, lastApplied, matchIndex, goroutines, crashes,
                   network, applied>>

(* handleFailedReply, case 5: what the follower needs is only in the       *)
(* snapshot.                                                               *)
SendSnapshot(s, r) ==
    /\ Awaits(s, r)
    /\ currentTerm[s] >= r.term
    /\ Case5(log[s], r, r)
    /\ snapReqs' = snapReqs \cup
           {[from |-> s, to |-> r.from, inc |-> r.inc, session |-> r.session,
             term |-> currentTerm[s], lastInternal |-> log[s][1].index,
             lastExternal |-> snapshotIndex[s], lastTerm |-> log[s][1].term]}
    /\ UNCHANGED <<persistent, commitIndex, lastApplied, leaderVars, goroutines, crashes,
                   votes, appends, snapReps, applied>>

(* After InstallSnapshot returned: nextIndex takes the external index,     *)
(* which RealNextIndex clamps.                                             *)
SnapshotSent(s, r) ==
    /\ Awaits(s, r)
    /\ currentTerm[s] >= r.term
    /\ nextIndex' = [nextIndex EXCEPT ![s][r.from] = r.lastExternal + 1]
    /\ UNCHANGED <<persistent, commitIndex, lastApplied, matchIndex, goroutines, crashes,
                   network, applied>>

(***************************************************************************)
(* Commitment and application.                                             *)
(***************************************************************************)

(* The indices above commitIndex that commitCheck counts a majority for.   *)
(* Its loop stops at the first index without one, and is not entered when  *)
(* commitIndex is the end of the log; stale matchIndex values can take it  *)
(* one past the end.                                                       *)
Replicated(s) ==
    {n \in (commitIndex[s] + 1)..GlobalLogLen(log[s]) :
        Majority({p \in Server : matchIndex[s][p] >= n})}

(* One pass of commitCheck.  It tests neither the state nor the term, and  *)
(* a cancelled session may still take one more pass.                       *)
CommitCheck(s) ==
    /\ commitIndex[s] + 1 < GlobalLogLen(log[s])
    /\ \E n \in Replicated(s) :
          /\ \A k \in Replicated(s) : k <= n
          /\ \/ LocalIndex(log[s], n) < 0
             \/ InLog(log[s], n) /\ At(log[s], n).term = currentTerm[s]
          /\ commitIndex' = [commitIndex EXCEPT ![s] = n]
    /\ UNCHANGED <<persistent, lastApplied, leaderVars, goroutines, crashes, network, applied>>

(* The index up to which applyEntries gets in one round, and what it       *)
(* enqueues for the service.                                               *)
ApplyUpTo(s) ==
    IF commitIndex[s] < LastIndex(log[s]) THEN commitIndex[s] ELSE LastIndex(log[s])

ApplyEntries(s) ==
    /\ lastApplied[s] < ApplyUpTo(s)
    /\ LocalIndex(log[s], lastApplied[s] + 1) > 0
    /\ lastApplied' = [lastApplied EXCEPT ![s] = ApplyUpTo(s)]
    /\ applied' = applied \cup
           {<<ExternalIndex(log[s], snapshotIndex[s], i), At(log[s], i).cmd>> :
               i \in {j \in (lastApplied[s] + 1)..ApplyUpTo(s) : At(log[s], j).cmd # Noop}}
    /\ UNCHANGED <<persistent, commitIndex, leaderVars, goroutines, crashes, network>>

(***************************************************************************)
(* Snapshots.                                                              *)
(***************************************************************************)

(* The service snapshots at an external index it has been handed.          *)
Snapshot(s, e) ==
    LET g == InternalIndex(log[s], snapshotIndex[s], e)
    IN  /\ snapshotIndex[s] < e
        /\ e <= ExternalIndex(log[s], snapshotIndex[s], LastIndex(log[s]))
        /\ g <= lastApplied[s]
        /\ log' = [log EXCEPT ![s] = CutAt(@, g)]
        /\ snapshotIndex' = [snapshotIndex EXCEPT ![s] = e]
        /\ UNCHANGED <<state, currentTerm, votedFor, commitIndex, lastApplied, leaderVars,
                       goroutines, crashes, network, applied>>

(* The handler.  A request of an old term, or with a snapshot no newer     *)
(* than the peer's own, is only replied to.  Otherwise the log and the     *)
(* service are reset to the snapshot; the term is not updated.             *)
InstallSnapshot(s, m) ==
    LET install == m.term >= currentTerm[s] /\ m.lastExternal > snapshotIndex[s]
    IN  /\ m.to = s
        /\ snapReps' = snapReps \cup
               {[from |-> s, to |-> m.from, inc |-> m.inc, session |-> m.session,
                 term |-> currentTerm[s], lastExternal |-> m.lastExternal]}
        /\ IF install
           THEN /\ log' = [log EXCEPT ![s] = Installed(@, m.lastInternal, m.lastTerm)]
                /\ state' = [state EXCEPT ![s] = "Follower"]
                /\ snapshotIndex' = [snapshotIndex EXCEPT ![s] = m.lastExternal]
                /\ lastApplied' = [lastApplied EXCEPT ![s] = m.lastInternal]
                /\ commitIndex' = [commitIndex EXCEPT ![s] = m.lastInternal]
           ELSE UNCHANGED <<log, state, snapshotIndex, lastApplied, commitIndex>>
        /\ UNCHANGED <<currentTerm, votedFor, leaderVars, goroutines, crashes,
                       votes, appends, snapReqs, applied>>

(***************************************************************************)
(* Crashes.                                                                *)
(***************************************************************************)

(* Nothing was ever persisted (no campaign, no higher term heard of, no    *)
(* snapshot installed): Make() finds an empty persister.                   *)
NeverPersisted(s) == state[s] = "Follower" /\ currentTerm[s] = 1 /\ log[s][1].index = 0

LostLog(s) == <<NoopEntry(0, 1)>>   \* mutant of Recovered

(* The log readPersist() decodes is the one persist() encoded last.        *)
Recovered(s) == log[s]

(* Kill(), then Make() with what persist() saved.  A peer that was leader  *)
(* serves on as leader of its term, with matchIndex 0 everywhere.          *)
Reboot(s) ==
    /\ crashes[s] < MaxCrashes[s]
    /\ crashes' = [crashes EXCEPT ![s] = @ + 1]
    /\ log' = [log EXCEPT ![s] = Recovered(s)]
    /\ commitIndex' = [commitIndex EXCEPT ![s] = 0]
    /\ lastApplied' = [lastApplied EXCEPT ![s] =
                          IF NeverPersisted(s) THEN 1 ELSE log[s][1].index]
    /\ nextIndex' = [nextIndex EXCEPT ![s] = [p \in Server |-> GlobalLogLen(log[s])]]
    /\ matchIndex' = [matchIndex EXCEPT ![s] = [p \in Server |-> 0]]
    /\ campaign' = [campaign EXCEPT ![s] = Idle]
    /\ armed' = [armed EXCEPT ![s] = FALSE]
    /\ live' = [live EXCEPT ![s] = IF state'[s] = "Leader" THEN {currentTerm[s]} ELSE {}]
    /\ UNCHANGED <<currentTerm, votedFor, snapshotIndex, network, applied>>

Restart(s) == UNCHANGED state /\ Reboot(s)

(* midWin: the peer wins, persists state Leader, and crashes before it     *)
(* persists the no-op.                                                     *)
CrashMidWin(s) ==
    /\ "midWin" \in Races
    /\ campaign[s].pc = "polling"
    /\ Majority(Ballots(s, campaign[s].term))
    /\ state[s] = "Candidate"
    /\ state' = [state EXCEPT ![s] = "Leader"]
    /\ Reboot(s)

(***************************************************************************)
(* The specification.                                                      *)
(***************************************************************************)
Next ==
    \E s \in Server :
        \/ TickerFire(s)
        \/ Election(s)
        \/ \E m \in voteReqs : RequestVote(s, m)
        \/ ElectionWin(s)
        \/ PollArmed(s)
        \/ ArmedWin(s)
        \/ \E t \in live[s] : SyncEntries(s, t)
        \/ \E c \in Submits[s] : Start(s, c)
        \/ \E m \in appendReqs : AppendRefuse(s, m)
        \/ \E m \in appendReqs : AppendEntries(s, m)
        \/ \E r \in appendAcks : AppendSuccess(s, r)
        \/ \E r \in appendNacks : BackUp(s, r)
        \/ \E r \in appendNacks : SendSnapshot(s, r)
        \/ \E r \in snapReps : SnapshotSent(s, r)
        \/ CommitCheck(s)
        \/ ApplyEntries(s)
        \/ \E e \in 1..MaxSnapshot[s] : Snapshot(s, e)
        \/ \E m \in snapReqs : InstallSnapshot(s, m)
        \/ Restart(s)
        \/ CrashMidWin(s)

Spec == Init /\ [][Next]_vars

(***************************************************************************)
(* Properties.                                                             *)
(***************************************************************************)

(* No term has two leaders: the tester's checkOneLeader.                   *)
ElectionSafety ==
    \A s, p \in Server :
        state[s] = "Leader" /\ state[p] = "Leader" /\ currentTerm[s] = currentTerm[p] => s = p

(* No two servers ever hand different commands to their services at the    *)
(* same index: the tester's checkLogs.                                     *)
AppliedAgree ==
    \A a, b \in applied : a[1] = b[1] => a[2] = b[2]

(* The logs of s and p hold the same entry at global index i, as far as    *)
(* both still hold i.  Index 1 is left out: it always holds a no-op, which *)
(* a fresh server takes for applied whichever leader's it is.              *)
SameAt(s, p, i) ==
    \/ i <= 1
    \/ LocalIndex(log[s], i) < 0 \/ LocalIndex(log[p], i) < 0
    \/ /\ InLog(log[s], i) /\ InLog(log[p], i)
       /\ At(log[s], i).term = At(log[p], i).term

(* A leader's log holds every entry that a server of its term or of an     *)
(* earlier one considers committed.                                        *)
LeaderCompleteness ==
    \A s, p \in Server :
        state[s] = "Leader" /\ currentTerm[p] <= currentTerm[s] =>
            \A i \in 2..commitIndex[p] : i <= LastIndex(log[p]) => SameAt(s, p, i)

(* What a leader believes replicated (matchIndex, which decides what is    *)
(* committed) is in the log of every peer that follows it in its term.     *)
MatchIndexSound ==
    \A s, p \in Server :
        state[s] = "Leader" /\ currentTerm[p] = currentTerm[s] =>
            \A i \in 2..matchIndex[s][p] : SameAt(s, p, i)

(* The slice expressions of raft.go stay in range: through appends,        *)
(* truncations, snapshots and restarts the Index field of every entry is   *)
(* its global position (log[0].Index is what every index is computed from) *)
(* and lastApplied never lies before the start of the slice.               *)
IndicesSafe ==
    \A s \in Server : Indexed(log[s]) /\ lastApplied[s] >= log[s][1].index

(* IndicesSafe is inductive together with the same fact about entries that *)
(* are on their way.                                                       *)
IndexInv ==
    /\ IndicesSafe
    /\ \A m \in appendReqs : Consecutive(m.entries, m.prev + 1)

(* Why no term has two leaders, when a poll does not win in a term it did  *)
(* not poll in (no stalePoll).                                             *)

\* Who asks for votes in its current term has voted for itself.
RequestsBind ==
    \A m \in voteReqs :
        /\ m.term <= currentTerm[m.from]
        /\ m.term = currentTerm[m.from] => votedFor[m.from] = m.from

\* A vote given binds the voter for the term ...
VotesBind ==
    \A r \in voteReps :
        /\ r.term <= currentTerm[r.from]
        /\ r.term = currentTerm[r.from] => votedFor[r.from] = r.to

\* ... so that nobody votes for two candidates, or for another and itself.
VotesOnce ==
    /\ \A r, q \in voteReps : r.from = q.from /\ r.term = q.term => r.to = q.to
    /\ \A r \in voteReps, m \in voteReqs : r.from = m.from => r.term # m.term

\* A candidate that still polls is in the term it polls for.
PollsInTerm ==
    \A s \in Server :
        /\ campaign[s].pc = "polling" =>
               /\ \E m \in voteReqs : m.from = s /\ m.term = campaign[s].term
               /\ state[s] = "Candidate" => campaign[s].term = currentTerm[s]
        /\ campaign[s].pc = "spawned" => state[s] # "Leader"

\* A leader, restarted or not, has the votes of a majority in its term.
LeadersElected ==
    \A s \in Server :
        state[s] = "Leader" =>
            /\ \E m \in voteReqs : m.from = s /\ m.term = currentTerm[s]
            /\ Majority(Ballots(s, currentTerm[s]))

(* The inductive invariant behind ElectionSafety: votes bind, polls win    *)
(* only in the term they poll for, leaders are elected.                    *)
VoteInv ==
    /\ RequestsBind /\ VotesBind /\ VotesOnce /\ PollsInTerm /\ LeadersElected
    /\ \A s \in Server : ~armed[s]

(* Terms never go back, and within a term a vote once cast stays, across   *)
(* every message and every crash.                                          *)
VotesStable ==
    [][\A s \in Server :
          /\ currentTerm'[s] >= currentTerm[s]
          /\ currentTerm'[s] = currentTerm[s] /\ votedFor[s] # Nil => votedFor'[s] = votedFor[s]]_vars

=============================================================================
