----------------------------- MODULE RaftProofs -----------------------------
(***************************************************************************)
(* Theorems about Raft, for every number of peers, every bound and every   *)
(* schedule: types, index safety and election safety.                      *)
(***************************************************************************)
EXTENDS Raft, RaftLogProofs, FiniteSetTheorems, TLAPS

TypeInv == TypeOK /\ IndexInv

(* What the invariant says of one peer's log.                              *)
LEMMA PeerLog ==
    ASSUME TypeInv, NEW s \in Server
    PROVE  /\ GoodLog(log[s]) /\ log[s] \in Log
           /\ GlobalLogLen(log[s]) \in Nat /\ LastIndex(log[s]) \in Nat
           /\ LastTerm(log[s]) \in Nat
           /\ log[s][1].index \in Nat /\ log[s][1].term \in Nat
           /\ lastApplied[s] \in Nat /\ lastApplied[s] >= log[s][1].index
<1>1. /\ log[s] \in Log /\ Indexed(log[s])
      /\ lastApplied[s] \in Nat /\ lastApplied[s] >= log[s][1].index
  BY DEF TypeInv, TypeOK, IndexInv, IndicesSafe
<1>2. GoodLog(log[s])
  BY <1>1 DEF GoodLog
<1>3. Len(log[s]) \in Nat /\ Len(log[s]) > 0
  BY <1>2, LogFacts
<1>4. log[s][1].term \in Nat
  BY <1>2, <1>3, LogFacts
<1> QED
  BY <1>1, <1>2, <1>4, LogFacts

LEMMA InitTypeInv == Init => TypeInv
<1> SUFFICES ASSUME Init PROVE TypeInv
  OBVIOUS
<1>1. PICK e : e = NoopEntry(0, 1)
  OBVIOUS
<1>2. e \in Entry /\ e.index = 0
  BY <1>1 DEF NoopEntry, Entry
<1>3. <<e>> \in Log /\ Indexed(<<e>>) /\ <<e>>[1].index = 0
  BY <1>2 DEF Log, Indexed, Consecutive
<1>4. log = [s \in Server |-> <<e>>]
  BY <1>1 DEF Init
<1>5. TypeOK
  BY <1>3, <1>4 DEF Init, TypeOK, Idle, Campaign
<1>6. IndexInv
  BY <1>3, <1>4 DEF Init, IndexInv, IndicesSafe
<1> QED
  BY <1>5, <1>6 DEF TypeInv

(* IndexInv is about the logs, lastApplied and the AppendEntries on their  *)
(* way only.                                                               *)
LEMMA IndexInvUnchanged ==
    ASSUME IndexInv, UNCHANGED <<log, lastApplied, appendReqs>>
    PROVE  IndexInv'
BY DEF IndexInv, IndicesSafe

(* One peer's log and lastApplied change, the requests do not.             *)
LEMMA IndexInvOneLog ==
    ASSUME IndexInv, TypeOK, NEW s \in Server, NEW l, NEW la,
           log' = [log EXCEPT ![s] = l], lastApplied' = [lastApplied EXCEPT ![s] = la],
           appendReqs' = appendReqs, Indexed(l), la >= l[1].index
    PROVE  IndexInv'
BY DEF IndexInv, IndicesSafe, TypeOK

-----------------------------------------------------------------------------
(* Every action preserves TypeInv: elections.                              *)
LEMMA TypeElections ==
    ASSUME TypeInv, NEW s \in Server,
           \/ TickerFire(s) \/ Election(s) \/ (\E m \in voteReqs : RequestVote(s, m))
           \/ ElectionWin(s) \/ PollArmed(s) \/ ArmedWin(s)
    PROVE  TypeInv'
<1> USE DEF persistent, leaderVars, goroutines, votes, appends, snaps, network
<1>1. CASE TickerFire(s)
  <2>1. TypeOK'
    BY <1>1 DEF TypeInv, TypeOK, TickerFire, Campaign
  <2>2. IndexInv'
    BY <1>1, IndexInvUnchanged DEF TypeInv, TickerFire
  <2> QED
    BY <2>1, <2>2 DEF TypeInv
<1>2. CASE Election(s)
  <2>1. GlobalLogLen(log[s]) \in Nat /\ LastTerm(log[s]) \in Nat
    BY PeerLog
  <2>2. currentTerm[s] + 1 \in Nat
    BY DEF TypeInv, TypeOK
  <2>3. TypeOK'
    BY <1>2, <2>1, <2>2 DEF TypeInv, TypeOK, Election, Campaign, VoteReq
  <2>4. IndexInv'
    BY <1>2, IndexInvUnchanged DEF TypeInv, Election
  <2> QED
    BY <2>3, <2>4 DEF TypeInv
<1>3. CASE \E m \in voteReqs : RequestVote(s, m)
  <2>1. PICK m \in voteReqs : RequestVote(s, m)
    BY <1>3
  <2>2. m.from \in Server /\ m.term \in Nat
    BY DEF TypeInv, TypeOK, VoteReq
  <2>3. VotedIn(s, m.term) \in Server \cup {Nil}
    BY DEF TypeInv, TypeOK, VotedIn
  <2>4. TypeOK'
    BY <2>1, <2>2, <2>3 DEF TypeInv, TypeOK, RequestVote, VoteRep
  <2>5. IndexInv'
    BY <2>1, IndexInvUnchanged DEF TypeInv, RequestVote
  <2> QED
    BY <2>4, <2>5 DEF TypeInv
<1>4. ASSUME BecomeLeader(s), lastApplied' = lastApplied, appendReqs' = appendReqs
      PROVE  /\ state' \in [Server -> {"Follower", "Candidate", "Leader"}]
             /\ log' \in [Server -> Log]
             /\ nextIndex' \in [Server -> [Server -> Nat]]
             /\ matchIndex' \in [Server -> [Server -> Nat]]
             /\ live' \in [Server -> SUBSET Nat]
             /\ IndexInv'
  <2>1. PICK e : e = NoopEntry(GlobalLogLen(log[s]), currentTerm[s])
    OBVIOUS
  <2>2. e \in Entry /\ e.index = GlobalLogLen(log[s])
    BY <2>1, PeerLog DEF TypeInv, TypeOK, NoopEntry, Entry
  <2>3. GoodLog(log[s])
    BY PeerLog
  <2>4. GoodLog(Append(log[s], e)) /\ Append(log[s], e)[1].index = log[s][1].index
    BY <2>2, <2>3, AppendGood
  <2>5. PICK l : l = Append(log[s], e)
    OBVIOUS
  <2>6. l \in Log /\ Indexed(l) /\ log' = [log EXCEPT ![s] = l]
    BY <1>4, <2>1, <2>4, <2>5 DEF BecomeLeader, GoodLog, TypeInv, TypeOK
  <2>7. lastApplied' = [lastApplied EXCEPT ![s] = lastApplied[s]]
    BY <1>4 DEF TypeInv, TypeOK
  <2>8. lastApplied[s] >= l[1].index
    BY <2>4, <2>5, PeerLog
  <2>9. IndexInv'
    BY <1>4, <2>6, <2>7, <2>8, IndexInvOneLog DEF TypeInv
  <2>10. GlobalLogLen(log[s]) \in Nat /\ GlobalLogLen(log[s]) + 1 \in Nat
    BY PeerLog
  <2>11. state' \in [Server -> {"Follower", "Candidate", "Leader"}] /\ live' \in [Server -> SUBSET Nat]
    BY <1>4 DEF BecomeLeader, TypeInv, TypeOK
  <2>12. log' \in [Server -> Log]
    BY <2>6 DEF TypeInv, TypeOK
  <2>13. nextIndex' \in [Server -> [Server -> Nat]] /\ matchIndex' \in [Server -> [Server -> Nat]]
    BY <1>4, <2>10 DEF BecomeLeader, TypeInv, TypeOK
  <2> QED
    BY <2>9, <2>11, <2>12, <2>13
<1>5. CASE ElectionWin(s)
  <2>1. BecomeLeader(s) /\ lastApplied' = lastApplied /\ appendReqs' = appendReqs
    BY <1>5 DEF ElectionWin
  <2>2. TypeOK'
    BY <1>4, <1>5, <2>1 DEF TypeInv, TypeOK, ElectionWin, Campaign, Idle
  <2> QED
    BY <1>4, <2>1, <2>2 DEF TypeInv
<1>6. CASE PollArmed(s)
  <2>1. TypeOK'
    BY <1>6 DEF TypeInv, TypeOK, PollArmed, Idle, Campaign
  <2>2. IndexInv'
    BY <1>6, IndexInvUnchanged DEF TypeInv, PollArmed
  <2> QED
    BY <2>1, <2>2 DEF TypeInv
<1>7. CASE ArmedWin(s)
  <2>1. lastApplied' = lastApplied /\ appendReqs' = appendReqs
    BY <1>7 DEF ArmedWin
  <2>2. CASE BecomeLeader(s)
    <3>1. TypeOK'
      BY <1>4, <1>7, <2>1, <2>2 DEF TypeInv, TypeOK, ArmedWin
    <3> QED
      BY <1>4, <2>1, <2>2, <3>1 DEF TypeInv
  <2>3. CASE UNCHANGED <<state, log, leaderVars, live>>
    <3>1. TypeOK'
      BY <1>7, <2>3 DEF TypeInv, TypeOK, ArmedWin
    <3>2. IndexInv'
      BY <2>1, <2>3, IndexInvUnchanged DEF TypeInv
    <3> QED
      BY <3>1, <3>2 DEF TypeInv
  <2> QED
    BY <1>7, <2>2, <2>3 DEF ArmedWin
<1> QED
  BY <1>1, <1>2, <1>3, <1>5, <1>6, <1>7

-----------------------------------------------------------------------------
(* Leaders: sending, starting, replies.                                    *)
LEMMA TypeLeaders ==
    ASSUME TypeInv, NEW s \in Server,
           \/ \E t \in live[s] : SyncEntries(s, t)
           \/ \E c \in Submits[s] : Start(s, c)
           \/ \E r \in appendAcks : AppendSuccess(s, r)
           \/ \E r \in appendNacks : BackUp(s, r)
           \/ \E r \in appendNacks : SendSnapshot(s, r)
           \/ \E r \in snapReps : SnapshotSent(s, r)
    PROVE  TypeInv'
<1> USE DEF persistent, leaderVars, goroutines, votes, appends, snaps, network
<1>1. CASE \E t \in live[s] : SyncEntries(s, t)
  <2>1. PICK t \in live[s] : SyncEntries(s, t)
    BY <1>1
  <2> DEFINE req(p) ==
        LET a == AppendArgs(log[s], nextIndex[s][p])
        IN  [from |-> s, to |-> p, inc |-> crashes[s], session |-> t,
             term |-> currentTerm[s], prev |-> a.prev, prevTerm |-> a.prevTerm,
             entries |-> a.entries, commit |-> commitIndex[s]]
  <2>2. appendReqs' = appendReqs \cup {req(p) : p \in Server \ {s}}
    BY <2>1 DEF SyncEntries
  <2>3. ASSUME NEW p \in Server
        PROVE  req(p) \in AppendReq /\ Consecutive(req(p).entries, req(p).prev + 1)
    <3>1. nextIndex[s][p] \in Nat /\ t \in Nat /\ crashes[s] \in Nat
          /\ currentTerm[s] \in Nat /\ commitIndex[s] \in Nat
      BY DEF TypeInv, TypeOK
    <3>2. PICK a : a = AppendArgs(log[s], nextIndex[s][p])
      OBVIOUS
    <3>3. /\ a.prev \in Nat /\ a.prevTerm \in Nat /\ a.entries \in Seq(Entry)
          /\ Consecutive(a.entries, a.prev + 1)
      BY <3>1, <3>2, PeerLog, AppendArgsGood
    <3>4. req(p) = [from |-> s, to |-> p, inc |-> crashes[s], session |-> t,
                    term |-> currentTerm[s], prev |-> a.prev, prevTerm |-> a.prevTerm,
                    entries |-> a.entries, commit |-> commitIndex[s]]
      BY <3>2
    <3> HIDE DEF req
    <3> QED
      BY <3>1, <3>3, <3>4 DEF AppendReq
  <2> HIDE DEF req
  <2>4. appendReqs' \subseteq AppendReq
    BY <2>2, <2>3 DEF TypeInv, TypeOK
  <2>5. TypeOK'
    BY <2>1, <2>4 DEF TypeInv, TypeOK, SyncEntries
  <2>6. \A m \in appendReqs' : Consecutive(m.entries, m.prev + 1)
    BY <2>2, <2>3 DEF TypeInv, IndexInv
  <2>7. IndicesSafe'
    BY <2>1 DEF TypeInv, IndexInv, IndicesSafe, SyncEntries
  <2> QED
    BY <2>5, <2>6, <2>7 DEF TypeInv, IndexInv
<1>2. CASE \E c \in Submits[s] : Start(s, c)
  <2>1. PICK c \in Submits[s] : Start(s, c)
    BY <1>2
  <2>2. PICK e : e = [term |-> currentTerm[s], index |-> GlobalLogLen(log[s]), cmd |-> c]
    OBVIOUS
  <2>3. c \in Commands
    BY SubmitsAssumption
  <2>4. e \in Entry /\ e.index = GlobalLogLen(log[s])
    BY <2>2, <2>3, PeerLog DEF TypeInv, TypeOK, Entry
  <2>5. PICK l : l = Append(log[s], e)
    OBVIOUS
  <2>6. GoodLog(l) /\ l[1].index = log[s][1].index
    BY <2>4, <2>5, PeerLog, AppendGood
  <2>7. l \in Log /\ Indexed(l) /\ log' = [log EXCEPT ![s] = l]
    BY <2>1, <2>2, <2>5, <2>6 DEF Start, GoodLog, TypeInv, TypeOK
  <2>8. GlobalLogLen(log[s]) \in Nat /\ GlobalLogLen(log[s]) + 1 \in Nat
    BY PeerLog
  <2>9. log' \in [Server -> Log]
    BY <2>7 DEF TypeInv, TypeOK
  <2>10. nextIndex' \in [Server -> [Server -> Nat]] /\ matchIndex' \in [Server -> [Server -> Nat]]
    BY <2>1, <2>8 DEF Start, TypeInv, TypeOK
  <2>11. TypeOK'
    BY <2>1, <2>9, <2>10 DEF TypeInv, TypeOK, Start
  <2>12. lastApplied' = [lastApplied EXCEPT ![s] = lastApplied[s]] /\ appendReqs' = appendReqs
    BY <2>1 DEF TypeInv, TypeOK, Start
  <2>13. lastApplied[s] >= l[1].index
    BY <2>6, PeerLog
  <2>14. IndexInv'
    BY <2>7, <2>12, <2>13, IndexInvOneLog DEF TypeInv
  <2> QED
    BY <2>11, <2>14 DEF TypeInv
<1>3. CASE \E r \in appendAcks : AppendSuccess(s, r)
  <2>1. PICK r \in appendAcks : AppendSuccess(s, r)
    BY <1>3
  <2>2. r.from \in Server /\ r.next \in Nat
    BY DEF TypeInv, TypeOK, AppendAck
  <2>3. nextIndex' \in [Server -> [Server -> Nat]]
    BY <2>1, <2>2 DEF AppendSuccess, TypeInv, TypeOK
  <2>4. matchIndex[s][r.from] \in Nat
    BY <2>2 DEF TypeInv, TypeOK
  <2>5. (IF matchIndex[s][r.from] <= r.next - 1 THEN r.next - 1 ELSE matchIndex[s][r.from]) \in Nat
    BY <2>2, <2>4
  <2>6. matchIndex' \in [Server -> [Server -> Nat]]
    BY <2>1, <2>2, <2>5 DEF AppendSuccess, TypeInv, TypeOK
  <2>7. TypeOK'
    BY <2>1, <2>3, <2>6 DEF TypeInv, TypeOK, AppendSuccess
  <2>8. IndexInv'
    BY <2>1, IndexInvUnchanged DEF TypeInv, AppendSuccess
  <2> QED
    BY <2>7, <2>8 DEF TypeInv
<1>4. CASE \E r \in appendNacks : BackUp(s, r)
  <2>1. PICK r \in appendNacks : BackUp(s, r)
    BY <1>4
  <2>2. r.from \in Server /\ r.lastIndex + 1 \in Nat /\ r.lastApplied + 1 \in Nat
    BY DEF TypeInv, TypeOK, AppendNack
  <2>3. nextIndex' \in [Server -> [Server -> Nat]]
    <3>1. PICK n \in Nat : nextIndex' = [nextIndex EXCEPT ![s][r.from] = n]
      BY <2>1, <2>2 DEF BackUp
    <3> QED
      BY <2>2, <3>1 DEF TypeInv, TypeOK
  <2>4. TypeOK'
    BY <2>1, <2>3 DEF TypeInv, TypeOK, BackUp
  <2>5. IndexInv'
    BY <2>1, IndexInvUnchanged DEF TypeInv, BackUp
  <2> QED
    BY <2>4, <2>5 DEF TypeInv
<1>5. CASE \E r \in appendNacks : SendSnapshot(s, r)
  <2>1. PICK r \in appendNacks : SendSnapshot(s, r)
    BY <1>5
  <2>2. r.from \in Server /\ r.inc \in Nat /\ r.session \in Nat
    BY DEF TypeInv, TypeOK, AppendNack
  <2>3. /\ log[s][1].index \in Nat /\ log[s][1].term \in Nat
        /\ snapshotIndex[s] \in Nat /\ currentTerm[s] \in Nat
    BY PeerLog DEF TypeInv, TypeOK
  <2>4. TypeOK'
    BY <2>1, <2>2, <2>3 DEF TypeInv, TypeOK, SendSnapshot, SnapReq
  <2>5. IndexInv'
    BY <2>1, IndexInvUnchanged DEF TypeInv, SendSnapshot
  <2> QED
    BY <2>4, <2>5 DEF TypeInv
<1>6. CASE \E r \in snapReps : SnapshotSent(s, r)
  <2>1. PICK r \in snapReps : SnapshotSent(s, r)
    BY <1>6
  <2>2. r.from \in Server /\ r.lastExternal + 1 \in Nat
    BY DEF TypeInv, TypeOK, SnapRep
  <2>3. nextIndex' \in [Server -> [Server -> Nat]]
    BY <2>1, <2>2 DEF SnapshotSent, TypeInv, TypeOK
  <2>4. TypeOK'
    BY <2>1, <2>3 DEF TypeInv, TypeOK, SnapshotSent
  <2>5. IndexInv'
    BY <2>1, IndexInvUnchanged DEF TypeInv, SnapshotSent
  <2> QED
    BY <2>4, <2>5 DEF TypeInv
<1> QED
  BY <1>1, <1>2, <1>3, <1>4, <1>5, <1>6

-----------------------------------------------------------------------------
(* Followers: the AppendEntries and InstallSnapshot handlers.              *)
LEMMA TypeFollowers ==
    ASSUME TypeInv, NEW s \in Server,
           \/ \E m \in appendReqs : AppendRefuse(s, m)
           \/ \E m \in appendReqs : AppendEntries(s, m)
           \/ \E m \in snapReqs : InstallSnapshot(s, m)
    PROVE  TypeInv'
<1> USE DEF persistent, leaderVars, goroutines, votes, appends, snaps, network
<1>0. ASSUME NEW m \in appendReqs, NEW t \in Nat, NEW li \in Nat, NEW lt \in Nat, NEW la \in Nat
      PROVE  Nack(m, t, li, lt, la) \in AppendNack
  <2>1. /\ m.from \in Server /\ m.to \in Server /\ m.inc \in Nat /\ m.session \in Nat
        /\ m.prev \in Nat /\ m.prevTerm \in Nat
    BY DEF TypeInv, TypeOK, AppendReq
  <2> QED
    BY <2>1 DEF Nack, AppendNack
<1>1. CASE \E m \in appendReqs : AppendRefuse(s, m)
  <2>1. PICK m \in appendReqs : AppendRefuse(s, m)
    BY <1>1
  <2>2. Nack(m, currentTerm[s], 0, 0, 0) \in AppendNack
    BY <1>0 DEF TypeInv, TypeOK
  <2>3. TypeOK'
    BY <2>1, <2>2 DEF TypeInv, TypeOK, AppendRefuse
  <2>4. IndexInv'
    BY <2>1, IndexInvUnchanged DEF TypeInv, AppendRefuse
  <2> QED
    BY <2>3, <2>4 DEF TypeInv
<1>2. CASE \E m \in appendReqs : AppendEntries(s, m)
  <2>1. PICK m \in appendReqs : AppendEntries(s, m)
    BY <1>2
  <2>2. /\ m.from \in Server /\ m.inc \in Nat /\ m.session \in Nat /\ m.term \in Nat
        /\ m.prev \in Nat /\ m.entries \in Seq(Entry) /\ m.commit \in Nat
        /\ Consecutive(m.entries, m.prev + 1)
    BY DEF TypeInv, TypeOK, AppendReq, IndexInv
  <2>3. PICK l : l = Appended(log[s], lastApplied[s], m)
    OBVIOUS
  <2>4. GoodLog(l) /\ l[1].index = log[s][1].index
    BY <2>2, <2>3, PeerLog, AppendedGood
  <2>5. log' = [log EXCEPT ![s] = l] /\ l \in Log /\ Indexed(l)
    BY <2>1, <2>3, <2>4 DEF AppendEntries, GoodLog
  <2>6. log' \in [Server -> Log]
    BY <2>5 DEF TypeInv, TypeOK
  <2>7. NewNextIndex(m) \in Nat
    BY <2>2, LenProperties DEF NewNextIndex
  <2>8. appendAcks' \subseteq AppendAck
    <3>1. PICK a : a = [from |-> s, to |-> m.from, inc |-> m.inc, session |-> m.session,
                        next |-> NewNextIndex(m)]
      OBVIOUS
    <3>2. a \in AppendAck
      BY <2>2, <2>7, <3>1 DEF AppendAck
    <3>3. appendAcks' = appendAcks \/ appendAcks' = appendAcks \cup {a}
      BY <2>1, <3>1 DEF AppendEntries
    <3> QED
      BY <3>2, <3>3 DEF TypeInv, TypeOK
  <2>9. appendNacks' \subseteq AppendNack
    <3>1. Nack(m, m.term, LastIndex(log[s]), LastTerm(log[s]), lastApplied[s]) \in AppendNack
      BY <1>0, <2>2, PeerLog
    <3> QED
      BY <2>1, <3>1 DEF AppendEntries, TypeInv, TypeOK
  <2>10. VotedIn(s, m.term) \in Server \cup {Nil}
    BY DEF TypeInv, TypeOK, VotedIn
  <2>11. /\ currentTerm' \in [Server -> Nat]
         /\ votedFor' \in [Server -> Server \cup {Nil}]
         /\ state' \in [Server -> {"Follower", "Candidate", "Leader"}]
         /\ commitIndex' \in [Server -> Nat]
    BY <2>1, <2>2, <2>10 DEF AppendEntries, TypeInv, TypeOK
  <2>12. TypeOK'
    BY <2>1, <2>6, <2>8, <2>9, <2>11 DEF AppendEntries, TypeInv, TypeOK
  <2>13. lastApplied' = [lastApplied EXCEPT ![s] = lastApplied[s]] /\ appendReqs' = appendReqs
    BY <2>1 DEF TypeInv, TypeOK, AppendEntries
  <2>14. lastApplied[s] >= l[1].index
    BY <2>4, PeerLog
  <2>15. IndexInv'
    BY <2>5, <2>13, <2>14, IndexInvOneLog DEF TypeInv
  <2> QED
    BY <2>12, <2>15 DEF TypeInv
<1>3. CASE \E m \in snapReqs : InstallSnapshot(s, m)
  <2>1. PICK m \in snapReqs : InstallSnapshot(s, m)
    BY <1>3
  <2>2. /\ m.from \in Server /\ m.inc \in Nat /\ m.session \in Nat /\ m.term \in Nat
        /\ m.lastInternal \in Nat /\ m.lastExternal \in Nat /\ m.lastTerm \in Nat
    BY DEF TypeInv, TypeOK, SnapReq
  <2>3. snapReps' \subseteq SnapRep
    BY <2>1, <2>2 DEF InstallSnapshot, SnapRep, TypeInv, TypeOK
  <2>4. CASE m.term >= currentTerm[s] /\ m.lastExternal > snapshotIndex[s]
    <3>1. PICK l : l = Installed(log[s], m.lastInternal, m.lastTerm)
      OBVIOUS
    <3>2. GoodLog(l) /\ l[1].index = m.lastInternal
      <4>1. GoodLog(log[s])
        BY PeerLog
      <4> QED
        BY <2>2, <3>1, <4>1, InstalledGood
    <3>3. /\ log' = [log EXCEPT ![s] = l] /\ l \in Log /\ Indexed(l)
          /\ lastApplied' = [lastApplied EXCEPT ![s] = m.lastInternal]
          /\ appendReqs' = appendReqs
      BY <2>1, <2>4, <3>1, <3>2 DEF InstallSnapshot, GoodLog
    <3>4. log' \in [Server -> Log] /\ lastApplied' \in [Server -> Nat]
      BY <2>2, <3>3 DEF TypeInv, TypeOK
    <3>5. /\ state' \in [Server -> {"Follower", "Candidate", "Leader"}]
          /\ snapshotIndex' \in [Server -> Nat] /\ commitIndex' \in [Server -> Nat]
      <4>1. /\ state' = [state EXCEPT ![s] = "Follower"]
            /\ snapshotIndex' = [snapshotIndex EXCEPT ![s] = m.lastExternal]
            /\ commitIndex' = [commitIndex EXCEPT ![s] = m.lastInternal]
        BY <2>1, <2>4 DEF InstallSnapshot
      <4>2. state' \in [Server -> {"Follower", "Candidate", "Leader"}]
        BY <4>1 DEF TypeInv, TypeOK
      <4>3. snapshotIndex' \in [Server -> Nat]
        BY <2>2, <4>1 DEF TypeInv, TypeOK
      <4>4. commitIndex' \in [Server -> Nat]
        BY <2>2, <4>1 DEF TypeInv, TypeOK
      <4> QED
        BY <4>2, <4>3, <4>4
    <3>6. TypeOK'
      BY <2>1, <2>3, <3>4, <3>5 DEF InstallSnapshot, TypeInv, TypeOK
    <3>7. m.lastInternal >= l[1].index
      BY <2>2, <3>2
    <3>8. IndexInv'
      BY <3>3, <3>7, IndexInvOneLog DEF TypeInv
    <3> QED
      BY <3>6, <3>8 DEF TypeInv
  <2>5. CASE ~(m.term >= currentTerm[s] /\ m.lastExternal > snapshotIndex[s])
    <3>1. TypeOK'
      BY <2>1, <2>3, <2>5 DEF InstallSnapshot, TypeInv, TypeOK
    <3>2. IndexInv'
      BY <2>1, <2>5, IndexInvUnchanged DEF TypeInv, InstallSnapshot
    <3> QED
      BY <3>1, <3>2 DEF TypeInv
  <2> QED
    BY <2>4, <2>5
<1> QED
  BY <1>1, <1>2, <1>3

-----------------------------------------------------------------------------
(* What the service is handed has an external index and a command.         *)
LEMMA HandedTyped ==
    ASSUME NEW l, GoodLog(l), NEW snap \in Nat, NEW i \in Nat,
           l[1].index <= i, i < GlobalLogLen(l), At(l, i).cmd # Noop
    PROVE  <<ExternalIndex(l, snap, i), At(l, i).cmd>> \in Nat \X Commands
<1>1. At(l, i).cmd \in Commands
  BY AtGood DEF Entry
<1>2. LocalIndex(l, i) \in Int
  BY LogFacts DEF LocalIndex
<1>3. IsFiniteSet(1..LocalIndex(l, i))
  BY <1>2, FS_Interval
<1>4. PICK S : S = {k \in 1..LocalIndex(l, i) : l[k + 1].cmd # Noop}
  OBVIOUS
<1>5. S \in SUBSET (1..LocalIndex(l, i))
  BY <1>4
<1>6. Cardinality(S) \in Nat
  BY <1>3, <1>5, FS_Subset, FS_CardinalityType
<1>7. ExternalIndex(l, snap, i) = snap + Cardinality(S)
  BY <1>4 DEF ExternalIndex, CommandCount
<1> QED
  BY <1>1, <1>6, <1>7

(* Committing, applying, snapshots, crashes.                               *)
LEMMA TypeRest ==
    ASSUME TypeInv, NEW s \in Server,
           \/ CommitCheck(s) \/ ApplyEntries(s)
           \/ \E e \in 1..MaxSnapshot[s] : Snapshot(s, e)
           \/ Restart(s) \/ CrashMidWin(s)
    PROVE  TypeInv'
<1> USE DEF persistent, leaderVars, goroutines, votes, appends, snaps, network
<1>1. CASE CommitCheck(s)
  <2>1. PICK n \in Replicated(s) : commitIndex' = [commitIndex EXCEPT ![s] = n]
    BY <1>1 DEF CommitCheck
  <2>2. n \in Nat
    <3>1. n \in (commitIndex[s] + 1)..GlobalLogLen(log[s])
      BY <2>1 DEF Replicated
    <3>2. commitIndex[s] \in Nat /\ GlobalLogLen(log[s]) \in Nat
      BY PeerLog DEF TypeInv, TypeOK
    <3> QED
      BY <3>1, <3>2
  <2>3. TypeOK'
    BY <1>1, <2>1, <2>2 DEF CommitCheck, TypeInv, TypeOK
  <2>4. IndexInv'
    BY <1>1, IndexInvUnchanged DEF TypeInv, CommitCheck
  <2> QED
    BY <2>3, <2>4 DEF TypeInv
<1>2. CASE ApplyEntries(s)
  <2>1. PICK u : u = ApplyUpTo(s)
    OBVIOUS
  <2>2. u \in Nat /\ u <= LastIndex(log[s]) /\ lastApplied[s] < u
    BY <1>2, <2>1, PeerLog DEF ApplyEntries, ApplyUpTo, TypeInv, TypeOK
  <2>3. lastApplied' = [lastApplied EXCEPT ![s] = u] /\ log' = log /\ appendReqs' = appendReqs
    BY <1>2, <2>1 DEF ApplyEntries
  <2>4. ASSUME NEW i \in (lastApplied[s] + 1)..u, At(log[s], i).cmd # Noop
        PROVE  <<ExternalIndex(log[s], snapshotIndex[s], i), At(log[s], i).cmd>> \in Nat \X Commands
    <3>1. /\ i \in Nat /\ log[s][1].index <= i /\ i < GlobalLogLen(log[s])
      BY <2>2, PeerLog DEF LastIndex
    <3>2. snapshotIndex[s] \in Nat
      BY DEF TypeInv, TypeOK
    <3> QED
      BY <2>4, <3>1, <3>2, PeerLog, HandedTyped
  <2>5. applied' = applied \cup
           {<<ExternalIndex(log[s], snapshotIndex[s], i), At(log[s], i).cmd>> :
               i \in {j \in (lastApplied[s] + 1)..u : At(log[s], j).cmd # Noop}}
    BY <1>2, <2>1 DEF ApplyEntries
  <2>6. applied' \subseteq Nat \X Commands
    BY <2>4, <2>5 DEF TypeInv, TypeOK
  <2>7. lastApplied' \in [Server -> Nat]
    BY <2>2, <2>3 DEF TypeInv, TypeOK
  <2>8. TypeOK'
    BY <1>2, <2>6, <2>7 DEF ApplyEntries, TypeInv, TypeOK
  <2>9. IndexInv'
    <3>1. u >= log[s][1].index /\ Indexed(log[s])
      BY <2>2, PeerLog DEF GoodLog
    <3>2. log' = [log EXCEPT ![s] = log[s]]
      BY <2>3 DEF TypeInv, TypeOK
    <3> QED
      BY <2>3, <3>1, <3>2, IndexInvOneLog DEF TypeInv
  <2> QED
    BY <2>8, <2>9 DEF TypeInv
<1>3. CASE \E e \in 1..MaxSnapshot[s] : Snapshot(s, e)
  <2>1. PICK e \in 1..MaxSnapshot[s] : Snapshot(s, e)
    BY <1>3
  <2>2. PICK g : g = InternalIndex(log[s], snapshotIndex[s], e)
    OBVIOUS
  <2>3. g \in Nat /\ log[s][1].index <= g /\ g < GlobalLogLen(log[s])
    BY <2>2, PeerLog, InternalIndexInRange
  <2>4. PICK l : l = CutAt(log[s], g)
    OBVIOUS
  <2>5. GoodLog(l) /\ l[1].index = g
    BY <2>3, <2>4, PeerLog, CutAtGood
  <2>6. log' = [log EXCEPT ![s] = l] /\ l \in Log /\ Indexed(l) /\ g <= lastApplied[s]
    BY <2>1, <2>2, <2>4, <2>5 DEF Snapshot, GoodLog
  <2>7. log' \in [Server -> Log]
    BY <2>6 DEF TypeInv, TypeOK
  <2>8. e \in Nat
    <3>1. MaxSnapshot[s] \in Nat
      BY BoundsAssumption
    <3> QED
      BY <3>1
  <2>9. TypeOK'
    BY <2>1, <2>7, <2>8 DEF Snapshot, TypeInv, TypeOK
  <2>10. lastApplied' = [lastApplied EXCEPT ![s] = lastApplied[s]] /\ appendReqs' = appendReqs
    BY <2>1 DEF Snapshot, TypeInv, TypeOK
  <2>11. lastApplied[s] >= l[1].index
    BY <2>3, <2>5, <2>6, PeerLog
  <2>12. IndexInv'
    BY <2>6, <2>10, <2>11, IndexInvOneLog DEF TypeInv
  <2> QED
    BY <2>9, <2>12 DEF TypeInv
<1>4. CASE Restart(s) \/ CrashMidWin(s)
  <2>1. Reboot(s) /\ state' \in [Server -> {"Follower", "Candidate", "Leader"}]
    BY <1>4 DEF Restart, CrashMidWin, TypeInv, TypeOK
  <2>2. PICK la : la = IF NeverPersisted(s) THEN 1 ELSE log[s][1].index
    OBVIOUS
  <2>3. lastApplied' = [lastApplied EXCEPT ![s] = la] /\ log' = log /\ appendReqs' = appendReqs
    BY <2>1, <2>2 DEF Reboot, Recovered, TypeInv, TypeOK
  <2>4. GlobalLogLen(log[s]) \in Nat /\ la \in Nat
    BY <2>2, PeerLog
  <2>5. lastApplied' \in [Server -> Nat]
    BY <2>3, <2>4 DEF TypeInv, TypeOK
  <2>6. nextIndex' \in [Server -> [Server -> Nat]] /\ matchIndex' \in [Server -> [Server -> Nat]]
    BY <2>1, <2>4 DEF Reboot, TypeInv, TypeOK
  <2>7. /\ campaign' \in [Server -> Campaign] /\ armed' \in [Server -> BOOLEAN]
        /\ crashes' \in [Server -> Nat] /\ commitIndex' \in [Server -> Nat]
    BY <2>1 DEF Reboot, TypeInv, TypeOK, Campaign, Idle
  <2>8. live' \in [Server -> SUBSET Nat]
    BY <2>1 DEF Reboot, TypeInv, TypeOK
  <2>9. TypeOK'
    BY <2>1, <2>3, <2>5, <2>6, <2>7, <2>8 DEF Reboot, TypeInv, TypeOK
  <2>10. la >= log[s][1].index
    BY <2>2, PeerLog DEF NeverPersisted
  <2>11. log' = [log EXCEPT ![s] = log[s]] /\ Indexed(log[s])
    BY <2>3, PeerLog DEF GoodLog, TypeInv, TypeOK
  <2>12. IndexInv'
    BY <2>3, <2>10, <2>11, IndexInvOneLog DEF TypeInv
  <2> QED
    BY <2>9, <2>12 DEF TypeInv
<1> QED
  BY <1>1, <1>2, <1>3, <1>4

-----------------------------------------------------------------------------
LEMMA TypeStep == TypeInv /\ [Next]_vars => TypeInv'
<1> SUFFICES ASSUME TypeInv, [Next]_vars PROVE TypeInv'
  OBVIOUS
<1>1. CASE UNCHANGED vars
  BY <1>1 DEF vars, persistent, leaderVars, goroutines, votes, appends, snaps, network,
              TypeInv, TypeOK, IndexInv, IndicesSafe
<1>2. CASE Next
  <2>1. PICK s \in Server :
          \/ (\/ TickerFire(s) \/ Election(s) \/ (\E m \in voteReqs : RequestVote(s, m))
              \/ ElectionWin(s) \/ PollArmed(s) \/ ArmedWin(s))
          \/ (\/ \E t \in live[s] : SyncEntries(s, t)
              \/ \E c \in Submits[s] : Start(s, c)
              \/ \E r \in appendAcks : AppendSuccess(s, r)
              \/ \E r \in appendNacks : BackUp(s, r)
              \/ \E r \in appendNacks : SendSnapshot(s, r)
              \/ \E r \in snapReps : SnapshotSent(s, r))
          \/ (\/ \E m \in appendReqs : AppendRefuse(s, m)
              \/ \E m \in appendReqs : AppendEntries(s, m)
              \/ \E m \in snapReqs : InstallSnapshot(s, m))
          \/ (\/ CommitCheck(s) \/ ApplyEntries(s)
              \/ \E e \in 1..MaxSnapshot[s] : Snapshot(s, e)
              \/ Restart(s) \/ CrashMidWin(s))
    BY <1>2, Zenon DEF Next
  <2> QED
    BY <2>1, TypeElections, TypeLeaders, TypeFollowers, TypeRest
<1> QED
  BY <1>1, <1>2

(* Whatever the number of peers, the bounds and the schedule, every        *)
(* variable keeps its type: no log becomes empty, so that rf.log[0] and    *)
(* rf.log[len(rf.log)-1] never panic.                                      *)
THEOREM TypeCorrect == Spec => []TypeOK
<1>1. TypeInv => TypeOK
  BY DEF TypeInv
<1> QED
  BY InitTypeInv, TypeStep, <1>1, PTL DEF Spec

(* The index arithmetic of raft.go is right in every reachable state.      *)
THEOREM IndicesCorrect == Spec => []IndexInv
<1>1. TypeInv => IndexInv
  BY DEF TypeInv
<1> QED
  BY InitTypeInv, TypeStep, <1>1, PTL DEF Spec

-----------------------------------------------------------------------------
(* Election safety.  No term has two leaders, for every number of peers,   *)
(* every bound and every schedule that does not hit the stalePoll window:  *)
(* lost, repeated and reordered messages, crashes (also in the middle of a *)
(* win), late requests and late replies included.                          *)

(* Majorities: more voters are still a majority, and two majorities share  *)
(* a voter.                                                                *)
LEMMA MajorityGrows ==
    ASSUME NEW Q, NEW R, Majority(Q), Q \subseteq R, R \subseteq Server
    PROVE  Majority(R)
<1>1. IsFiniteSet(Server)
  BY ServerAssumption
<1>2. IsFiniteSet(R)
  BY <1>1, FS_Subset
<1>3. Cardinality(Q) <= Cardinality(R)
  BY <1>2, FS_Subset
<1>4. IsFiniteSet(Q)
  BY <1>2, FS_Subset
<1>5. Cardinality(Q) \in Nat /\ Cardinality(R) \in Nat /\ Cardinality(Server) \in Nat
  BY <1>1, <1>2, <1>4, FS_CardinalityType
<1> QED
  BY <1>3, <1>5 DEF Majority

LEMMA MajoritiesMeet ==
    ASSUME NEW Q, NEW R, Majority(Q), Majority(R)
    PROVE  \E x \in Server : x \in Q /\ x \in R
<1>1. IsFiniteSet(Server) /\ Q \subseteq Server /\ R \subseteq Server
  BY ServerAssumption DEF Majority
<1>2. IsFiniteSet(Q) /\ IsFiniteSet(R)
  BY <1>1, FS_Subset
<1>3. Cardinality(Q) \in Nat /\ Cardinality(R) \in Nat /\ Cardinality(Server) \in Nat
  BY <1>1, <1>2, FS_CardinalityType
<1>4. Cardinality(Q) + Cardinality(R) > Cardinality(Server)
  BY <1>3 DEF Majority
<1>5. Q \cap R # {}
  BY <1>1, <1>4, FS_MajoritiesIntersect
<1> QED
  BY <1>1, <1>5

(* The types the argument uses.                                            *)
LEMMA VoteTypes ==
    ASSUME TypeOK
    PROVE  /\ \A s \in Server : currentTerm[s] \in Nat /\ votedFor[s] \in Server \cup {Nil}
           /\ \A m \in voteReqs : m.from \in Server /\ m.term \in Nat
           /\ \A r \in voteReps : r.from \in Server /\ r.to \in Server /\ r.term \in Nat
BY DEF TypeOK, VoteReq, VoteRep

(* Leaders keep their majority as long as votes are only added.            *)
LEMMA ElectedStay ==
    ASSUME TypeOK, NEW s \in Server, NEW t, Majority(Ballots(s, t)),
           voteReps \subseteq voteReps', voteReps' \subseteq VoteRep
    PROVE  Majority(Ballots(s, t)')
<1>1. Ballots(s, t) \subseteq Ballots(s, t)'
  BY DEF Ballots
<1>2. Ballots(s, t)' \subseteq Server
  BY DEF Ballots, VoteRep
<1> QED
  BY <1>1, <1>2, MajorityGrows

-----------------------------------------------------------------------------
LEMMA InitVoteInv == Init => VoteInv
BY DEF Init, VoteInv, RequestsBind, VotesBind, VotesOnce, PollsInTerm, LeadersElected, Idle

(* A step that casts no vote and asks for none, and at most moves peer s   *)
(* to a later term (with no vote yet) and turns it into a follower.        *)
LEMMA FollowKeeps ==
    ASSUME TypeOK, VoteInv, NEW s \in Server, NEW t \in Nat, t >= currentTerm[s],
           currentTerm' = [currentTerm EXCEPT ![s] = t],
           votedFor' = [votedFor EXCEPT ![s] = VotedIn(s, t)],
           state' = [state EXCEPT ![s] = "Follower"],
           UNCHANGED <<campaign, armed, voteReqs, voteReps>>
    PROVE  VoteInv'
<1>1. /\ RequestsBind /\ VotesBind /\ VotesOnce /\ PollsInTerm /\ LeadersElected
      /\ \A p \in Server : ~armed[p]
  BY DEF VoteInv
<1>2. \A p \in Server : p # s => /\ currentTerm'[p] = currentTerm[p] /\ votedFor'[p] = votedFor[p]
                                 /\ state'[p] = state[p]
  BY DEF TypeOK
<1>3. /\ currentTerm'[s] = t /\ state'[s] = "Follower" /\ currentTerm[s] \in Nat
      /\ t = currentTerm[s] => votedFor'[s] = votedFor[s]
  BY DEF TypeOK, VotedIn
<1>4. RequestsBind'
  BY <1>1, <1>2, <1>3, VoteTypes DEF RequestsBind
<1>5. VotesBind'
  BY <1>1, <1>2, <1>3, VoteTypes DEF VotesBind
<1>6. VotesOnce'
  BY <1>1 DEF VotesOnce
<1>7. PollsInTerm'
  BY <1>1, <1>2, <1>3 DEF PollsInTerm
<1>8. LeadersElected'
  BY <1>1, <1>2, <1>3 DEF LeadersElected, Ballots
<1> QED
  BY <1>1, <1>4, <1>5, <1>6, <1>7, <1>8 DEF VoteInv

(* A candidate whose poll found a majority becomes leader; its campaign is *)
(* over.                                                                   *)
LEMMA WinKeeps ==
    ASSUME TypeOK, VoteInv, NEW s \in Server,
           campaign[s].pc = "polling", state[s] = "Candidate",
           Majority(Ballots(s, campaign[s].term)),
           state' = [state EXCEPT ![s] = "Leader"],
           campaign' = [campaign EXCEPT ![s] = Idle],
           armed' = armed \/ armed' = [armed EXCEPT ![s] = FALSE],
           UNCHANGED <<currentTerm, votedFor, voteReqs, voteReps>>
    PROVE  VoteInv'
<1>1. /\ RequestsBind /\ VotesBind /\ VotesOnce /\ PollsInTerm /\ LeadersElected
      /\ \A p \in Server : ~armed[p]
  BY DEF VoteInv
<1>2. \A p \in Server : p # s => campaign'[p] = campaign[p] /\ state'[p] = state[p]
  BY DEF TypeOK
<1>3. campaign'[s].pc = "idle" /\ state'[s] = "Leader"
  BY DEF TypeOK, Idle
<1>4. /\ campaign[s].term = currentTerm[s]
      /\ \E m \in voteReqs : m.from = s /\ m.term = currentTerm[s]
  BY <1>1 DEF PollsInTerm
<1>5. RequestsBind' /\ VotesBind' /\ VotesOnce'
  BY <1>1 DEF RequestsBind, VotesBind, VotesOnce
<1>6. PollsInTerm'
  BY <1>1, <1>2, <1>3 DEF PollsInTerm
<1>7. LeadersElected'
  <2>1. Majority(Ballots(s, currentTerm[s]))
    BY <1>4
  <2>2. \A p \in Server : Ballots(p, currentTerm[p])' = Ballots(p, currentTerm[p])
    BY DEF Ballots
  <2>3. \A p \in Server : state'[p] = "Leader" =>
            /\ \E m \in voteReqs : m.from = p /\ m.term = currentTerm[p]
            /\ Majority(Ballots(p, currentTerm[p]))
    BY <1>1, <1>2, <1>4, <2>1 DEF LeadersElected
  <2> QED
    BY <2>2, <2>3 DEF LeadersElected
<1>8. \A p \in Server : ~armed'[p]
  BY <1>1 DEF TypeOK
<1> QED
  BY <1>5, <1>6, <1>7, <1>8 DEF VoteInv

-----------------------------------------------------------------------------
(* The ticker and election().                                              *)
LEMMA TickerKeeps ==
    ASSUME TypeOK, VoteInv, NEW s \in Server, TickerFire(s)
    PROVE  VoteInv'
<1> USE DEF network, votes
<1>1. /\ RequestsBind /\ VotesBind /\ VotesOnce /\ PollsInTerm /\ LeadersElected
      /\ \A p \in Server : ~armed[p]
  BY DEF VoteInv
<1>2. \A p \in Server : p # s => campaign'[p] = campaign[p] /\ state'[p] = state[p]
  BY DEF TickerFire, TypeOK
<1>3. campaign'[s].pc = "spawned" /\ state'[s] = "Candidate"
  BY DEF TickerFire, TypeOK
<1>4. UNCHANGED <<currentTerm, votedFor, armed, voteReqs, voteReps>>
  BY DEF TickerFire
<1>5. RequestsBind' /\ VotesBind' /\ VotesOnce'
  BY <1>1, <1>4 DEF RequestsBind, VotesBind, VotesOnce
<1>6. PollsInTerm'
  BY <1>1, <1>2, <1>3, <1>4 DEF PollsInTerm
<1>7. LeadersElected'
  BY <1>1, <1>2, <1>3, <1>4 DEF LeadersElected, Ballots
<1> QED
  BY <1>1, <1>4, <1>5, <1>6, <1>7 DEF VoteInv

LEMMA ElectionKeeps ==
    ASSUME TypeOK, VoteInv, NEW s \in Server, Election(s)
    PROVE  VoteInv'
<1>1. /\ RequestsBind /\ VotesBind /\ VotesOnce /\ PollsInTerm /\ LeadersElected
      /\ \A p \in Server : ~armed[p]
  BY DEF VoteInv
<1>2. PICK t : t = currentTerm[s] + 1
  OBVIOUS
<1>3. t \in Nat /\ currentTerm[s] \in Nat /\ t > currentTerm[s]
  BY <1>2, VoteTypes
<1>4. PICK m : m = [from |-> s, term |-> t, lastLogIndex |-> GlobalLogLen(log[s]),
                    lastLogTerm |-> LastTerm(log[s])]
  OBVIOUS
<1>5. m.from = s /\ m.term = t /\ voteReqs' = voteReqs \cup {m}
  BY <1>2, <1>4 DEF Election
<1>6. UNCHANGED <<state, armed, voteReps>>
  BY DEF Election
<1>7. \A p \in Server : p # s => /\ currentTerm'[p] = currentTerm[p] /\ votedFor'[p] = votedFor[p]
                                 /\ campaign'[p] = campaign[p]
  BY DEF Election, TypeOK
<1>8. /\ currentTerm'[s] = t /\ votedFor'[s] = s
      /\ campaign'[s].pc = "polling" /\ campaign'[s].term = t
  BY <1>2 DEF Election, TypeOK
<1>9. state[s] # "Leader"
  BY <1>1 DEF Election, PollsInTerm
<1>10. RequestsBind'
  BY <1>1, <1>3, <1>5, <1>7, <1>8, VoteTypes DEF RequestsBind
<1>11. VotesBind'
  BY <1>1, <1>3, <1>6, <1>7, <1>8, VoteTypes DEF VotesBind
<1>12. VotesOnce'
  <2>1. \A r \in voteReps : r.from = s => r.term # t
    BY <1>1, <1>3, VoteTypes DEF VotesBind
  <2> QED
    BY <1>1, <1>5, <1>6, <2>1 DEF VotesOnce
<1>13. PollsInTerm'
  BY <1>1, <1>5, <1>6, <1>7, <1>8 DEF PollsInTerm
<1>14. LeadersElected'
  BY <1>1, <1>5, <1>6, <1>7, <1>9 DEF LeadersElected, Ballots
<1> QED
  BY <1>1, <1>6, <1>10, <1>11, <1>12, <1>13, <1>14 DEF VoteInv

(* The RequestVote handler that grants its vote.  (One that does not just  *)
(* follows the later term.)                                                *)
LEMMA RequestVoteKeeps ==
    ASSUME TypeOK, TypeOK', VoteInv, NEW s \in Server, NEW m \in voteReqs, RequestVote(s, m)
    PROVE  VoteInv'
<1> USE DEF goroutines
<1>1. /\ RequestsBind /\ VotesBind /\ VotesOnce /\ PollsInTerm /\ LeadersElected
      /\ \A p \in Server : ~armed[p]
  BY DEF VoteInv
<1>2. /\ m.from \in Server /\ m.from # s /\ m.term \in Nat /\ m.term >= currentTerm[s]
      /\ currentTerm[s] \in Nat /\ votedFor[s] \in Server \cup {Nil}
  BY VoteTypes DEF RequestVote
<1>3. PICK grant \in BOOLEAN :
          grant = (/\ IsUpToDate(log[s], m.lastLogIndex, m.lastLogTerm)
                   /\ VotedIn(s, m.term) \in {Nil, m.from})
  OBVIOUS
<1>4. CASE ~grant
  <2>1. /\ currentTerm' = [currentTerm EXCEPT ![s] = m.term]
        /\ votedFor' = [votedFor EXCEPT ![s] = VotedIn(s, m.term)]
        /\ state' = [state EXCEPT ![s] = "Follower"]
        /\ UNCHANGED <<campaign, armed, voteReqs, voteReps>>
    BY <1>3, <1>4 DEF RequestVote
  <2> QED
    BY <1>2, <2>1, FollowKeeps
<1>5. CASE grant
  <2>1. PICK v : v = [from |-> s, to |-> m.from, term |-> m.term]
    OBVIOUS
  <2>2. /\ v.from = s /\ v.to = m.from /\ v.term = m.term
        /\ voteReps' = voteReps \cup {v} /\ UNCHANGED <<campaign, armed, voteReqs>>
    BY <1>3, <1>5, <2>1 DEF RequestVote
  <2>3. currentTerm'[s] = m.term /\ votedFor'[s] = m.from /\ state'[s] = "Follower"
    BY <1>3, <1>5 DEF RequestVote, TypeOK
  <2>4. \A p \in Server : p # s => /\ currentTerm'[p] = currentTerm[p]
                                   /\ votedFor'[p] = votedFor[p] /\ state'[p] = state[p]
    BY DEF RequestVote, TypeOK
  <2>5. m.term = currentTerm[s] => votedFor[s] \in {Nil, m.from}
    <3>1. VotedIn(s, m.term) \in {Nil, m.from}
      BY <1>3, <1>5
    <3> QED
      BY <1>2, <3>1 DEF VotedIn
  <2>6. s # Nil
    BY ServerAssumption
  \* If s is in the term already, its earlier votes were for the same candidate.
  <2>7. ASSUME NEW r \in voteReps, r.from = s
        PROVE  r.term <= m.term /\ (r.term = m.term => r.to = m.from)
    <3>1. r.term \in Nat /\ r.to \in Server /\ r.term <= currentTerm[s]
      BY <1>1, <2>7, VoteTypes DEF VotesBind
    <3>2. r.term = currentTerm[s] => votedFor[s] = r.to
      BY <1>1, <2>7 DEF VotesBind
    <3>3. r.to # Nil
      BY <3>1, ServerAssumption
    <3>4. CASE m.term > currentTerm[s]
      BY <1>2, <3>1, <3>4
    <3>5. CASE m.term = currentTerm[s]
      BY <1>2, <2>5, <3>1, <3>2, <3>3, <3>5
    <3> QED
      BY <1>2, <3>4, <3>5
  <2>8. ASSUME NEW q \in voteReqs, q.from = s
        PROVE  q.term < m.term
    <3>1. q.term \in Nat /\ q.term <= currentTerm[s]
      BY <1>1, <2>8, VoteTypes DEF RequestsBind
    <3>2. q.term = currentTerm[s] => votedFor[s] = s
      BY <1>1, <2>8 DEF RequestsBind
    <3> QED
      BY <1>2, <2>5, <2>6, <3>1, <3>2
  <2>9. RequestsBind'
    BY <1>1, <1>2, <2>2, <2>3, <2>4, <2>8, VoteTypes DEF RequestsBind
  <2>10. VotesBind'
    BY <1>1, <1>2, <2>2, <2>3, <2>4, <2>7, VoteTypes DEF VotesBind
  <2>11. VotesOnce'
    <3>1. ASSUME NEW r \in voteReps', NEW q \in voteReps', r.from = q.from, r.term = q.term
          PROVE  r.to = q.to
      BY <1>1, <2>2, <2>7, <3>1 DEF VotesOnce
    <3>2. ASSUME NEW r \in voteReps', NEW q \in voteReqs, r.from = q.from
          PROVE  r.term # q.term
      <4>1. CASE r \in voteReps
        BY <1>1, <3>2, <4>1 DEF VotesOnce
      <4>2. CASE r = v
        BY <1>2, <2>2, <2>8, <3>2, <4>2, VoteTypes
      <4> QED
        BY <2>2, <4>1, <4>2
    <3> QED
      BY <2>2, <3>1, <3>2 DEF VotesOnce
  <2>12. PollsInTerm'
    BY <1>1, <2>2, <2>3, <2>4 DEF PollsInTerm
  <2>13. LeadersElected'
    <3>1. voteReps \subseteq voteReps' /\ voteReps' \subseteq VoteRep
      BY <2>2 DEF TypeOK
    <3>2. ASSUME NEW p \in Server, state'[p] = "Leader"
          PROVE  /\ \E q \in voteReqs' : q.from = p /\ q.term = currentTerm'[p]
                 /\ Majority(Ballots(p, currentTerm[p])')
      <4>1. p # s /\ state[p] = "Leader" /\ currentTerm'[p] = currentTerm[p]
        BY <2>3, <2>4, <3>2
      <4>2. /\ \E q \in voteReqs : q.from = p /\ q.term = currentTerm[p]
            /\ Majority(Ballots(p, currentTerm[p]))
        BY <1>1, <4>1 DEF LeadersElected
      <4>3. PICK t : t = currentTerm[p]
        OBVIOUS
      <4>4. Majority(Ballots(p, t)')
        BY <3>1, <4>2, <4>3, ElectedStay
      <4>5. Ballots(p, t)' = Ballots(p, currentTerm[p])'
        BY <4>1, <4>3 DEF Ballots
      <4> QED
        BY <2>2, <4>1, <4>2, <4>4, <4>5
    <3> QED
      BY <3>2 DEF LeadersElected
  <2> QED
    BY <1>1, <2>2, <2>9, <2>10, <2>11, <2>12, <2>13 DEF VoteInv
<1> QED
  BY <1>4, <1>5

(* Crashes: the vote, the term and the state are persistent.               *)
LEMMA RestartKeeps ==
    ASSUME TypeOK, VoteInv, NEW s \in Server, Restart(s)
    PROVE  VoteInv'
<1>1. /\ RequestsBind /\ VotesBind /\ VotesOnce /\ PollsInTerm /\ LeadersElected
      /\ \A p \in Server : ~armed[p]
  BY DEF VoteInv
<1>2. UNCHANGED <<state, currentTerm, votedFor, voteReqs, voteReps>>
  BY DEF Restart, Reboot, network, votes
<1>3. /\ \A p \in Server : p # s => campaign'[p] = campaign[p] /\ armed'[p] = armed[p]
      /\ campaign'[s].pc = "idle" /\ armed'[s] = FALSE
  BY DEF Restart, Reboot, Idle, TypeOK
<1>4. RequestsBind' /\ VotesBind' /\ VotesOnce'
  BY <1>1, <1>2 DEF RequestsBind, VotesBind, VotesOnce
<1>5. PollsInTerm'
  BY <1>1, <1>2, <1>3 DEF PollsInTerm
<1>6. LeadersElected'
  BY <1>1, <1>2 DEF LeadersElected, Ballots
<1>7. \A p \in Server : ~armed'[p]
  BY <1>1, <1>3
<1> QED
  BY <1>4, <1>5, <1>6, <1>7 DEF VoteInv

(* The steps that touch nothing VoteInv speaks of.                         *)
VoteVars == <<state, currentTerm, votedFor, campaign, armed, voteReqs, voteReps>>

LEMMA UnchangedKeeps ==
    ASSUME VoteInv, UNCHANGED VoteVars
    PROVE  VoteInv'
BY DEF VoteVars, VoteInv, RequestsBind, VotesBind, VotesOnce, PollsInTerm, LeadersElected, Ballots

LEMMA OthersUnchanged ==
    ASSUME NEW s \in Server,
           \/ \E t \in live[s] : SyncEntries(s, t)
           \/ \E c \in Submits[s] : Start(s, c)
           \/ \E m \in appendReqs : AppendRefuse(s, m)
           \/ \E r \in appendAcks : AppendSuccess(s, r)
           \/ \E r \in appendNacks : BackUp(s, r)
           \/ \E r \in appendNacks : SendSnapshot(s, r)
           \/ \E r \in snapReps : SnapshotSent(s, r)
           \/ CommitCheck(s)
           \/ ApplyEntries(s)
           \/ \E e \in 1..MaxSnapshot[s] : Snapshot(s, e)
    PROVE  UNCHANGED VoteVars
<1> USE DEF VoteVars, persistent, goroutines, votes, network
<1>1. ASSUME NEW t, SyncEntries(s, t) PROVE UNCHANGED VoteVars
  BY <1>1 DEF SyncEntries
<1>2. ASSUME NEW c, Start(s, c) PROVE UNCHANGED VoteVars
  BY <1>2 DEF Start
<1>3. ASSUME NEW m, AppendRefuse(s, m) PROVE UNCHANGED VoteVars
  BY <1>3 DEF AppendRefuse
<1>4. ASSUME NEW r, AppendSuccess(s, r) PROVE UNCHANGED VoteVars
  BY <1>4 DEF AppendSuccess
<1>5. ASSUME NEW r, BackUp(s, r) PROVE UNCHANGED VoteVars
  BY <1>5 DEF BackUp
<1>6. ASSUME NEW r, SendSnapshot(s, r) PROVE UNCHANGED VoteVars
  BY <1>6 DEF SendSnapshot
<1>7. ASSUME NEW r, SnapshotSent(s, r) PROVE UNCHANGED VoteVars
  BY <1>7 DEF SnapshotSent
<1>8. CASE CommitCheck(s)
  BY <1>8 DEF CommitCheck
<1>9. CASE ApplyEntries(s)
  BY <1>9 DEF ApplyEntries
<1>10. ASSUME NEW e, Snapshot(s, e) PROVE UNCHANGED VoteVars
  BY <1>10 DEF Snapshot
<1> QED
  BY <1>1, <1>2, <1>3, <1>4, <1>5, <1>6, <1>7, <1>8, <1>9, <1>10

-----------------------------------------------------------------------------
LEMMA VoteStep ==
    ASSUME "stalePoll" \notin Races, TypeOK, TypeOK', VoteInv, [Next]_vars
    PROVE  VoteInv'
<1>1. CASE UNCHANGED vars
  BY <1>1, UnchangedKeeps DEF vars, persistent, goroutines, votes, network, VoteVars
<1>2. CASE Next
  <2>1. PICK s \in Server :
          \/ TickerFire(s) \/ Election(s) \/ (\E m \in voteReqs : RequestVote(s, m))
          \/ ElectionWin(s) \/ PollArmed(s) \/ ArmedWin(s)
          \/ \E m \in appendReqs : AppendEntries(s, m)
          \/ \E m \in snapReqs : InstallSnapshot(s, m)
          \/ Restart(s) \/ CrashMidWin(s)
          \/ (\/ \E t \in live[s] : SyncEntries(s, t)
              \/ \E c \in Submits[s] : Start(s, c)
              \/ \E m \in appendReqs : AppendRefuse(s, m)
              \/ \E r \in appendAcks : AppendSuccess(s, r)
              \/ \E r \in appendNacks : BackUp(s, r)
              \/ \E r \in appendNacks : SendSnapshot(s, r)
              \/ \E r \in snapReps : SnapshotSent(s, r)
              \/ CommitCheck(s)
              \/ ApplyEntries(s)
              \/ \E e \in 1..MaxSnapshot[s] : Snapshot(s, e))
    BY <1>2, Zenon DEF Next
  <2>2. CASE TickerFire(s)
    BY <2>2, TickerKeeps
  <2>3. CASE Election(s)
    BY <2>3, ElectionKeeps
  <2>4. CASE \E m \in voteReqs : RequestVote(s, m)
    BY <2>4, RequestVoteKeeps
  <2>5. CASE ElectionWin(s)
    <3>1. /\ campaign[s].pc = "polling" /\ state[s] = "Candidate"
          /\ Majority(Ballots(s, campaign[s].term))
          /\ state' = [state EXCEPT ![s] = "Leader"]
          /\ campaign' = [campaign EXCEPT ![s] = Idle] /\ armed' = armed
          /\ UNCHANGED <<currentTerm, votedFor, voteReqs, voteReps>>
      BY <2>5 DEF ElectionWin, BecomeLeader, network, votes
    <3> QED
      BY <3>1, WinKeeps
  <2>6. CASE CrashMidWin(s)
    <3>1. /\ campaign[s].pc = "polling" /\ state[s] = "Candidate"
          /\ Majority(Ballots(s, campaign[s].term))
          /\ state' = [state EXCEPT ![s] = "Leader"]
          /\ campaign' = [campaign EXCEPT ![s] = Idle]
          /\ armed' = [armed EXCEPT ![s] = FALSE]
          /\ UNCHANGED <<currentTerm, votedFor, voteReqs, voteReps>>
      BY <2>6 DEF CrashMidWin, Reboot, network, votes
    <3> QED
      BY <3>1, WinKeeps
  <2>7. CASE Restart(s)
    BY <2>7, RestartKeeps
  \* Nobody is armed without the stalePoll window.
  <2>8. CASE PollArmed(s) \/ ArmedWin(s)
    BY <2>8 DEF PollArmed, ArmedWin, VoteInv
  <2>9. CASE \E m \in appendReqs : AppendEntries(s, m)
    <3>1. PICK m \in appendReqs : AppendEntries(s, m)
      BY <2>9
    <3>2. m.term \in Nat /\ m.term >= currentTerm[s]
      BY <3>1 DEF AppendEntries, TypeOK, AppendReq
    <3>3. /\ currentTerm' = [currentTerm EXCEPT ![s] = m.term]
          /\ votedFor' = [votedFor EXCEPT ![s] = VotedIn(s, m.term)]
          /\ state' = [state EXCEPT ![s] = "Follower"]
          /\ UNCHANGED <<campaign, armed, voteReqs, voteReps>>
      BY <3>1 DEF AppendEntries, goroutines, votes
    <3> QED
      BY <3>2, <3>3, FollowKeeps
  <2>10. CASE \E m \in snapReqs : InstallSnapshot(s, m)
    <3>1. PICK m \in snapReqs : InstallSnapshot(s, m)
      BY <2>10
    <3>2. UNCHANGED <<currentTerm, votedFor, campaign, armed, voteReqs, voteReps>>
      BY <3>1 DEF InstallSnapshot, goroutines, votes
    <3>3. state' = state \/ state' = [state EXCEPT ![s] = "Follower"]
      BY <3>1 DEF InstallSnapshot
    <3>4. CASE state' = state
      BY <3>2, <3>4, UnchangedKeeps DEF VoteVars
    <3>5. CASE state' = [state EXCEPT ![s] = "Follower"]
      <4>1. PICK t : t = currentTerm[s]
        OBVIOUS
      <4>2. t \in Nat /\ t >= currentTerm[s] /\ VotedIn(s, t) = votedFor[s]
        BY <4>1, VoteTypes DEF VotedIn
      <4>3. /\ currentTerm' = [currentTerm EXCEPT ![s] = t]
            /\ votedFor' = [votedFor EXCEPT ![s] = VotedIn(s, t)]
        BY <3>2, <4>1, <4>2 DEF TypeOK
      <4> QED
        BY <3>2, <3>5, <4>2, <4>3, FollowKeeps
    <3> QED
      BY <3>3, <3>4, <3>5
  <2> QED
    BY <2>1, <2>2, <2>3, <2>4, <2>5, <2>6, <2>7, <2>8, <2>9, <2>10,
       OthersUnchanged, UnchangedKeeps
<1> QED
  BY <1>1, <1>2

(* Two leaders of one term would have a voter in common.                   *)
LEMMA VotesElectOne ==
    ASSUME TypeOK, VoteInv
    PROVE  ElectionSafety
<1> SUFFICES ASSUME NEW s \in Server, NEW p \in Server, state[s] = "Leader", state[p] = "Leader",
                    currentTerm[s] = currentTerm[p], s # p
             PROVE  FALSE
  BY DEF ElectionSafety
<1>1. PICK t : t = currentTerm[s]
  OBVIOUS
<1>2. /\ Majority(Ballots(s, t)) /\ Majority(Ballots(p, t))
      /\ \E m \in voteReqs : m.from = s /\ m.term = t
      /\ \E m \in voteReqs : m.from = p /\ m.term = t
  BY <1>1 DEF VoteInv, LeadersElected
<1>3. PICK x \in Server : x \in Ballots(s, t) /\ x \in Ballots(p, t)
  BY <1>2, MajoritiesMeet
<1>4. x = s \/ \E r \in voteReps : r.from = x /\ r.to = s /\ r.term = t
  BY <1>3 DEF Ballots
<1>5. x = p \/ \E r \in voteReps : r.from = x /\ r.to = p /\ r.term = t
  BY <1>3 DEF Ballots
<1>6. VotesOnce
  BY DEF VoteInv
<1> QED
  BY <1>2, <1>4, <1>5, <1>6 DEF VotesOnce

(* Unless a poll wins in a term it did not poll in, no term ever has two   *)
(* leaders, whatever is lost, repeated, reordered or crashed.              *)
THEOREM ElectionSafe == "stalePoll" \notin Races => (Spec => []ElectionSafety)
<1> SUFFICES ASSUME "stalePoll" \notin Races PROVE Spec => []ElectionSafety
  OBVIOUS
<1> DEFINE Inv == TypeInv /\ VoteInv
<1>1. Init => Inv
  BY InitTypeInv, InitVoteInv
<1>2. Inv /\ [Next]_vars => Inv'
  <2> SUFFICES ASSUME Inv, [Next]_vars PROVE Inv'
    OBVIOUS
  <2>1. TypeInv'
    BY TypeStep
  <2>2. VoteInv'
    BY <2>1, VoteStep DEF TypeInv
  <2> QED
    BY <2>1, <2>2
<1>3. Inv => ElectionSafety
  BY VotesElectOne DEF TypeInv
<1> QED
  BY <1>1, <1>2, <1>3, PTL DEF Spec

-----------------------------------------------------------------------------
(* In whatever window and through whatever crash, no peer goes back to an  *)
(* earlier term or changes its vote within a term.                         *)
THEOREM VotesStay == Spec => VotesStable
<1>1. TypeInv /\ [Next]_vars =>
        [\A s \in Server :
          /\ currentTerm'[s] >= currentTerm[s]
          /\ currentTerm'[s] = currentTerm[s] /\ votedFor[s] # Nil =>
                 votedFor'[s] = votedFor[s]]_vars
  <2> SUFFICES ASSUME TypeInv, Next, NEW q \in Server
               PROVE  /\ currentTerm'[q] >= currentTerm[q]
                      /\ currentTerm'[q] = currentTerm[q] /\ votedFor[q] # Nil =>
                             votedFor'[q] = votedFor[q]
    OBVIOUS
  <2>1. TypeOK
    BY DEF TypeInv
  <2>2. currentTerm[q] \in Nat
    BY <2>1 DEF TypeOK
  <2>3. CASE UNCHANGED <<currentTerm, votedFor>>
    BY <2>2, <2>3
  <2>4. ASSUME NEW s \in Server, Election(s)
        PROVE  /\ currentTerm'[q] >= currentTerm[q]
               /\ currentTerm'[q] = currentTerm[q] /\ votedFor[q] # Nil =>
                      votedFor'[q] = votedFor[q]
    <3>1. CASE q = s
      <4>1. currentTerm'[q] = currentTerm[q] + 1
        BY <2>1, <2>4, <3>1 DEF Election, TypeOK
      <4> QED
        BY <2>2, <4>1
    <3>2. CASE q # s
      <4>1. currentTerm'[q] = currentTerm[q] /\ votedFor'[q] = votedFor[q]
        BY <2>1, <2>4, <3>2 DEF Election, TypeOK
      <4> QED
        BY <2>2, <4>1
    <3> QED
      BY <3>1, <3>2
  <2>5. ASSUME NEW s \in Server, NEW t \in Nat, NEW v, t >= currentTerm[s],
               t = currentTerm[s] /\ votedFor[s] # Nil => v = votedFor[s],
               currentTerm' = [currentTerm EXCEPT ![s] = t],
               votedFor' = [votedFor EXCEPT ![s] = v]
        PROVE  /\ currentTerm'[q] >= currentTerm[q]
               /\ currentTerm'[q] = currentTerm[q] /\ votedFor[q] # Nil =>
                      votedFor'[q] = votedFor[q]
    BY <2>1, <2>2, <2>5 DEF TypeOK
  <2>6. ASSUME NEW s \in Server, NEW m \in voteReqs, RequestVote(s, m)
        PROVE  /\ currentTerm'[q] >= currentTerm[q]
               /\ currentTerm'[q] = currentTerm[q] /\ votedFor[q] # Nil =>
                      votedFor'[q] = votedFor[q]
    <3>1. m.term \in Nat /\ currentTerm[s] \in Nat /\ m.term >= currentTerm[s]
      BY <2>1, <2>6, VoteTypes DEF RequestVote
    <3>2. PICK v : /\ votedFor' = [votedFor EXCEPT ![s] = v]
                   /\ v = VotedIn(s, m.term) \/ (v = m.from /\ VotedIn(s, m.term) \in {Nil, m.from})
      BY <2>6 DEF RequestVote
    <3>3. m.term = currentTerm[s] /\ votedFor[s] # Nil => v = votedFor[s]
      BY <3>1, <3>2 DEF VotedIn
    <3>4. currentTerm' = [currentTerm EXCEPT ![s] = m.term]
      BY <2>6 DEF RequestVote
    <3> QED
      BY <2>5, <3>1, <3>2, <3>3, <3>4
  <2>7. ASSUME NEW s \in Server, NEW m \in appendReqs, AppendEntries(s, m)
        PROVE  /\ currentTerm'[q] >= currentTerm[q]
               /\ currentTerm'[q] = currentTerm[q] /\ votedFor[q] # Nil =>
                      votedFor'[q] = votedFor[q]
    <3>1. m.term \in Nat /\ currentTerm[s] \in Nat /\ m.term >= currentTerm[s]
      BY <2>1, <2>7 DEF AppendEntries, TypeOK, AppendReq
    <3>2. m.term = currentTerm[s] => VotedIn(s, m.term) = votedFor[s]
      BY <3>1 DEF VotedIn
    <3>3. /\ currentTerm' = [currentTerm EXCEPT ![s] = m.term]
          /\ votedFor' = [votedFor EXCEPT ![s] = VotedIn(s, m.term)]
      BY <2>7 DEF AppendEntries
    <3> QED
      BY <2>5, <3>1, <3>2, <3>3
  <2>8. PICK s \in Server :
          \/ Election(s)
          \/ \E m \in voteReqs : RequestVote(s, m)
          \/ \E m \in appendReqs : AppendEntries(s, m)
          \/ UNCHANGED <<currentTerm, votedFor>>
    <3>1. PICK s \in Server :
            \/ Election(s)
            \/ \E m \in voteReqs : RequestVote(s, m)
            \/ \E m \in appendReqs : AppendEntries(s, m)
            \/ (\/ TickerFire(s) \/ ElectionWin(s) \/ PollArmed(s) \/ ArmedWin(s)
                \/ (\E m \in snapReqs : InstallSnapshot(s, m)) \/ Restart(s) \/ CrashMidWin(s))
            \/ (\/ \E t \in live[s] : SyncEntries(s, t)
                \/ \E c \in Submits[s] : Start(s, c)
                \/ \E m \in appendReqs : AppendRefuse(s, m)
                \/ \E r \in appendAcks : AppendSuccess(s, r)
                \/ \E r \in appendNacks : BackUp(s, r)
                \/ \E r \in appendNacks : SendSnapshot(s, r)
                \/ \E r \in snapReps : SnapshotSent(s, r)
                \/ CommitCheck(s)
                \/ ApplyEntries(s)
                \/ \E e \in 1..MaxSnapshot[s] : Snapshot(s, e))
      BY Zenon DEF Next
    <3>2. CASE \/ TickerFire(s) \/ ElectionWin(s) \/ PollArmed(s) \/ ArmedWin(s)
               \/ (\E m \in snapReqs : InstallSnapshot(s, m)) \/ Restart(s) \/ CrashMidWin(s)
      BY <3>2 DEF TickerFire, ElectionWin, PollArmed, ArmedWin, InstallSnapshot, Restart,
                  CrashMidWin, Reboot, persistent
    <3> QED
      BY <3>1, <3>2, OthersUnchanged DEF VoteVars
  <2> QED
    BY <2>2, <2>3, <2>4, <2>6, <2>7, <2>8
<1> QED
  BY <1>1, InitTypeInv, TypeStep, PTL DEF Spec, VotesStable

=============================================================================
