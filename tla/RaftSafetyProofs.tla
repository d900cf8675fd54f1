-------------------------- MODULE RaftSafetyProofs --------------------------
(***************************************************************************)
(* What is committed stays: leaders are complete, matchIndex is sound and  *)
(* no two services are handed different commands at an index, for every    *)
(* number of peers and every bound.                                        *)
(*                                                                         *)
(* The argument needs what no variable of Raft keeps: the log of the       *)
(* leader of every term, as it was when that leader last led.  G is such a *)
(* history; the inductive invariant says that there is one.                *)
(***************************************************************************)
EXTENDS RaftProofs

History == [Nat -> [leader : Server \cup {Nil}, log : Seq(Entry)]]

(* Logs l and h agree up to position n.  Position 1 is the filler, and     *)
(* position 2 (index 1, always a no-op) is left out: a fresh peer takes    *)
(* whatever is there for applied and never replaces it.                    *)
Same(l, h, n) == n <= Len(l) /\ n <= Len(h) /\ \A j \in 3..n : l[j] = h[j]

(* Log matching: every entry of l is the one the leader of its term had    *)
(* there, and so is everything before it.                                  *)
Matches(G, l) ==
    \A i \in 2..Len(l) :
        /\ i <= Len(G[l[i].term].log)
        /\ G[l[i].term].log[i].term = l[i].term
        /\ Same(l, G[l[i].term].log, i)

(* Peer p has acknowledged, to the leader of term t or as that leader, the *)
(* first n positions of its log.                                           *)
Has(G, acks, p, t, n) ==
    \/ \E r \in acks : r.from = p /\ r.session = t /\ r.next >= n
    \/ G[t].leader = p /\ n <= Len(G[t].log)

(* A majority has: these n positions are decided.  A majority has gone on  *)
(* to later terms without: they never will be.                             *)
Chosen(G, acks, t, n) ==
    n <= Len(G[t].log) /\ Majority({p \in Server : Has(G, acks, p, t, n)})
Blocked(G, acks, terms, t, n) ==
    Majority({p \in Server : terms[p] > t /\ ~Has(G, acks, p, t, n)})

(* Index i of log l was decided in term u or before.                       *)
Backed(G, acks, l, i, u) ==
    i <= 1 \/ \E t \in 0..u : Chosen(G, acks, t, i + 1) /\ Same(l, G[t].log, i + 1)

(* A log, or what a vote request says of one, is at least as up to date as *)
(* one that ends with n positions in term t.                               *)
Ahead(l, t, n) == LastTerm(l) > t \/ (LastTerm(l) = t /\ Len(l) >= n)
Beats(m, t, n) == m.lastLogTerm > t \/ (m.lastLogTerm = t /\ m.lastLogIndex >= n)

-----------------------------------------------------------------------------
(* The leaders' logs themselves: they match one another, and the entries   *)
(* of a leader's own term are the end of its log.                          *)
GoodHistory(G) ==
    /\ G \in History
    /\ \A t \in Nat : G[t].log = <<>> <=> G[t].leader = Nil
    /\ \A t \in Nat : G[t].log # <<>> =>
          /\ t >= 1 /\ Len(G[t].log) >= 2
          /\ G[t].log[1] = NoopEntry(0, 1) /\ G[t].log[2].cmd = Noop
          /\ G[t].log[Len(G[t].log)].term = t
          /\ Matches(G, G[t].log)
          /\ \A i \in 1..Len(G[t].log) : G[t].log[i].term <= t
          /\ \A i, j \in 2..Len(G[t].log) :
                i <= j /\ G[t].log[i].term = t => G[t].log[j].term = t

(* They were elected.                                                      *)
Elected(G) ==
    \A t \in Nat : G[t].log # <<>> =>
        t <= currentTerm[G[t].leader] /\ Majority(Ballots(G[t].leader, t))

(* The log of every peer matches the history, and a leader's is its own.   *)
PeerInv(G) ==
    \A s \in Server :
        /\ log[s][1] = NoopEntry(0, 1) /\ snapshotIndex[s] = 0
        /\ Len(log[s]) >= 2 => log[s][2].cmd = Noop
        /\ currentTerm[s] >= 1
        /\ Matches(G, log[s])
        /\ \A i \in 1..Len(log[s]) : log[s][i].term <= LastTerm(log[s])
        /\ LastTerm(log[s]) <= currentTerm[s]
        /\ state[s] = "Leader" => G[currentTerm[s]].leader = s /\ G[currentTerm[s]].log = log[s]

(* A candidate that polls has not led its term yet, and its log is the one *)
(* it asked for votes with.                                                *)
PollInv(G) ==
    \A s \in Server :
        campaign[s].pc = "polling" =>
            /\ G[campaign[s].term].leader # s
            /\ state[s] = "Candidate" =>
                  \E m \in voteReqs : /\ m.from = s /\ m.term = currentTerm[s]
                                      /\ m.lastLogIndex = Len(log[s])
                                      /\ m.lastLogTerm = LastTerm(log[s])

(* A request carries a stretch of the sender's log of that term, up to an  *)
(* entry of the term itself, and a commit index that was decided.          *)
GoodRequest(G, acks, m) ==
    /\ m.session = m.term /\ m.from = G[m.term].leader /\ m.from # m.to
    /\ 2 <= NewNextIndex(m) /\ NewNextIndex(m) <= Len(G[m.term].log)
    /\ G[m.term].log[NewNextIndex(m)].term = m.term
    /\ m.prevTerm = G[m.term].log[m.prev + 1].term
    /\ \A i \in 1..Len(m.entries) : m.entries[i] = G[m.term].log[m.prev + 1 + i]
    /\ m.commit + 1 <= NewNextIndex(m)
    /\ Backed(G, acks, G[m.term].log, m.commit, m.term)
RequestInv(G) == \A m \in appendReqs : GoodRequest(G, appendAcks, m)

(* Nobody acknowledges more than the leader has; votes answer requests, of *)
(* which a candidate sends one in a term; there are no snapshots.          *)
MessageInv(G) ==
    /\ \A r \in appendAcks : 2 <= r.next /\ r.next <= Len(G[r.session].log)
    /\ \A r \in voteReps : \E m \in voteReqs : m.from = r.to /\ m.term = r.term
    /\ \A m, q \in voteReqs : m.from = q.from /\ m.term = q.term => m = q
    /\ snapReqs = {} /\ snapReps = {}

(* What a peer has acknowledged stays in its log until a later leader      *)
(* replaces it.                                                            *)
HasInv(G) ==
    \A p \in Server, t \in Nat, n \in Nat :
        n >= 3 /\ Has(G, appendAcks, p, t, n) => t <= currentTerm[p] /\ Ahead(log[p], t, n)

(* Whoever got the vote of such a peer had a log at least as up to date.   *)
PromiseInv(G) ==
    \A m \in voteReqs : \A p \in Ballots(m.from, m.term) : \A t \in Nat, n \in Nat :
        n >= 3 /\ t < m.term /\ Has(G, appendAcks, p, t, n) => Beats(m, t, n)

(* The heart of the argument: what an earlier leader had, a later one has, *)
(* or it will never be decided.                                            *)
CompleteInv(G) ==
    \A t \in Nat, u \in Nat, n \in Nat :
        t < u /\ G[u].log # <<>> /\ 3 <= n /\ n <= Len(G[t].log) =>
            Same(G[u].log, G[t].log, n) \/ Blocked(G, appendAcks, currentTerm, t, n)

(* What a peer takes for committed or applied was decided.                 *)
CommitInv(G) ==
    \A s \in Server :
        /\ commitIndex[s] + 1 <= Len(log[s])
        /\ Backed(G, appendAcks, log[s], commitIndex[s], currentTerm[s])
        /\ Backed(G, appendAcks, log[s], lastApplied[s], currentTerm[s])

(* matchIndex is what peers acknowledged in one term: a leader's own, or,  *)
(* left over, one in which the peer led before.                            *)
MatchInv(G) ==
    \A s \in Server : \E t \in 0..currentTerm[s] :
        /\ state[s] = "Leader" => t = currentTerm[s]
        /\ \A p \in Server :
              matchIndex[s][p] <= 1 \/ Has(G, appendAcks, p, t, matchIndex[s][p] + 1)

(* What was handed to a service was decided, at its external index.        *)
Handed(G, acks, a, t, n) ==
    /\ n >= 3 /\ Chosen(G, acks, t, n)
    /\ a[2] = G[t].log[n].cmd /\ a[2] # Noop
    /\ a[1] = CommandCount(G[t].log, 1, n - 1)
AppliedInv(G) ==
    \A a \in applied : \E t \in Nat, n \in Nat : Handed(G, appendAcks, a, t, n)

SafeInv(G) ==
    /\ GoodHistory(G) /\ Elected(G) /\ PeerInv(G) /\ PollInv(G)
    /\ RequestInv(G) /\ MessageInv(G) /\ HasInv(G) /\ PromiseInv(G)
    /\ CompleteInv(G) /\ CommitInv(G) /\ MatchInv(G) /\ AppliedInv(G)

-----------------------------------------------------------------------------
(* The operators.                                                          *)
LEMMA SameShorter ==
    ASSUME NEW l, NEW h, NEW n \in Nat, NEW k \in Nat, Same(l, h, n), k <= n,
           Len(l) \in Nat, Len(h) \in Nat
    PROVE  Same(l, h, k)
BY DEF Same

LEMMA SameTrans ==
    ASSUME NEW l, NEW h, NEW g, NEW n \in Nat, Same(l, h, n), Same(h, g, n)
    PROVE  Same(l, g, n)
BY DEF Same

LEMMA SameSym ==
    ASSUME NEW l, NEW h, NEW n \in Nat, Same(l, h, n)
    PROVE  Same(h, l, n)
BY DEF Same

LEMMA HistoryTypes ==
    ASSUME NEW G \in History, NEW t \in Nat
    PROVE  /\ G[t].log \in Seq(Entry) /\ Len(G[t].log) \in Nat
           /\ G[t].leader \in Server \cup {Nil}
           /\ \A i \in 1..Len(G[t].log) : G[t].log[i] \in Entry /\ G[t].log[i].term \in Nat
           /\ G[t].log = <<>> <=> Len(G[t].log) = 0
<1>1. G[t].log \in Seq(Entry) /\ G[t].leader \in Server \cup {Nil}
  BY DEF History
<1>2. PICK l : l = G[t].log
  OBVIOUS
<1>3. l \in Seq(Entry) /\ Len(l) \in Nat /\ (l = <<>> <=> Len(l) = 0)
  BY <1>1, <1>2, LenProperties, EmptySeq
<1>4. \A i \in 1..Len(l) : l[i] \in Entry /\ l[i].term \in Nat
  <2> TAKE i \in 1..Len(l)
  <2>1. l[i] \in Entry
    BY <1>3, ElementOfSeq
  <2> QED
    BY <2>1 DEF Entry
<1> QED
  BY <1>1, <1>2, <1>3, <1>4

LEMMA HasShorter ==
    ASSUME NEW G \in History, NEW acks, acks \subseteq AppendAck, NEW p, NEW t \in Nat,
           NEW n \in Nat, NEW k \in Nat, k <= n, Has(G, acks, p, t, n)
    PROVE  Has(G, acks, p, t, k)
<1>1. Len(G[t].log) \in Nat
  BY HistoryTypes
<1>2. \A r \in acks : r.next \in Nat
  BY DEF AppendAck
<1> QED
  BY <1>1, <1>2 DEF Has

LEMMA ChosenShorter ==
    ASSUME NEW G \in History, NEW acks, acks \subseteq AppendAck, NEW t \in Nat,
           NEW n \in Nat, NEW k \in Nat, k <= n, Chosen(G, acks, t, n)
    PROVE  Chosen(G, acks, t, k)
<1>1. {p \in Server : Has(G, acks, p, t, n)} \subseteq {p \in Server : Has(G, acks, p, t, k)}
  BY HasShorter
<1>2. Majority({p \in Server : Has(G, acks, p, t, k)})
  BY <1>1, MajorityGrows DEF Chosen
<1>3. Len(G[t].log) \in Nat
  BY HistoryTypes
<1> QED
  BY <1>2, <1>3 DEF Chosen

LEMMA ChosenNotBlocked ==
    ASSUME NEW G, NEW acks, NEW terms, NEW t, NEW n,
           Chosen(G, acks, t, n), Blocked(G, acks, terms, t, n)
    PROVE  FALSE
<1>1. PICK p \in Server : /\ p \in {q \in Server : Has(G, acks, q, t, n)}
                          /\ p \in {q \in Server : terms[q] > t /\ ~Has(G, acks, q, t, n)}
  BY MajoritiesMeet DEF Chosen, Blocked
<1> QED
  BY <1>1

(* The history K continues G, and acks are added.                          *)
Grows(G, K, acks, bcks) ==
    /\ acks \subseteq bcks
    /\ \A t \in Nat :
          /\ Len(G[t].log) <= Len(K[t].log)
          /\ \A j \in 1..Len(G[t].log) : K[t].log[j] = G[t].log[j]
          /\ G[t].log # <<>> => K[t].leader = G[t].leader

LEMMA SameGrows ==
    ASSUME NEW G \in History, NEW K \in History, NEW acks, NEW bcks, Grows(G, K, acks, bcks),
           NEW l, NEW t \in Nat, NEW n \in Nat, Same(l, G[t].log, n)
    PROVE  Same(l, K[t].log, n)
<1>1. Len(G[t].log) \in Nat /\ Len(K[t].log) \in Nat
  BY HistoryTypes
<1> QED
  BY <1>1 DEF Same, Grows

LEMMA MatchesGrow ==
    ASSUME NEW G \in History, NEW K \in History, NEW acks, NEW bcks, Grows(G, K, acks, bcks),
           NEW l \in Seq(Entry), Matches(G, l)
    PROVE  Matches(K, l)
<1> SUFFICES ASSUME NEW i \in 2..Len(l)
             PROVE  /\ i <= Len(K[l[i].term].log)
                    /\ K[l[i].term].log[i].term = l[i].term
                    /\ Same(l, K[l[i].term].log, i)
  BY DEF Matches
<1>1. Len(l) \in Nat /\ i \in Nat /\ i >= 2 /\ i \in 1..Len(l)
  BY LenProperties
<1>2. l[i] \in Entry
  BY <1>1, ElementOfSeq
<1>3. PICK t \in Nat : t = l[i].term
  BY <1>2 DEF Entry
<1>4. i <= Len(G[t].log) /\ G[t].log[i].term = t /\ Same(l, G[t].log, i)
  BY <1>3 DEF Matches
<1>5. Len(G[t].log) \in Nat /\ Len(K[t].log) \in Nat
  BY HistoryTypes
<1>6. i <= Len(K[t].log) /\ K[t].log[i] = G[t].log[i]
  BY <1>1, <1>4, <1>5 DEF Grows
<1>7. Same(l, K[t].log, i)
  BY <1>1, <1>4, SameGrows
<1> QED
  BY <1>3, <1>4, <1>6, <1>7

LEMMA HasGrows ==
    ASSUME NEW G \in History, NEW K \in History, NEW acks, NEW bcks, Grows(G, K, acks, bcks),
           NEW p, NEW t \in Nat, NEW n \in Nat, n >= 1, Has(G, acks, p, t, n)
    PROVE  Has(K, bcks, p, t, n)
<1>1. /\ Len(G[t].log) \in Nat /\ Len(K[t].log) \in Nat
      /\ G[t].log = <<>> <=> Len(G[t].log) = 0
  BY HistoryTypes
<1>2. CASE \E r \in acks : r.from = p /\ r.session = t /\ r.next >= n
  BY <1>2 DEF Has, Grows
<1>3. CASE G[t].leader = p /\ n <= Len(G[t].log)
  BY <1>1, <1>3 DEF Has, Grows
<1> QED
  BY <1>2, <1>3 DEF Has

LEMMA ChosenGrows ==
    ASSUME NEW G \in History, NEW K \in History, NEW acks, NEW bcks, Grows(G, K, acks, bcks),
           NEW t \in Nat, NEW n \in Nat, n >= 1, Chosen(G, acks, t, n)
    PROVE  Chosen(K, bcks, t, n)
<1>1. {p \in Server : Has(G, acks, p, t, n)} \subseteq {p \in Server : Has(K, bcks, p, t, n)}
  BY HasGrows
<1>2. Majority({p \in Server : Has(K, bcks, p, t, n)})
  BY <1>1, MajorityGrows DEF Chosen
<1>3. Len(G[t].log) \in Nat /\ Len(K[t].log) \in Nat /\ Len(G[t].log) <= Len(K[t].log)
  BY HistoryTypes DEF Grows
<1> QED
  BY <1>2, <1>3 DEF Chosen

LEMMA BackedGrows ==
    ASSUME NEW G \in History, NEW K \in History, NEW acks, NEW bcks, Grows(G, K, acks, bcks),
           NEW l, NEW i \in Nat, NEW u \in Nat, NEW v \in Nat, u <= v,
           Backed(G, acks, l, i, u)
    PROVE  Backed(K, bcks, l, i, v)
<1>1. CASE i <= 1
  BY <1>1 DEF Backed
<1>2. CASE i > 1
  <2>1. PICK t \in 0..u : Chosen(G, acks, t, i + 1) /\ Same(l, G[t].log, i + 1)
    BY <1>2 DEF Backed
  <2>2. t \in Nat /\ t \in 0..v /\ i + 1 \in Nat /\ i + 1 >= 1
    OBVIOUS
  <2>3. Chosen(K, bcks, t, i + 1) /\ Same(l, K[t].log, i + 1)
    BY <2>1, <2>2, ChosenGrows, SameGrows
  <2> QED
    BY <2>2, <2>3 DEF Backed
<1> QED
  BY <1>1, <1>2

(* A log that agrees with a backed one is backed.                          *)
LEMMA BackedSame ==
    ASSUME NEW G \in History, NEW acks, NEW l, NEW h, NEW i \in Nat, NEW u \in Nat,
           Backed(G, acks, l, i, u), Same(h, l, i + 1)
    PROVE  Backed(G, acks, h, i, u)
<1>1. CASE i <= 1
  BY <1>1 DEF Backed
<1>2. CASE i > 1
  <2>1. PICK t \in 0..u : Chosen(G, acks, t, i + 1) /\ Same(l, G[t].log, i + 1)
    BY <1>2 DEF Backed
  <2>2. Same(h, G[t].log, i + 1)
    BY <2>1, SameTrans
  <2> QED
    BY <2>1, <2>2 DEF Backed
<1> QED
  BY <1>1, <1>2

(* Nothing decided is missing from a later leader's log.                   *)
LEMMA ChosenKept ==
    ASSUME NEW G \in History, CompleteInv(G), NEW t \in Nat, NEW u \in Nat, NEW n \in Nat,
           t <= u, G[u].log # <<>>, n >= 3, Chosen(G, appendAcks, t, n)
    PROVE  Same(G[u].log, G[t].log, n)
<1>1. n <= Len(G[t].log) /\ Len(G[t].log) \in Nat
  BY HistoryTypes DEF Chosen
<1>2. CASE t = u
  BY <1>1, <1>2 DEF Same
<1>3. CASE t < u
  BY <1>1, <1>3, ChosenNotBlocked DEF CompleteInv
<1> QED
  BY <1>2, <1>3

LEMMA BackedKept ==
    ASSUME NEW G \in History, CompleteInv(G), NEW l, NEW i \in Nat, NEW u \in Nat,
           NEW v \in Nat, u <= v, i >= 2, G[v].log # <<>>,
           Backed(G, appendAcks, l, i, u)
    PROVE  Same(l, G[v].log, i + 1)
<1>1. PICK t \in 0..u : Chosen(G, appendAcks, t, i + 1) /\ Same(l, G[t].log, i + 1)
  BY DEF Backed
<1>2. t \in Nat /\ t <= v /\ i + 1 \in Nat /\ i + 1 >= 3
  OBVIOUS
<1>3. Same(G[v].log, G[t].log, i + 1)
  BY <1>1, <1>2, ChosenKept
<1> QED
  BY <1>1, <1>2, <1>3, SameTrans, SameSym

-----------------------------------------------------------------------------
(* Without snapshots a log starts at index 0: position i + 1 is index i.   *)
LEMMA PeerFacts ==
    ASSUME TypeInv, NEW G, PeerInv(G), NEW s \in Server
    PROVE  /\ GoodLog(log[s]) /\ log[s] \in Seq(Entry) /\ Len(log[s]) \in Nat /\ Len(log[s]) >= 1
           /\ log[s][1] = NoopEntry(0, 1) /\ log[s][1].index = 0 /\ log[s][1].term = 1
           /\ GlobalLogLen(log[s]) = Len(log[s]) /\ LastIndex(log[s]) = Len(log[s]) - 1
           /\ LastTerm(log[s]) = log[s][Len(log[s])].term /\ LastTerm(log[s]) \in Nat
           /\ \A i \in 1..Len(log[s]) : log[s][i] \in Entry /\ log[s][i].term \in Nat
           /\ currentTerm[s] \in Nat
<1>1. GoodLog(log[s])
  BY PeerLog
<1>2. /\ log[s] \in Seq(Entry) /\ Len(log[s]) \in Nat /\ Len(log[s]) >= 1
      /\ \A i \in 1..Len(log[s]) : log[s][i] \in Entry /\ log[s][i].term \in Nat
      /\ LastTerm(log[s]) \in Nat
  BY <1>1, LogFacts
<1>3. log[s][1] = NoopEntry(0, 1)
  BY DEF PeerInv
<1>4. log[s][1].index = 0 /\ log[s][1].term = 1
  BY <1>3 DEF NoopEntry
<1>5. GlobalLogLen(log[s]) = Len(log[s]) /\ LastIndex(log[s]) = Len(log[s]) - 1
  BY <1>2, <1>4 DEF GlobalLogLen, LastIndex
<1>6. LastTerm(log[s]) = log[s][Len(log[s])].term
  BY DEF LastTerm
<1>7. currentTerm[s] \in Nat
  BY DEF TypeInv, TypeOK
<1> QED
  BY <1>1, <1>2, <1>3, <1>4, <1>5, <1>6, <1>7

(* Two peers whose logs agree up to position n are the same at index i.    *)
LEMMA SameIsSameAt ==
    ASSUME TypeInv, NEW G, PeerInv(G), NEW s \in Server, NEW p \in Server,
           NEW n \in Nat, Same(log[s], log[p], n), NEW i \in Nat, i >= 2, i + 1 <= n
    PROVE  SameAt(s, p, i)
<1>1. /\ Len(log[s]) \in Nat /\ Len(log[p]) \in Nat
      /\ log[s][1].index = 0 /\ log[p][1].index = 0
      /\ GlobalLogLen(log[s]) = Len(log[s]) /\ GlobalLogLen(log[p]) = Len(log[p])
  BY PeerFacts
<1>2. i + 1 \in 3..n /\ i < Len(log[s]) /\ i < Len(log[p])
  BY <1>1 DEF Same
<1>3. log[s][i + 1] = log[p][i + 1]
  BY <1>2 DEF Same
<1>4. LocalIndex(log[s], i) = i /\ LocalIndex(log[p], i) = i
  BY <1>1 DEF LocalIndex
<1>5. InLog(log[s], i) /\ InLog(log[p], i) /\ At(log[s], i).term = At(log[p], i).term
  BY <1>1, <1>2, <1>3, <1>4 DEF InLog, At
<1> QED
  BY <1>5 DEF SameAt

(* A leader's log is the history of its term.                              *)
LEMMA LeaderLog ==
    ASSUME TypeInv, NEW G, GoodHistory(G), PeerInv(G), NEW s \in Server, state[s] = "Leader"
    PROVE  /\ currentTerm[s] \in Nat /\ G[currentTerm[s]].log = log[s]
           /\ G[currentTerm[s]].log # <<>> /\ G[currentTerm[s]].leader = s
<1>1. G[currentTerm[s]].log = log[s] /\ G[currentTerm[s]].leader = s
  BY DEF PeerInv
<1>2. currentTerm[s] \in Nat
  BY PeerFacts
<1>3. s # Nil
  BY ServerAssumption
<1> QED
  BY <1>1, <1>2, <1>3 DEF GoodHistory

LEMMA SafeComplete ==
    ASSUME TypeInv, NEW G, SafeInv(G)
    PROVE  LeaderCompleteness
<1>1. GoodHistory(G) /\ PeerInv(G) /\ CompleteInv(G) /\ CommitInv(G) /\ G \in History
  BY DEF SafeInv, GoodHistory
<1> SUFFICES ASSUME NEW s \in Server, NEW p \in Server, state[s] = "Leader",
                    currentTerm[p] <= currentTerm[s], NEW i \in 2..commitIndex[p]
             PROVE  SameAt(s, p, i)
  BY DEF LeaderCompleteness
<1>2. /\ currentTerm[s] \in Nat /\ currentTerm[p] \in Nat /\ commitIndex[p] \in Nat
      /\ i \in Nat /\ i >= 2 /\ i <= commitIndex[p]
  BY DEF TypeInv, TypeOK
<1>3. G[currentTerm[s]].log = log[s] /\ G[currentTerm[s]].log # <<>>
  BY <1>1, LeaderLog
<1>4. Backed(G, appendAcks, log[p], commitIndex[p], currentTerm[p])
  BY <1>1 DEF CommitInv
<1>5. Same(log[p], log[s], commitIndex[p] + 1)
  BY <1>1, <1>2, <1>3, <1>4, BackedKept
<1>6. Same(log[s], log[p], commitIndex[p] + 1)
  BY <1>2, <1>5, SameSym
<1> QED
  BY <1>1, <1>2, <1>6, SameIsSameAt

(* A log whose last entry is of term t agrees with the leader of t.        *)
LEMMA LastMatches ==
    ASSUME TypeInv, NEW G, PeerInv(G), NEW s \in Server, Len(log[s]) >= 2
    PROVE  Same(log[s], G[LastTerm(log[s])].log, Len(log[s]))
<1>1. Matches(G, log[s])
  BY DEF PeerInv
<1>2. Len(log[s]) \in 2..Len(log[s]) /\ LastTerm(log[s]) = log[s][Len(log[s])].term
  BY PeerFacts
<1> QED
  BY <1>1, <1>2 DEF Matches

LEMMA SafeMatch ==
    ASSUME TypeInv, NEW G, SafeInv(G)
    PROVE  MatchIndexSound
<1>1. /\ GoodHistory(G) /\ PeerInv(G) /\ HasInv(G) /\ MatchInv(G) /\ G \in History
  BY DEF SafeInv, GoodHistory
<1> SUFFICES ASSUME NEW s \in Server, NEW p \in Server, state[s] = "Leader",
                    currentTerm[p] = currentTerm[s], NEW i \in 2..matchIndex[s][p]
             PROVE  SameAt(s, p, i)
  BY DEF MatchIndexSound
<1>2. /\ currentTerm[s] \in Nat /\ matchIndex[s][p] \in Nat
      /\ i \in Nat /\ i >= 2 /\ i <= matchIndex[s][p]
  BY DEF TypeInv, TypeOK
<1>3. G[currentTerm[s]].log = log[s]
  BY <1>1, LeaderLog
<1>4. PICK n \in Nat : n = matchIndex[s][p] + 1
  BY <1>2
<1>5. Has(G, appendAcks, p, currentTerm[s], n)
  BY <1>1, <1>2, <1>4 DEF MatchInv
<1>6. Ahead(log[p], currentTerm[s], n)
  BY <1>1, <1>2, <1>4, <1>5 DEF HasInv
<1>7. LastTerm(log[p]) <= currentTerm[p] /\ LastTerm(log[p]) \in Nat /\ Len(log[p]) \in Nat
  BY <1>1, PeerFacts DEF PeerInv
<1>8. LastTerm(log[p]) = currentTerm[s] /\ Len(log[p]) >= n
  BY <1>2, <1>6, <1>7 DEF Ahead
<1>9. Same(log[p], log[s], Len(log[p]))
  BY <1>1, <1>2, <1>3, <1>4, <1>7, <1>8, LastMatches
<1>10. Same(log[s], log[p], Len(log[p]))
  BY <1>7, <1>9, SameSym
<1> QED
  BY <1>1, <1>2, <1>4, <1>7, <1>8, <1>10, SameIsSameAt

(* External indices: logs that agree up to position n number its commands  *)
(* alike, and a later command has a higher number.                         *)
LEMMA CountSame ==
    ASSUME NEW l, NEW h, NEW n \in Nat, Same(l, h, n), l[2].cmd = Noop, h[2].cmd = Noop
    PROVE  CommandCount(l, 1, n - 1) = CommandCount(h, 1, n - 1)
<1>1. \A i \in 1..(n - 1) : l[i + 1].cmd # Noop <=> h[i + 1].cmd # Noop
  <2> TAKE i \in 1..(n - 1)
  <2>1. CASE i = 1
    BY <2>1
  <2>2. CASE i # 1
    <3>1. i + 1 \in 3..n
      BY <2>2
    <3> QED
      BY <3>1 DEF Same
  <2> QED
    BY <2>1, <2>2
<1>2. {i \in 1..(n - 1) : l[i + 1].cmd # Noop} = {i \in 1..(n - 1) : h[i + 1].cmd # Noop}
  BY <1>1
<1> QED
  BY <1>2 DEF CommandCount

LEMMA CountLess ==
    ASSUME NEW l, NEW n \in Nat, NEW k \in Nat, 2 <= n, n < k, l[k].cmd # Noop
    PROVE  CommandCount(l, 1, n - 1) # CommandCount(l, 1, k - 1)
<1>1. PICK A : A = {i \in 1..(n - 1) : l[i + 1].cmd # Noop}
  OBVIOUS
<1>2. PICK B : B = {i \in 1..(k - 1) : l[i + 1].cmd # Noop}
  OBVIOUS
<1>3. A \subseteq B
  BY <1>1, <1>2
<1>4. IsFiniteSet(1..(k - 1))
  BY FS_Interval
<1>5. IsFiniteSet(B)
  BY <1>2, <1>4, FS_Subset
<1>6. k - 1 \in B /\ k - 1 \notin A
  BY <1>1, <1>2
<1>7. Cardinality(A) # Cardinality(B)
  BY <1>3, <1>5, <1>6, FS_Subset
<1> QED
  BY <1>1, <1>2, <1>7 DEF CommandCount

LEMMA SafeApplied ==
    ASSUME TypeInv, NEW G, SafeInv(G)
    PROVE  AppliedAgree
<1>1. /\ GoodHistory(G) /\ CompleteInv(G) /\ AppliedInv(G) /\ G \in History
  BY DEF SafeInv, GoodHistory
\* The case in which b was decided by the same leader or a later one.
<1>2. ASSUME NEW a, NEW b, a[1] = b[1],
             NEW t \in Nat, NEW n \in Nat, Handed(G, appendAcks, a, t, n),
             NEW u \in Nat, NEW k \in Nat, Handed(G, appendAcks, b, u, k), t <= u
      PROVE  a[2] = b[2]
  <2> USE <1>2 DEF Handed
  <2>1. n <= Len(G[t].log) /\ k <= Len(G[u].log)
    BY <1>2 DEF Chosen
  <2>2. Len(G[t].log) \in Nat /\ Len(G[u].log) \in Nat /\ G[t].log # <<>> /\ G[u].log # <<>>
    BY <1>1, <1>2, <2>1, HistoryTypes
  <2>3. G[t].log[2].cmd = Noop /\ G[u].log[2].cmd = Noop
    BY <1>1, <2>2 DEF GoodHistory
  <2>4. Same(G[u].log, G[t].log, n)
    BY <1>1, <1>2, <2>2, ChosenKept
  <2>5. G[u].log[n] = G[t].log[n]
    BY <1>2, <2>4 DEF Same
  <2>6. CommandCount(G[u].log, 1, n - 1) = CommandCount(G[t].log, 1, n - 1)
    BY <2>3, <2>4, CountSame
  <2>7. n = k
    <3>1. CASE n < k
      <4>1. G[u].log[k].cmd # Noop /\ 2 <= n
        OBVIOUS
      <4>2. CommandCount(G[u].log, 1, n - 1) # CommandCount(G[u].log, 1, k - 1)
        BY <3>1, <4>1, CountLess
      <4> QED
        BY <2>6, <4>2
    <3>2. CASE k < n
      <4>1. G[u].log[n].cmd # Noop /\ 2 <= k
        BY <2>5
      <4>2. CommandCount(G[u].log, 1, k - 1) # CommandCount(G[u].log, 1, n - 1)
        BY <3>2, <4>1, CountLess
      <4> QED
        BY <2>6, <4>2
    <3> QED
      BY <1>2, <3>1, <3>2
  <2> QED
    BY <1>2, <2>5, <2>7
<1> SUFFICES ASSUME NEW a \in applied, NEW b \in applied, a[1] = b[1]
             PROVE  a[2] = b[2]
  BY DEF AppliedAgree
<1>3. PICK t \in Nat, n \in Nat : Handed(G, appendAcks, a, t, n)
  BY <1>1 DEF AppliedInv
<1>4. PICK u \in Nat, k \in Nat : Handed(G, appendAcks, b, u, k)
  BY <1>1 DEF AppliedInv
<1>5. CASE t <= u
  BY <1>2, <1>3, <1>4, <1>5
<1>6. CASE u <= t
  <2>1. b[2] = a[2]
    BY <1>2, <1>3, <1>4, <1>6
  <2> QED
    BY <2>1
<1> QED
  BY <1>5, <1>6

-----------------------------------------------------------------------------
LEMMA InitSafe == Init => \E G \in History : SafeInv(G)
<1> SUFFICES ASSUME Init PROVE \E G \in History : SafeInv(G)
  OBVIOUS
<1>1. PICK G : G = [t \in Nat |-> [leader |-> Nil, log |-> <<>>]]
  OBVIOUS
<1>2. G \in History
  BY <1>1 DEF History
<1>3. \A t \in Nat : G[t].leader = Nil /\ G[t].log = <<>> /\ Len(G[t].log) = 0
  BY <1>1
<1>4. PICK e : e = NoopEntry(0, 1)
  OBVIOUS
<1>5. \A s \in Server : /\ log[s] = <<e>> /\ Len(log[s]) = 1 /\ log[s][1] = e
                        /\ LastTerm(log[s]) = 1
  BY <1>4 DEF Init, LastTerm, NoopEntry
<1>6. e.term = 1
  BY <1>4 DEF NoopEntry
<1>7. GoodHistory(G)
  BY <1>2, <1>3 DEF GoodHistory
<1>8. Elected(G) /\ CompleteInv(G)
  BY <1>3 DEF Elected, CompleteInv
<1>9. PeerInv(G)
  <2> SUFFICES ASSUME NEW s \in Server
               PROVE  /\ log[s][1] = NoopEntry(0, 1) /\ snapshotIndex[s] = 0
                      /\ Len(log[s]) >= 2 => log[s][2].cmd = Noop
                      /\ currentTerm[s] >= 1
                      /\ Matches(G, log[s])
                      /\ \A i \in 1..Len(log[s]) : log[s][i].term <= LastTerm(log[s])
                      /\ LastTerm(log[s]) <= currentTerm[s]
                      /\ state[s] # "Leader"
    BY DEF PeerInv
  <2>1. currentTerm[s] = 1 /\ snapshotIndex[s] = 0 /\ state[s] = "Follower"
    BY DEF Init
  <2>2. Matches(G, log[s])
    BY <1>5 DEF Matches
  <2>3. \A i \in 1..Len(log[s]) : i = 1
    <3>1. Len(log[s]) = 1
      BY <1>5
    <3> QED
      BY <3>1
  <2> QED
    BY <1>4, <1>5, <1>6, <2>1, <2>2, <2>3
<1>10. PollInv(G)
  BY DEF PollInv, Init, Idle
<1>11. RequestInv(G) /\ MessageInv(G) /\ AppliedInv(G) /\ PromiseInv(G)
  BY DEF RequestInv, MessageInv, AppliedInv, PromiseInv, Init
<1>12. HasInv(G)
  BY <1>3 DEF HasInv, Has, Init
<1>13. CommitInv(G)
  BY <1>5 DEF CommitInv, Backed, Init
<1>14. MatchInv(G)
  <2> SUFFICES ASSUME NEW s \in Server
               PROVE  \E t \in 0..currentTerm[s] :
                          /\ state[s] = "Leader" => t = currentTerm[s]
                          /\ \A p \in Server : \/ matchIndex[s][p] <= 1
                                              \/ Has(G, appendAcks, p, t, matchIndex[s][p] + 1)
    BY DEF MatchInv
  <2>1. currentTerm[s] = 1 /\ state[s] # "Leader" /\ \A p \in Server : matchIndex[s][p] = 0
    BY DEF Init
  <2>2. 1 \in 0..currentTerm[s]
    BY <2>1
  <2> QED
    BY <2>1, <2>2
<1> QED
  BY <1>2, <1>7, <1>8, <1>9, <1>10, <1>11, <1>12, <1>13, <1>14 DEF SafeInv

-----------------------------------------------------------------------------
(* What the parts of the invariant depend on, while nobody wins, proposes  *)
(* or acknowledges anything.                                               *)
TermsGrow == \A s \in Server : currentTerm'[s] >= currentTerm[s]

(* Leaders are the ones there were.                                        *)
NoNewLeader == \A s \in Server : state'[s] = "Leader" =>
                   state[s] = "Leader" /\ currentTerm'[s] = currentTerm[s]

LEMMA GrowsSelf ==
    ASSUME NEW G \in History, NEW acks
    PROVE  Grows(G, G, acks, acks)
<1>1. \A t \in Nat : Len(G[t].log) \in Nat
  BY HistoryTypes
<1> QED
  BY <1>1 DEF Grows

LEMMA ElectedKept ==
    ASSUME TypeOK, TypeOK', NEW G, GoodHistory(G), Elected(G), TermsGrow,
           voteReps \subseteq voteReps'
    PROVE  Elected(G)'
<1> SUFFICES ASSUME NEW t \in Nat, G[t].log # <<>>
             PROVE  /\ t <= currentTerm'[G[t].leader]
                    /\ Majority(Ballots(G[t].leader, t)')
  BY DEF Elected
<1>1. PICK p : p = G[t].leader
  OBVIOUS
<1>2. p \in Server
  BY <1>1, HistoryTypes DEF GoodHistory
<1>3. t <= currentTerm[p] /\ Majority(Ballots(p, t))
  BY <1>1 DEF Elected
<1>4. currentTerm[p] \in Nat /\ currentTerm'[p] \in Nat /\ currentTerm'[p] >= currentTerm[p]
  BY <1>2 DEF TypeOK, TermsGrow
<1>5. voteReps' \subseteq VoteRep
  BY DEF TypeOK
<1>6. Majority(Ballots(p, t)')
  BY <1>2, <1>3, <1>5, ElectedStay
<1> QED
  BY <1>1, <1>3, <1>4, <1>6

LEMMA CompleteKept ==
    ASSUME TypeOK, TypeOK', NEW G \in History, CompleteInv(G), TermsGrow,
           appendAcks' = appendAcks
    PROVE  CompleteInv(G)'
<1> SUFFICES ASSUME NEW t \in Nat, NEW n \in Nat, Blocked(G, appendAcks, currentTerm, t, n)
             PROVE  Blocked(G, appendAcks, currentTerm', t, n)
  BY DEF CompleteInv
<1>1. \A p \in Server : /\ currentTerm[p] \in Nat /\ currentTerm'[p] \in Nat
                        /\ currentTerm'[p] >= currentTerm[p]
  BY DEF TypeOK, TermsGrow
<1>2. {p \in Server : currentTerm[p] > t /\ ~Has(G, appendAcks, p, t, n)}
      \subseteq {p \in Server : currentTerm'[p] > t /\ ~Has(G, appendAcks, p, t, n)}
  BY <1>1
<1> QED
  BY <1>2, MajorityGrows DEF Blocked

LEMMA HasKept ==
    ASSUME TypeOK, TypeOK', NEW G \in History, HasInv(G), TermsGrow,
           UNCHANGED <<log, appendAcks>>
    PROVE  HasInv(G)'
<1>1. \A p \in Server : /\ currentTerm[p] \in Nat /\ currentTerm'[p] \in Nat
                        /\ currentTerm'[p] >= currentTerm[p]
  BY DEF TypeOK, TermsGrow
<1>2. \A p \in Server, t \in Nat, n \in Nat :
          n >= 3 /\ Has(G, appendAcks, p, t, n) => t <= currentTerm'[p] /\ Ahead(log[p], t, n)
  BY <1>1 DEF HasInv
<1>3. \A p \in Server, t \in Nat, n \in Nat : Ahead(log[p], t, n)' <=> Ahead(log[p], t, n)
  BY DEF Ahead
<1> QED
  BY <1>2, <1>3 DEF HasInv

LEMMA PromiseKept ==
    ASSUME NEW G, PromiseInv(G), UNCHANGED <<voteReqs, voteReps, appendAcks>>
    PROVE  PromiseInv(G)'
<1>1. \A p, t : Ballots(p, t)' = Ballots(p, t)
  BY DEF Ballots
<1> QED
  BY <1>1 DEF PromiseInv

LEMMA AppliedKept ==
    ASSUME NEW G, AppliedInv(G), UNCHANGED <<applied, appendAcks>>
    PROVE  AppliedInv(G)'
BY DEF AppliedInv

LEMMA RequestKept ==
    ASSUME NEW G, RequestInv(G), UNCHANGED <<appendReqs, appendAcks>>
    PROVE  RequestInv(G)'
BY DEF RequestInv

LEMMA MessageKept ==
    ASSUME NEW G, MessageInv(G), UNCHANGED <<appendAcks, voteReqs, voteReps, snapReqs, snapReps>>
    PROVE  MessageInv(G)'
BY DEF MessageInv

LEMMA CommitKept ==
    ASSUME TypeOK, TypeOK', NEW G \in History, CommitInv(G), TermsGrow,
           UNCHANGED <<log, commitIndex, lastApplied, appendAcks>>
    PROVE  CommitInv(G)'
<1> SUFFICES ASSUME NEW s \in Server
             PROVE  /\ commitIndex[s] + 1 <= Len(log[s])
                    /\ Backed(G, appendAcks, log[s], commitIndex[s], currentTerm'[s])
                    /\ Backed(G, appendAcks, log[s], lastApplied[s], currentTerm'[s])
  BY DEF CommitInv
<1>1. /\ commitIndex[s] \in Nat /\ lastApplied[s] \in Nat
      /\ currentTerm[s] \in Nat /\ currentTerm'[s] \in Nat /\ currentTerm'[s] >= currentTerm[s]
  BY DEF TypeOK, TermsGrow
<1> QED
  BY <1>1, GrowsSelf, BackedGrows DEF CommitInv

LEMMA MatchKept ==
    ASSUME TypeOK, TypeOK', NEW G, MatchInv(G), TermsGrow, NoNewLeader,
           UNCHANGED <<matchIndex, appendAcks>>
    PROVE  MatchInv(G)'
<1>1. \A s \in Server : /\ currentTerm[s] \in Nat /\ currentTerm'[s] \in Nat
                        /\ currentTerm'[s] >= currentTerm[s]
  BY DEF TypeOK, TermsGrow
<1> SUFFICES ASSUME NEW s \in Server
             PROVE  \E t \in 0..currentTerm'[s] :
                        /\ state'[s] = "Leader" => t = currentTerm'[s]
                        /\ \A p \in Server : \/ matchIndex[s][p] <= 1
                                             \/ Has(G, appendAcks, p, t, matchIndex[s][p] + 1)
  BY DEF MatchInv
<1>2. PICK t \in 0..currentTerm[s] :
          /\ state[s] = "Leader" => t = currentTerm[s]
          /\ \A p \in Server : \/ matchIndex[s][p] <= 1
                               \/ Has(G, appendAcks, p, t, matchIndex[s][p] + 1)
  BY DEF MatchInv
<1>3. t \in 0..currentTerm'[s]
  BY <1>1
<1>4. state'[s] = "Leader" => t = currentTerm'[s]
  BY <1>2 DEF NoNewLeader
<1> QED
  BY <1>2, <1>3, <1>4

LEMMA PeersKept ==
    ASSUME TypeInv, TypeOK', NEW G, PeerInv(G), TermsGrow, NoNewLeader,
           UNCHANGED <<log, snapshotIndex>>
    PROVE  PeerInv(G)'
<1>1. \A s \in Server : /\ currentTerm[s] \in Nat /\ currentTerm'[s] \in Nat
                        /\ currentTerm'[s] >= currentTerm[s] /\ LastTerm(log[s]) \in Nat
  BY PeerLog DEF TypeInv, TypeOK, TermsGrow
<1>2. \A s \in Server : LastTerm(log[s])' = LastTerm(log[s])
  BY DEF LastTerm
<1> QED
  BY <1>1, <1>2 DEF PeerInv, NoNewLeader

LEMMA PollsKept ==
    ASSUME NEW G, PollInv(G), UNCHANGED log, voteReqs \subseteq voteReqs',
           \A s \in Server : campaign'[s].pc = "polling" =>
               /\ campaign'[s] = campaign[s]
               /\ state'[s] = "Candidate" =>
                     state[s] = "Candidate" /\ currentTerm'[s] = currentTerm[s]
    PROVE  PollInv(G)'
<1>1. \A s \in Server : LastTerm(log[s])' = LastTerm(log[s])
  BY DEF LastTerm
<1> QED
  BY <1>1 DEF PollInv

(* Polls go on as they were, or end.                                       *)
NoNewPoll == \A s \in Server : campaign'[s].pc = "polling" =>
                 /\ campaign'[s] = campaign[s]
                 /\ state'[s] = "Candidate" =>
                       state[s] = "Candidate" /\ currentTerm'[s] = currentTerm[s]

(* A step that touches no log, index or message.                           *)
LEMMA QuietKeeps ==
    ASSUME TypeInv, TypeInv', NEW G, SafeInv(G), TermsGrow, NoNewLeader, NoNewPoll,
           UNCHANGED <<log, snapshotIndex, commitIndex, lastApplied, matchIndex, voteReqs,
                       voteReps, appendReqs, appendAcks, snapReqs, snapReps, applied>>
    PROVE  SafeInv(G)'
<1>1. G \in History /\ GoodHistory(G) /\ TypeOK /\ TypeOK'
  BY DEF SafeInv, GoodHistory, TypeInv
<1>2. GoodHistory(G)'
  BY <1>1 DEF GoodHistory
<1>3. Elected(G)' /\ PeerInv(G)' /\ PollInv(G)'
  BY <1>1, ElectedKept, PeersKept, PollsKept DEF SafeInv, NoNewPoll
<1>4. RequestInv(G)' /\ MessageInv(G)' /\ HasInv(G)' /\ PromiseInv(G)'
  BY <1>1, RequestKept, MessageKept, HasKept, PromiseKept DEF SafeInv
<1>5. CompleteInv(G)' /\ CommitInv(G)' /\ MatchInv(G)' /\ AppliedInv(G)'
  BY <1>1, CompleteKept, CommitKept, MatchKept, AppliedKept DEF SafeInv
<1> QED
  BY <1>2, <1>3, <1>4, <1>5 DEF SafeInv

-----------------------------------------------------------------------------
(* Elections.                                                              *)
LEMMA SafeTicker ==
    ASSUME TypeInv, TypeInv', NEW G, SafeInv(G), NEW s \in Server, TickerFire(s)
    PROVE  SafeInv(G)'
<1> USE DEF leaderVars, network, votes, appends, snaps
<1>1. /\ \A p \in Server : p # s => campaign'[p] = campaign[p] /\ state'[p] = state[p]
      /\ campaign'[s].pc = "spawned" /\ state'[s] = "Candidate" /\ currentTerm' = currentTerm
  BY DEF TickerFire, TypeInv, TypeOK
<1>2. TermsGrow
  BY <1>1 DEF TermsGrow, TypeInv, TypeOK
<1>3. NoNewLeader /\ NoNewPoll
  BY <1>1 DEF NoNewLeader, NoNewPoll
<1>4. UNCHANGED <<log, snapshotIndex, commitIndex, lastApplied, matchIndex, voteReqs,
                  voteReps, appendReqs, appendAcks, snapReqs, snapReps, applied>>
  BY DEF TickerFire
<1> QED
  BY <1>2, <1>3, <1>4, QuietKeeps

LEMMA SafeElection ==
    ASSUME TypeInv, TypeInv', VoteInv, NEW G, SafeInv(G), NEW s \in Server, Election(s)
    PROVE  SafeInv(G)'
<1> USE DEF leaderVars, appends, snaps
<1>1. G \in History /\ GoodHistory(G) /\ TypeOK /\ TypeOK' /\ RequestsBind
  BY DEF SafeInv, GoodHistory, TypeInv, VoteInv
<1>2. PICK u \in Nat : u = currentTerm[s] + 1
  BY <1>1 DEF TypeOK
<1>3. PICK q : q = [from |-> s, term |-> u, lastLogIndex |-> GlobalLogLen(log[s]),
                    lastLogTerm |-> LastTerm(log[s])]
  OBVIOUS
<1>4. /\ q.from = s /\ q.term = u /\ q.lastLogIndex = Len(log[s])
      /\ q.lastLogTerm = LastTerm(log[s]) /\ voteReqs' = voteReqs \cup {q}
  BY <1>2, <1>3, PeerFacts DEF Election, SafeInv
<1>5. /\ \A p \in Server : p # s => /\ campaign'[p] = campaign[p]
                                    /\ currentTerm'[p] = currentTerm[p]
      /\ campaign'[s] = [pc |-> "polling", term |-> u] /\ currentTerm'[s] = u
      /\ currentTerm[s] \in Nat /\ u > currentTerm[s]
  BY <1>1, <1>2 DEF Election, TypeOK
<1>6. UNCHANGED <<state, log, snapshotIndex, commitIndex, lastApplied, matchIndex,
                  voteReps, appendReqs, appendAcks, snapReqs, snapReps, applied>>
  BY DEF Election
<1>7. TermsGrow
  BY <1>1, <1>5, VoteTypes DEF TermsGrow
<1>8. state[s] # "Leader"
  BY DEF Election, VoteInv, PollsInTerm
<1>9. NoNewLeader
  BY <1>5, <1>6, <1>8 DEF NoNewLeader
<1>10. GoodHistory(G)' /\ Elected(G)' /\ PeerInv(G)'
  <2>1. GoodHistory(G)'
    BY <1>1 DEF GoodHistory
  <2> QED
    BY <1>1, <1>6, <1>7, <1>9, <2>1, ElectedKept, PeersKept DEF SafeInv
<1>11. RequestInv(G)' /\ HasInv(G)' /\ CompleteInv(G)' /\ CommitInv(G)' /\ MatchInv(G)'
       /\ AppliedInv(G)'
  BY <1>1, <1>6, <1>7, <1>9, RequestKept, HasKept, CompleteKept, CommitKept, MatchKept,
     AppliedKept DEF SafeInv
\* Nobody has asked for votes in this term as s, answered s in it, or led it as s.
<1>12. \A m \in voteReqs : m.from = s => m.term # u
  BY <1>1, <1>5, VoteTypes DEF RequestsBind
<1>13. MessageInv(G)'
  <2>1. \A m, k \in voteReqs' : m.from = k.from /\ m.term = k.term => m = k
    BY <1>4, <1>12 DEF SafeInv, MessageInv
  <2>2. \A r \in voteReps' : \E m \in voteReqs' : m.from = r.to /\ m.term = r.term
    BY <1>4, <1>6 DEF SafeInv, MessageInv
  <2> QED
    BY <1>6, <2>1, <2>2 DEF SafeInv, MessageInv
<1>14. \A r \in voteReps : r.to = s => r.term # u
  BY <1>12 DEF SafeInv, MessageInv
<1>15. G[u].leader # s
  <2>1. s # Nil
    BY ServerAssumption
  <2>2. G[u].leader = s => G[u].log # <<>>
    BY <1>1, <2>1 DEF GoodHistory
  <2>3. G[u].log # <<>> => u <= currentTerm[G[u].leader]
    BY DEF SafeInv, Elected
  <2> QED
    BY <1>5, <2>2, <2>3
<1>16. PollInv(G)'
  <2>1. \A p \in Server : LastTerm(log[p])' = LastTerm(log[p])
    BY <1>6 DEF LastTerm
  <2> SUFFICES ASSUME NEW p \in Server, campaign'[p].pc = "polling"
               PROVE  /\ G[campaign'[p].term].leader # p
                      /\ state'[p] = "Candidate" =>
                            \E m \in voteReqs' : /\ m.from = p /\ m.term = currentTerm'[p]
                                                 /\ m.lastLogIndex = Len(log[p])
                                                 /\ m.lastLogTerm = LastTerm(log[p])
    BY <1>6, <2>1 DEF PollInv
  <2>2. CASE p = s
    BY <1>4, <1>5, <1>15, <2>2
  <2>3. CASE p # s
    BY <1>4, <1>5, <1>6, <2>3 DEF SafeInv, PollInv
  <2> QED
    BY <2>2, <2>3
\* s itself is the only one that votes for s yet.
<1>17. PromiseInv(G)'
  <2> SUFFICES ASSUME NEW m \in voteReqs', NEW p \in Ballots(m.from, m.term)',
                      NEW t \in Nat, NEW n \in Nat, n >= 3, t < m.term,
                      Has(G, appendAcks, p, t, n)
               PROVE  Beats(m, t, n)
    BY <1>6 DEF PromiseInv
  <2>1. p \in Ballots(m.from, m.term)
    BY <1>6 DEF Ballots
  <2>2. CASE m \in voteReqs
    BY <2>1, <2>2 DEF SafeInv, PromiseInv
  <2>3. CASE m = q
    <3>1. p = s
      BY <1>4, <1>14, <2>1, <2>3 DEF Ballots
    <3>2. Ahead(log[s], t, n)
      BY <3>1 DEF SafeInv, HasInv
    <3> QED
      BY <1>4, <2>3, <3>2 DEF Ahead, Beats
  <2> QED
    BY <1>4, <2>2, <2>3
<1> QED
  BY <1>10, <1>11, <1>13, <1>16, <1>17 DEF SafeInv

LEMMA SafeRequestVote ==
    ASSUME TypeInv, TypeInv', NEW G, SafeInv(G), NEW s \in Server,
           NEW m \in voteReqs, RequestVote(s, m)
    PROVE  SafeInv(G)'
<1> USE DEF leaderVars, goroutines, appends, snaps
<1>1. G \in History /\ GoodHistory(G) /\ TypeOK /\ TypeOK'
  BY DEF SafeInv, GoodHistory, TypeInv
<1>2. PICK grant \in BOOLEAN :
          grant = (/\ IsUpToDate(log[s], m.lastLogIndex, m.lastLogTerm)
                   /\ VotedIn(s, m.term) \in {Nil, m.from})
  OBVIOUS
<1>3. /\ \A p \in Server : p # s => currentTerm'[p] = currentTerm[p] /\ state'[p] = state[p]
      /\ currentTerm'[s] = m.term /\ state'[s] = "Follower"
      /\ m.from \in Server /\ m.term \in Nat /\ m.term >= currentTerm[s] /\ currentTerm[s] \in Nat
  BY <1>1, VoteTypes DEF RequestVote, TypeOK
<1>4. UNCHANGED <<log, snapshotIndex, commitIndex, lastApplied, matchIndex, campaign, voteReqs,
                  appendReqs, appendAcks, snapReqs, snapReps, applied>>
  BY DEF RequestVote
<1>5. TermsGrow
  BY <1>1, <1>3, VoteTypes DEF TermsGrow
<1>6. NoNewLeader /\ NoNewPoll
  BY <1>3, <1>4 DEF NoNewLeader, NoNewPoll
<1>7. CASE ~grant
  <2>1. voteReps' = voteReps
    BY <1>2, <1>7 DEF RequestVote
  <2> QED
    BY <1>4, <1>5, <1>6, <2>1, QuietKeeps
<1>8. CASE grant
  <2>1. PICK v : v = [from |-> s, to |-> m.from, term |-> m.term]
    OBVIOUS
  <2>2. v.from = s /\ v.to = m.from /\ v.term = m.term /\ voteReps' = voteReps \cup {v}
    BY <1>2, <1>8, <2>1 DEF RequestVote
  <2>3. GoodHistory(G)' /\ Elected(G)' /\ PeerInv(G)' /\ PollInv(G)'
    <3>1. GoodHistory(G)'
      BY <1>1 DEF GoodHistory
    <3> QED
      BY <1>1, <1>4, <1>5, <1>6, <2>2, <3>1, ElectedKept, PeersKept, PollsKept
      DEF SafeInv, NoNewPoll
  <2>4. RequestInv(G)' /\ HasInv(G)' /\ CompleteInv(G)' /\ CommitInv(G)' /\ MatchInv(G)'
        /\ AppliedInv(G)'
    BY <1>1, <1>4, <1>5, <1>6, RequestKept, HasKept, CompleteKept, CommitKept, MatchKept,
       AppliedKept DEF SafeInv
  <2>5. MessageInv(G)'
    <3>1. \A r \in voteReps' : \E q \in voteReqs' : q.from = r.to /\ q.term = r.term
      BY <1>4, <2>2 DEF SafeInv, MessageInv
    <3> QED
      BY <1>4, <3>1 DEF SafeInv, MessageInv
  \* s votes for a log at least as up to date as its own.
  <2>6. PromiseInv(G)'
    <3> SUFFICES ASSUME NEW q \in voteReqs, NEW p \in Ballots(q.from, q.term)',
                        NEW t \in Nat, NEW n \in Nat, n >= 3, t < q.term,
                        Has(G, appendAcks, p, t, n)
                 PROVE  Beats(q, t, n)
      BY <1>4 DEF PromiseInv
    <3>1. CASE p \in Ballots(q.from, q.term)
      BY <3>1 DEF SafeInv, PromiseInv
    <3>2. CASE p \notin Ballots(q.from, q.term)
      <4>1. p = s /\ q.from = m.from /\ q.term = m.term
        BY <2>2, <3>2 DEF Ballots
      <4>2. q = m
        BY <4>1 DEF SafeInv, MessageInv
      <4>3. Ahead(log[s], t, n)
        BY <4>1 DEF SafeInv, HasInv
      <4>4. /\ \/ m.lastLogTerm > LastTerm(log[s])
               \/ m.lastLogTerm = LastTerm(log[s]) /\ m.lastLogIndex >= Len(log[s])
            /\ m.lastLogTerm \in Nat /\ m.lastLogIndex \in Nat
            /\ LastTerm(log[s]) \in Nat /\ Len(log[s]) \in Nat
        <5>1. IsUpToDate(log[s], m.lastLogIndex, m.lastLogTerm)
          BY <1>2, <1>8
        <5>2. /\ GlobalLogLen(log[s]) = Len(log[s]) /\ Len(log[s]) \in Nat
              /\ LastTerm(log[s]) \in Nat
          BY PeerFacts DEF SafeInv
        <5>3. m.lastLogTerm \in Nat /\ m.lastLogIndex \in Nat
          BY <1>1 DEF TypeOK, VoteReq
        <5> QED
          BY <5>1, <5>2, <5>3 DEF IsUpToDate
      <4> QED
        BY <4>2, <4>3, <4>4 DEF Ahead, Beats
    <3> QED
      BY <3>1, <3>2
  <2> QED
    BY <2>3, <2>4, <2>5, <2>6 DEF SafeInv
<1> QED
  BY <1>7, <1>8

-----------------------------------------------------------------------------
(* Steps of one peer that change no log: replies, commitment, application, *)
(* restarts.                                                               *)
(* A step that changes no log, no term and no message: commit index, last  *)
(* applied index, matchIndex and what was applied are left to look at.     *)
LEMMA LocalKeeps ==
    ASSUME TypeInv, TypeInv', NEW G, SafeInv(G), NoNewPoll,
           UNCHANGED <<state, currentTerm, log, snapshotIndex, voteReqs, voteReps,
                       appendReqs, appendAcks, snapReqs, snapReps>>,
           CommitInv(G)', MatchInv(G)', AppliedInv(G)'
    PROVE  SafeInv(G)'
<1>1. G \in History /\ GoodHistory(G) /\ TypeOK /\ TypeOK'
  BY DEF SafeInv, GoodHistory, TypeInv
<1>2. TermsGrow
  BY <1>1, VoteTypes DEF TermsGrow
<1>3. NoNewLeader
  BY DEF NoNewLeader
<1>4. GoodHistory(G)' /\ Elected(G)' /\ PeerInv(G)' /\ PollInv(G)'
  <2>1. GoodHistory(G)'
    BY <1>1 DEF GoodHistory
  <2> QED
    BY <1>1, <1>2, <1>3, <2>1, ElectedKept, PeersKept, PollsKept DEF SafeInv, NoNewPoll
<1>5. RequestInv(G)' /\ MessageInv(G)' /\ HasInv(G)' /\ PromiseInv(G)' /\ CompleteInv(G)'
  BY <1>1, <1>2, RequestKept, MessageKept, HasKept, PromiseKept, CompleteKept DEF SafeInv
<1> QED
  BY <1>4, <1>5 DEF SafeInv

LEMMA SafeSuccess ==
    ASSUME TypeInv, TypeInv', NEW G, SafeInv(G), Races = {}, NEW s \in Server,
           NEW r \in appendAcks, AppendSuccess(s, r)
    PROVE  SafeInv(G)'
<1> USE DEF persistent, goroutines, network, votes, appends, snaps
<1>1. G \in History /\ GoodHistory(G) /\ TypeOK /\ TypeOK'
  BY DEF SafeInv, GoodHistory, TypeInv
<1>2. UNCHANGED <<state, currentTerm, log, snapshotIndex, commitIndex, lastApplied, campaign,
                  voteReqs, voteReps, appendReqs, appendAcks, snapReqs, snapReps, applied>>
  BY DEF AppendSuccess
<1>3. TermsGrow
  BY <1>1, <1>2, VoteTypes DEF TermsGrow
<1>4. NoNewPoll
  BY <1>2 DEF NoNewPoll
<1>5. state[s] = "Leader" /\ currentTerm[s] = r.session
  BY DEF AppendSuccess, Awaits
<1>6. r.from \in Server /\ r.session \in Nat /\ r.next \in Nat /\ r.next >= 2
  BY <1>1 DEF TypeOK, AppendAck, SafeInv, MessageInv
<1>7. MatchInv(G)'
  <2> SUFFICES ASSUME NEW x \in Server
               PROVE  \E t \in 0..currentTerm[x] :
                          /\ state[x] = "Leader" => t = currentTerm[x]
                          /\ \A p \in Server :
                                \/ matchIndex'[x][p] <= 1
                                \/ Has(G, appendAcks, p, t, matchIndex'[x][p] + 1)
    BY <1>2 DEF MatchInv
  <2>1. PICK t \in 0..currentTerm[x] :
            /\ state[x] = "Leader" => t = currentTerm[x]
            /\ \A p \in Server : \/ matchIndex[x][p] <= 1
                                 \/ Has(G, appendAcks, p, t, matchIndex[x][p] + 1)
    BY DEF SafeInv, MatchInv
  <2>2. CASE x # s
    <3>1. matchIndex'[x] = matchIndex[x]
      BY <1>1, <2>2 DEF AppendSuccess, TypeOK
    <3> QED
      BY <2>1, <3>1
  <2>3. CASE x = s
    <3>1. t = r.session
      BY <1>5, <2>1, <2>3
    <3>2. /\ \A p \in Server : p # r.from => matchIndex'[s][p] = matchIndex[s][p]
          /\ matchIndex'[s][r.from] = matchIndex[s][r.from] \/ matchIndex'[s][r.from] = r.next - 1
      BY <1>1, <1>6 DEF AppendSuccess, TypeOK
    <3>3. Has(G, appendAcks, r.from, t, r.next)
      BY <1>6, <3>1 DEF Has
    <3>4. r.next - 1 + 1 = r.next
      BY <1>6
    <3> QED
      BY <2>1, <2>3, <3>2, <3>3, <3>4
  <2> QED
    BY <2>2, <2>3
<1>8. CommitInv(G)' /\ AppliedInv(G)'
  BY <1>1, <1>2, <1>3, CommitKept, AppliedKept DEF SafeInv
<1> QED
  BY <1>2, <1>4, <1>7, <1>8, LocalKeeps

LEMMA SafeCommitCheck ==
    ASSUME TypeInv, TypeInv', NEW G, SafeInv(G), NEW s \in Server, CommitCheck(s)
    PROVE  SafeInv(G)'
<1> USE DEF persistent, leaderVars, goroutines, network, votes, appends, snaps
<1>1. /\ G \in History /\ GoodHistory(G) /\ TypeOK /\ TypeOK' /\ PeerInv(G) /\ CompleteInv(G)
      /\ appendAcks \subseteq AppendAck
  BY DEF SafeInv, GoodHistory, TypeInv, TypeOK
<1>2. UNCHANGED <<state, currentTerm, log, snapshotIndex, lastApplied, matchIndex, campaign,
                  voteReqs, voteReps, appendReqs, appendAcks, snapReqs, snapReps, applied>>
  BY DEF CommitCheck
<1>3. PICK n \in Replicated(s) :
          /\ \/ LocalIndex(log[s], n) < 0
             \/ InLog(log[s], n) /\ At(log[s], n).term = currentTerm[s]
          /\ commitIndex' = [commitIndex EXCEPT ![s] = n]
  BY DEF CommitCheck
<1>4. /\ Len(log[s]) \in Nat /\ log[s][1].index = 0 /\ GlobalLogLen(log[s]) = Len(log[s])
      /\ currentTerm[s] \in Nat /\ commitIndex[s] \in Nat
  BY <1>1, PeerFacts DEF TypeOK
<1>5. n \in Nat /\ Majority({p \in Server : matchIndex[s][p] >= n})
  <2>1. n \in (commitIndex[s] + 1)..Len(log[s]) /\ Majority({p \in Server : matchIndex[s][p] >= n})
    BY <1>4, Zenon DEF Replicated
  <2> QED
    BY <1>4, <2>1
<1>6. n + 1 <= Len(log[s]) /\ log[s][n + 1].term = currentTerm[s]
  <2>1. LocalIndex(log[s], n) = n
    BY <1>4, <1>5 DEF LocalIndex
  <2> QED
    BY <1>3, <1>4, <1>5, <2>1 DEF InLog, At
<1>7. Backed(G, appendAcks, log[s], n, currentTerm[s])
  <2>1. CASE n <= 1
    BY <2>1 DEF Backed
  <2>2. CASE n >= 2
    <3>1. PICK c \in Nat : c = currentTerm[s]
      BY <1>4
    <3>2. n + 1 \in 2..Len(log[s])
      BY <1>4, <1>5, <1>6, <2>2
    <3>3. /\ n + 1 <= Len(G[c].log) /\ G[c].log[n + 1].term = c /\ Same(log[s], G[c].log, n + 1)
      BY <1>1, <1>6, <3>1, <3>2 DEF PeerInv, Matches
    \* matchIndex is of one term t, in which n is decided ...
    <3>4. PICK t \in 0..currentTerm[s] :
              \A p \in Server : matchIndex[s][p] <= 1 \/ Has(G, appendAcks, p, t, matchIndex[s][p] + 1)
      BY DEF SafeInv, MatchInv
    <3>5. t \in Nat /\ t <= c /\ n + 1 \in Nat /\ n + 1 >= 3 /\ Len(G[t].log) \in Nat
      BY <1>1, <1>5, <2>2, <3>1, HistoryTypes
    <3>6. \A p \in Server : matchIndex[s][p] >= n => Has(G, appendAcks, p, t, n + 1)
      <4> SUFFICES ASSUME NEW p \in Server, matchIndex[s][p] >= n
                   PROVE  Has(G, appendAcks, p, t, n + 1)
        OBVIOUS
      <4>1. PICK k \in Nat : k = matchIndex[s][p] + 1
        BY <1>1 DEF TypeOK
      <4>2. matchIndex[s][p] \in Nat
        BY <1>1 DEF TypeOK
      <4>3. Has(G, appendAcks, p, t, k) /\ n + 1 <= k
        BY <1>5, <2>2, <3>4, <4>1, <4>2
      <4> QED
        BY <1>1, <3>5, <4>3, HasShorter
    <3>7. Majority({p \in Server : Has(G, appendAcks, p, t, n + 1)})
      <4>1. {p \in Server : matchIndex[s][p] >= n}
                \subseteq {p \in Server : Has(G, appendAcks, p, t, n + 1)}
        BY <3>6
      <4> QED
        BY <1>5, <4>1, MajorityGrows
    <3>8. n + 1 <= Len(G[t].log)
      <4>1. PICK p \in Server : Has(G, appendAcks, p, t, n + 1)
        BY <3>7, MajoritiesMeet
      <4>2. \A r \in appendAcks : r.next \in Nat /\ r.next <= Len(G[r.session].log)
        BY <1>1 DEF AppendAck, SafeInv, MessageInv
      <4> QED
        BY <3>5, <4>1, <4>2 DEF Has
    <3>9. Chosen(G, appendAcks, t, n + 1)
      BY <3>7, <3>8 DEF Chosen
    \* ... and no earlier leader has the entry of the current one.
    <3>10. t = c
      <4> SUFFICES ASSUME t < c PROVE FALSE
        BY <3>5
      <4>1. G[c].log # <<>> /\ G[t].log # <<>>
        BY <1>1, <1>5, <3>3, <3>5, <3>8, HistoryTypes
      <4>2. Same(G[c].log, G[t].log, n + 1)
        BY <1>1, <3>5, <3>9, <4>1, ChosenKept
      <4>3. G[c].log[n + 1] = G[t].log[n + 1]
        BY <3>5, <4>2 DEF Same
      <4>4. G[t].log[n + 1].term <= t
        BY <1>1, <3>5, <3>8, <4>1 DEF GoodHistory
      <4> QED
        BY <3>3, <3>5, <4>3, <4>4
    <3> QED
      BY <3>1, <3>3, <3>4, <3>9, <3>10 DEF Backed
  <2> QED
    BY <1>5, <2>1, <2>2
<1>8. CommitInv(G)'
  <2>1. /\ \A p \in Server : p # s => commitIndex'[p] = commitIndex[p]
        /\ commitIndex'[s] = n
    BY <1>1, <1>3 DEF TypeOK
  <2> QED
    BY <1>2, <1>6, <1>7, <2>1 DEF SafeInv, CommitInv
<1>9. MatchInv(G)' /\ AppliedInv(G)'
  BY <1>2, AppliedKept DEF SafeInv, MatchInv
<1>10. NoNewPoll
  BY <1>2 DEF NoNewPoll
<1> QED
  BY <1>2, <1>8, <1>9, <1>10, LocalKeeps

LEMMA SafeApplyEntries ==
    ASSUME TypeInv, TypeInv', NEW G, SafeInv(G), NEW s \in Server, ApplyEntries(s)
    PROVE  SafeInv(G)'
<1> USE DEF persistent, leaderVars, goroutines, network, votes, appends, snaps
<1>1. /\ G \in History /\ GoodHistory(G) /\ TypeOK /\ TypeOK' /\ PeerInv(G)
      /\ appendAcks \subseteq AppendAck
  BY DEF SafeInv, GoodHistory, TypeInv, TypeOK
<1>2. UNCHANGED <<state, currentTerm, log, snapshotIndex, commitIndex, matchIndex, campaign,
                  voteReqs, voteReps, appendReqs, appendAcks, snapReqs, snapReps>>
  BY DEF ApplyEntries
<1>3. /\ Len(log[s]) \in Nat /\ log[s][1].index = 0 /\ LastIndex(log[s]) = Len(log[s]) - 1
      /\ currentTerm[s] \in Nat /\ commitIndex[s] \in Nat /\ lastApplied[s] \in Nat
  BY <1>1, PeerFacts DEF TypeOK
<1>4. /\ commitIndex[s] + 1 <= Len(log[s])
      /\ Backed(G, appendAcks, log[s], commitIndex[s], currentTerm[s])
  BY DEF SafeInv, CommitInv
<1>5. PICK c \in Nat : c = commitIndex[s] /\ ApplyUpTo(s) = c
  BY <1>3, <1>4 DEF ApplyUpTo
<1>6. CommitInv(G)'
  <2>1. /\ \A p \in Server : p # s => lastApplied'[p] = lastApplied[p]
        /\ lastApplied'[s] = c
    BY <1>1, <1>5 DEF ApplyEntries, TypeOK
  <2> QED
    BY <1>2, <1>4, <1>5, <2>1 DEF SafeInv, CommitInv
<1>7. AppliedInv(G)'
  <2> SUFFICES ASSUME NEW a \in applied' PROVE \E t \in Nat, n \in Nat : Handed(G, appendAcks, a, t, n)
    BY <1>2 DEF AppliedInv
  <2>1. CASE a \in applied
    BY <2>1 DEF SafeInv, AppliedInv
  <2>2. CASE a \notin applied
    <3>1. PICK i \in (lastApplied[s] + 1)..c :
              /\ At(log[s], i).cmd # Noop
              /\ a = <<ExternalIndex(log[s], snapshotIndex[s], i), At(log[s], i).cmd>>
      BY <1>5, <2>2 DEF ApplyEntries
    <3>2. i \in Nat /\ i >= 1 /\ i <= c /\ LocalIndex(log[s], i) = i
      BY <1>3, <1>5 DEF LocalIndex
    <3>3. snapshotIndex[s] = 0 /\ (Len(log[s]) >= 2 => log[s][2].cmd = Noop)
      BY <1>1 DEF PeerInv
    <3>4. log[s][i + 1].cmd # Noop /\ a[2] = log[s][i + 1].cmd
      BY <3>1, <3>2 DEF At
    <3>5. i >= 2
      <4>1. 1 + 1 = 2 /\ Len(log[s]) >= 2
        BY <1>3, <1>4, <1>5, <3>2
      <4>2. i # 1
        BY <3>3, <3>4, <4>1
      <4> QED
        BY <3>2, <4>2
    <3>6. a[1] = CommandCount(log[s], 1, i)
      <4>1. Cardinality({k \in 1..i : log[s][k + 1].cmd # Noop}) \in Nat
        <5>1. PICK A : A = {k \in 1..i : log[s][k + 1].cmd # Noop}
          OBVIOUS
        <5>2. A \subseteq 1..i /\ IsFiniteSet(1..i)
          BY <3>2, <5>1, FS_Interval
        <5>3. Cardinality(A) \in Nat
          BY <5>2, FS_Subset, FS_CardinalityType
        <5> QED
          BY <5>1, <5>3
      <4> QED
        BY <3>1, <3>2, <3>3, <4>1 DEF ExternalIndex, CommandCount
    <3>7. PICK t \in 0..currentTerm[s] : Chosen(G, appendAcks, t, c + 1) /\ Same(log[s], G[t].log, c + 1)
      BY <1>4, <1>5, <3>2, <3>5 DEF Backed
    <3>8. PICK n \in Nat : n = i + 1 /\ n >= 3 /\ n <= c + 1 /\ n - 1 = i
      BY <3>2, <3>5
    <3>9. t \in Nat /\ Len(G[t].log) \in Nat
      BY <1>1, <1>3, HistoryTypes
    <3>10. Chosen(G, appendAcks, t, n)
      BY <1>1, <3>7, <3>8, <3>9, ChosenShorter
    <3>11. Same(log[s], G[t].log, n)
      BY <1>3, <3>7, <3>8, <3>9, SameShorter
    <3>12. log[s][n] = G[t].log[n]
      BY <3>8, <3>11 DEF Same
    <3>13. G[t].log[2].cmd = Noop /\ log[s][2].cmd = Noop
      <4>1. n <= Len(G[t].log) /\ n <= Len(log[s])
        BY <3>11 DEF Same
      <4>2. G[t].log # <<>>
        BY <1>1, <3>8, <3>9, <4>1, HistoryTypes
      <4>3. G[t].log[2].cmd = Noop
        BY <1>1, <3>9, <4>2 DEF GoodHistory
      <4>4. Len(log[s]) >= 2
        BY <1>3, <3>8, <4>1
      <4> QED
        BY <1>1, <1>3, <3>3, <4>3, <4>4
    <3>14. CommandCount(log[s], 1, n - 1) = CommandCount(G[t].log, 1, n - 1)
      BY <3>11, <3>13, CountSame
    <3>15. Handed(G, appendAcks, a, t, n)
      BY <3>4, <3>6, <3>8, <3>10, <3>12, <3>14 DEF Handed
    <3> QED
      BY <3>9, <3>15
  <2> QED
    BY <2>1, <2>2
<1>8. MatchInv(G)'
  BY <1>2 DEF SafeInv, MatchInv
<1>9. NoNewPoll
  BY <1>2 DEF NoNewPoll
<1> QED
  BY <1>2, <1>6, <1>7, <1>8, <1>9, LocalKeeps

LEMMA SafeRestart ==
    ASSUME TypeInv, TypeInv', NEW G, SafeInv(G), NEW s \in Server, Restart(s)
    PROVE  SafeInv(G)'
<1> USE DEF network, votes, appends, snaps
<1>1. G \in History /\ GoodHistory(G) /\ TypeOK /\ TypeOK' /\ PeerInv(G)
  BY DEF SafeInv, GoodHistory, TypeInv
<1>2. UNCHANGED <<state, currentTerm, snapshotIndex, voteReqs, voteReps, appendReqs, appendAcks,
                  snapReqs, snapReps, applied>>
  BY DEF Restart, Reboot
<1>3. log' = log
  BY <1>1 DEF Restart, Reboot, Recovered, TypeOK
<1>4. /\ \A p \in Server : p # s => /\ commitIndex'[p] = commitIndex[p]
                                    /\ lastApplied'[p] = lastApplied[p]
                                    /\ matchIndex'[p] = matchIndex[p]
                                    /\ campaign'[p] = campaign[p]
      /\ commitIndex'[s] = 0 /\ campaign'[s].pc = "idle"
      /\ \A p \in Server : matchIndex'[s][p] = 0
  BY <1>1 DEF Restart, Reboot, Idle, TypeOK
<1>5. lastApplied'[s] \in {0, 1}
  <2>1. log[s][1].index = 0
    BY <1>1, PeerFacts
  <2> QED
    BY <1>1, <2>1 DEF Restart, Reboot, TypeOK
<1>6. Len(log[s]) \in Nat /\ Len(log[s]) >= 1 /\ currentTerm[s] \in Nat
  BY <1>1, PeerFacts
<1>7. CommitInv(G)'
  <2> SUFFICES ASSUME NEW p \in Server
               PROVE  /\ commitIndex'[p] + 1 <= Len(log[p])
                      /\ Backed(G, appendAcks, log[p], commitIndex'[p], currentTerm[p])
                      /\ Backed(G, appendAcks, log[p], lastApplied'[p], currentTerm[p])
    BY <1>2, <1>3 DEF CommitInv
  <2>1. CASE p = s
    BY <1>4, <1>5, <1>6, <2>1 DEF Backed
  <2>2. CASE p # s
    BY <1>4, <2>2 DEF SafeInv, CommitInv
  <2> QED
    BY <2>1, <2>2
<1>8. MatchInv(G)'
  <2> SUFFICES ASSUME NEW x \in Server
               PROVE  \E t \in 0..currentTerm[x] :
                          /\ state[x] = "Leader" => t = currentTerm[x]
                          /\ \A p \in Server :
                                \/ matchIndex'[x][p] <= 1
                                \/ Has(G, appendAcks, p, t, matchIndex'[x][p] + 1)
    BY <1>2 DEF MatchInv
  <2>1. CASE x = s
    <3>1. currentTerm[s] \in 0..currentTerm[s]
      BY <1>6
    <3> QED
      BY <1>4, <2>1, <3>1
  <2>2. CASE x # s
    BY <1>4, <2>2 DEF SafeInv, MatchInv
  <2> QED
    BY <2>1, <2>2
<1>9. AppliedInv(G)'
  BY <1>2, AppliedKept DEF SafeInv
<1>10. NoNewPoll
  BY <1>2, <1>4 DEF NoNewPoll
<1> QED
  BY <1>2, <1>3, <1>7, <1>8, <1>9, <1>10, LocalKeeps

(* Refusals and what leaders make of them: only nextIndex changes, and no  *)
(* leader without snapshots has to send one.                               *)
LEMMA SafeRefusals ==
    ASSUME TypeInv, TypeInv', NEW G, SafeInv(G), NEW s \in Server,
           (\E m \in appendReqs : AppendRefuse(s, m)) \/ (\E r \in appendNacks : BackUp(s, r))
    PROVE  SafeInv(G)'
<1> USE DEF persistent, leaderVars, goroutines, network, votes, appends, snaps
<1>1. UNCHANGED <<state, currentTerm, log, snapshotIndex, commitIndex, lastApplied, matchIndex,
                  campaign, voteReqs, voteReps, appendReqs, appendAcks, snapReqs, snapReps,
                  applied>>
  BY DEF AppendRefuse, BackUp
<1>2. TermsGrow
  BY <1>1, VoteTypes DEF TermsGrow, TypeInv
<1>3. NoNewLeader /\ NoNewPoll
  BY <1>1 DEF NoNewLeader, NoNewPoll
<1> QED
  BY <1>1, <1>2, <1>3, QuietKeeps

LEMMA NoSnapshotSent ==
    ASSUME TypeInv, NEW G, SafeInv(G), NEW s \in Server, NEW r \in appendNacks
    PROVE  ~SendSnapshot(s, r)
<1>1. log[s][1].index = 0
  BY PeerFacts DEF SafeInv
<1>2. r.lastIndex \in Nat /\ r.lastApplied \in Nat
  BY DEF TypeInv, TypeOK, AppendNack
<1>3. ~Case5(log[s], r, r)
  BY <1>1, <1>2 DEF Case5, LocalIndex
<1> QED
  BY <1>3 DEF SendSnapshot

-----------------------------------------------------------------------------
(* A leader's requests.                                                    *)
LEMMA SafeSync ==
    ASSUME TypeInv, TypeInv', NEW G, SafeInv(G), Races = {}, NEW s \in Server,
           NEW u \in live[s], SyncEntries(s, u)
    PROVE  SafeInv(G)'
<1> USE DEF persistent, leaderVars, goroutines, votes, snaps
<1>1. G \in History /\ GoodHistory(G) /\ TypeOK /\ TypeOK' /\ PeerInv(G)
  BY DEF SafeInv, GoodHistory, TypeInv
<1>2. UNCHANGED <<state, currentTerm, log, snapshotIndex, commitIndex, lastApplied, matchIndex,
                  campaign, voteReqs, voteReps, appendAcks, snapReqs, snapReps, applied>>
  BY DEF SyncEntries
<1>3. state[s] = "Leader" /\ currentTerm[s] = u
  BY DEF SyncEntries
<1>4. u \in Nat /\ G[u].log = log[s] /\ G[u].log # <<>> /\ G[u].leader = s
  BY <1>1, <1>3, LeaderLog
<1>5. PICK l : l = log[s]
  OBVIOUS
<1>6. /\ l \in Seq(Entry) /\ Len(l) \in Nat /\ Len(l) >= 2 /\ l[1].index = 0
      /\ GlobalLogLen(l) = Len(l) /\ l[Len(l)].term = u
  BY <1>1, <1>4, <1>5, PeerFacts DEF GoodHistory
<1>7. /\ commitIndex[s] + 1 <= Len(l) /\ commitIndex[s] \in Nat
      /\ Backed(G, appendAcks, l, commitIndex[s], u)
  BY <1>1, <1>3, <1>5 DEF SafeInv, CommitInv, TypeOK
<1>8. ASSUME NEW p \in Server, p # s, NEW m,
             m = LET a == AppendArgs(log[s], nextIndex[s][p])
                 IN  [from |-> s, to |-> p, inc |-> crashes[s], session |-> u,
                      term |-> currentTerm[s], prev |-> a.prev, prevTerm |-> a.prevTerm,
                      entries |-> a.entries, commit |-> commitIndex[s]]
      PROVE  GoodRequest(G, appendAcks, m)
  <2>1. PICK real \in Nat : real = RealNextIndex(l, nextIndex[s][p]) /\ real >= 1 /\ real <= Len(l)
    <3>1. nextIndex[s][p] \in Nat
      BY <1>1 DEF TypeOK
    <3> QED
      BY <1>6, <3>1 DEF RealNextIndex, GlobalIndex
  <2>2. /\ m.session = u /\ m.term = u /\ m.from = s /\ m.to = p /\ m.commit = commitIndex[s]
        /\ m.prev = real - 1 /\ m.prevTerm = At(l, real - 1).term /\ m.entries = From(l, real)
    BY <1>3, <1>5, <1>8, <2>1 DEF AppendArgs
  <2>3. /\ LocalIndex(l, real - 1) = real - 1 /\ LocalIndex(l, real) = real
    BY <1>6, <2>1 DEF LocalIndex
  <2>4. m.prevTerm = l[real].term
    <3>1. real - 1 + 1 = real
      BY <2>1
    <3> QED
      BY <2>2, <2>3, <3>1 DEF At
  <2>5. PICK es : es = SubSeq(l, real + 1, Len(l))
    OBVIOUS
  <2>6. m.entries = es
    BY <2>2, <2>3, <2>5 DEF From
  <2>7. Len(es) = Len(l) - real /\ \A i \in 1..(Len(l) - real) : es[i] = l[real + i]
    <3>1. \A i \in (real + 1)..Len(l) : l[i] \in Entry
      BY <1>6, <2>1, ElementOfSeq
    <3>2. /\ Len(es) = IF real + 1 <= Len(l) THEN Len(l) - (real + 1) + 1 ELSE 0
          /\ \A i \in 1..(Len(l) - (real + 1) + 1) : es[i] = l[(real + 1) + i - 1]
      BY <1>6, <2>1, <2>5, <3>1, SubSeqProperties
    <3>3. Len(es) = Len(l) - real
      BY <1>6, <2>1, <3>2
    <3>4. ASSUME NEW i \in 1..(Len(l) - real) PROVE es[i] = l[real + i]
      <4>1. i \in 1..(Len(l) - (real + 1) + 1) /\ (real + 1) + i - 1 = real + i
        BY <1>6, <2>1
      <4>2. es[i] = l[(real + 1) + i - 1]
        BY <3>2, <4>1
      <4> QED
        BY <4>1, <4>2
    <3> QED
      BY <3>3, <3>4
  <2>8. NewNextIndex(m) = Len(l) /\ m.prev + 1 = real
    BY <1>6, <2>1, <2>2, <2>6, <2>7 DEF NewNextIndex
  <2>9. \A i \in 1..Len(m.entries) : m.entries[i] = l[m.prev + 1 + i]
    BY <2>6, <2>7, <2>8
  <2>10. G[m.term].log = l /\ G[m.term].leader = s
    BY <1>4, <1>5, <2>2
  <2>11. G[m.term].log[NewNextIndex(m)].term = m.term /\ 2 <= NewNextIndex(m)
    BY <1>6, <2>2, <2>8, <2>10
  <2>12. m.prevTerm = G[m.term].log[m.prev + 1].term
    BY <2>4, <2>8, <2>10
  <2>13. NewNextIndex(m) <= Len(G[m.term].log) /\ m.commit + 1 <= NewNextIndex(m)
    BY <1>6, <1>7, <2>2, <2>8, <2>10
  <2>14. Backed(G, appendAcks, G[m.term].log, m.commit, m.term)
    BY <1>7, <2>2, <2>10
  <2>15. m.session = m.term /\ m.from = G[m.term].leader /\ m.from # m.to
    BY <1>8, <2>2, <2>10
  <2> QED
    BY <2>9, <2>10, <2>11, <2>12, <2>13, <2>14, <2>15 DEF GoodRequest
<1>9. RequestInv(G)'
  <2> SUFFICES ASSUME NEW m \in appendReqs'
               PROVE  GoodRequest(G, appendAcks, m)
    BY <1>2 DEF RequestInv
  <2>1. CASE m \in appendReqs
    BY <2>1 DEF SafeInv, RequestInv
  <2>2. CASE m \notin appendReqs
    <3>1. PICK p \in Server \ {s} :
              m = LET a == AppendArgs(log[s], nextIndex[s][p])
                  IN  [from |-> s, to |-> p, inc |-> crashes[s], session |-> u,
                       term |-> currentTerm[s], prev |-> a.prev, prevTerm |-> a.prevTerm,
                       entries |-> a.entries, commit |-> commitIndex[s]]
      BY <2>2, Zenon DEF SyncEntries
    <3> QED
      BY <1>8, <3>1
  <2> QED
    BY <2>1, <2>2
<1>10. TermsGrow
  BY <1>1, <1>2, VoteTypes DEF TermsGrow
<1>11. NoNewLeader /\ NoNewPoll
  BY <1>2 DEF NoNewLeader, NoNewPoll
<1>12. GoodHistory(G)' /\ Elected(G)' /\ PeerInv(G)' /\ PollInv(G)'
  <2>1. GoodHistory(G)'
    BY <1>1 DEF GoodHistory
  <2> QED
    BY <1>1, <1>2, <1>10, <1>11, <2>1, ElectedKept, PeersKept, PollsKept DEF SafeInv, NoNewPoll
<1>13. MessageInv(G)' /\ HasInv(G)' /\ PromiseInv(G)' /\ CompleteInv(G)'
  BY <1>1, <1>2, <1>10, MessageKept, HasKept, PromiseKept, CompleteKept DEF SafeInv
<1>14. CommitInv(G)' /\ MatchInv(G)' /\ AppliedInv(G)'
  BY <1>1, <1>2, <1>10, <1>11, CommitKept, MatchKept, AppliedKept DEF SafeInv
<1> QED
  BY <1>9, <1>12, <1>13, <1>14 DEF SafeInv

-----------------------------------------------------------------------------
(* The AppendEntries handler.  It takes the entries where they attach to   *)
(* the end of the log or replace what follows lastApplied ...              *)
Takes(l, la, m) == ~BadCase(l, la, m) /\ ~(FixPackage(l, la, m) /\ PrefixEntries(l, la, m))

LEMMA TakenShape ==
    ASSUME NEW l \in Seq(Entry), Len(l) >= 1, l[1].index = 0, NEW la \in Nat,
           NEW m, m.prev \in Nat, m.entries \in Seq(Entry), Takes(l, la, m)
    PROVE  LET k == Appended(l, la, m)
           IN  /\ m.prev + 1 = Len(l) \/ (m.prev = la /\ m.prev + 1 <= Len(l))
               /\ Len(k) = NewNextIndex(m)
               /\ \A j \in 1..(m.prev + 1) : k[j] = l[j]
               /\ \A i \in 1..Len(m.entries) : k[m.prev + 1 + i] = m.entries[i]
<1>1. PICK k : k = Appended(l, la, m)
  OBVIOUS
<1>2. /\ Len(l) \in Nat /\ Len(m.entries) \in Nat /\ GlobalLogLen(l) = Len(l)
      /\ LastIndex(l) = Len(l) - 1
  <2>1. Len(l) \in Nat /\ Len(m.entries) \in Nat
    BY LenProperties
  <2> QED
    BY <2>1 DEF GlobalLogLen, LastIndex
<1>3. PICK b \in Seq(Entry) : /\ k = b \o m.entries /\ Len(b) = m.prev + 1 /\ Len(b) <= Len(l)
                              /\ \A j \in 1..Len(b) : b[j] = l[j]
                              /\ m.prev + 1 = Len(l) \/ m.prev = la
  <2>1. CASE GoodCase(l, m)
    <3>1. k = l \o m.entries /\ Len(l) = m.prev + 1
      <4>1. Len(l) - 1 = m.prev
        BY <1>2, <2>1 DEF GoodCase
      <4> QED
        BY <1>1, <1>2, <2>1, <4>1 DEF Appended
    <3>2. Len(l) <= Len(l) /\ m.prev + 1 = Len(l) /\ \A j \in 1..Len(l) : l[j] = l[j]
      BY <1>2, <3>1
    <3> QED
      BY <3>1, <3>2, Zenon
  <2>2. CASE ~GoodCase(l, m)
    <3>1. FixPackage(l, la, m) /\ ~PrefixEntries(l, la, m)
      BY <2>2 DEF Takes, BadCase
    <3>2. m.prev = la /\ la + 1 <= Len(l) /\ k = Before(l, la + 1) \o m.entries
      <4>1. m.prev = la /\ Len(l) - 1 > la
        BY <1>2, <3>1 DEF FixPackage
      <4>2. k = Before(l, la + 1) \o m.entries
        BY <1>1, <2>2, <3>1 DEF Appended
      <4> QED
        BY <1>2, <4>1, <4>2
    <3>3. LocalIndex(l, la + 1) = la + 1
      BY DEF LocalIndex
    <3>4. PICK b : b = SubSeq(l, 1, la + 1)
      OBVIOUS
    <3>5. \A i \in 1..(la + 1) : l[i] \in Entry
      BY <1>2, <3>2, ElementOfSeq
    <3>6. /\ b \in Seq(Entry) /\ Len(b) = (IF 1 <= la + 1 THEN (la + 1) - 1 + 1 ELSE 0)
          /\ \A i \in 1..((la + 1) - 1 + 1) : b[i] = l[1 + i - 1]
      BY <3>4, <3>5, SubSeqProperties
    <3>7. Len(b) = la + 1 /\ (la + 1) - 1 + 1 = la + 1
      BY <3>6
    <3>8. ASSUME NEW i \in 1..Len(b) PROVE b[i] = l[i]
      <4>1. 1 + i - 1 = i /\ i \in 1..((la + 1) - 1 + 1)
        BY <3>7
      <4> QED
        BY <3>6, <4>1
    <3> QED
      BY <3>2, <3>3, <3>4, <3>6, <3>7, <3>8 DEF Before
  <2> QED
    BY <2>1, <2>2
<1>4. /\ Len(k) = Len(b) + Len(m.entries)
      /\ \A i \in 1..(Len(b) + Len(m.entries)) :
            k[i] = IF i <= Len(b) THEN b[i] ELSE m.entries[i - Len(b)]
  BY <1>3, ConcatProperties
<1>5. ASSUME NEW j \in 1..(m.prev + 1) PROVE k[j] = l[j]
  BY <1>2, <1>3, <1>4
<1>6. ASSUME NEW i \in 1..Len(m.entries) PROVE k[m.prev + 1 + i] = m.entries[i]
  <2>1. PICK x \in Int : x = m.prev + 1 + i
    OBVIOUS
  <2>2. x \in 1..(Len(b) + Len(m.entries)) /\ ~(x <= Len(b)) /\ x - Len(b) = i
    <3>1. Len(b) = m.prev + 1
      BY <1>3
    <3>2. PICK n \in Nat : n = Len(m.entries)
      BY <1>2
    <3>3. i \in Nat /\ i >= 1 /\ i <= n
      BY <3>2
    <3>4. x = Len(b) + i /\ Len(b) \in Nat
      BY <2>1, <3>1, <3>3
    <3> QED
      BY <3>2, <3>3, <3>4
  <2>3. k[x] = m.entries[x - Len(b)]
    BY <1>4, <2>2
  <2>4. k[x] = m.entries[i]
    BY <2>2, <2>3
  <2> QED
    BY <2>1, <2>4
<1>7. Len(k) = NewNextIndex(m)
  BY <1>2, <1>3, <1>4 DEF NewNextIndex
<1> QED
  BY <1>1, <1>2, <1>3, <1>5, <1>6, <1>7

(* ... a stretch of the log of the leader of the request's term ...        *)
LEMMA RequestFacts ==
    ASSUME TypeInv, NEW G, SafeInv(G), NEW m \in appendReqs
    PROVE  /\ m.term \in Nat /\ m.prev \in Nat /\ m.commit \in Nat /\ m.from \in Server
           /\ m.entries \in Seq(Entry) /\ Len(m.entries) \in Nat
           /\ NewNextIndex(m) = m.prev + 1 + Len(m.entries) /\ NewNextIndex(m) \in Nat
           /\ G[m.term].log \in Seq(Entry) /\ Len(G[m.term].log) \in Nat /\ G[m.term].log # <<>>
           /\ GoodRequest(G, appendAcks, m)
           /\ Matches(G, G[m.term].log) /\ G[m.term].log[2].cmd = Noop
           /\ \A i \in 1..Len(G[m.term].log) : /\ G[m.term].log[i] \in Entry
                                               /\ G[m.term].log[i].term \in Nat
                                               /\ G[m.term].log[i].term <= m.term
<1>1. G \in History /\ GoodHistory(G) /\ TypeOK
  BY DEF SafeInv, GoodHistory, TypeInv
<1>2. /\ m.term \in Nat /\ m.prev \in Nat /\ m.commit \in Nat /\ m.from \in Server
      /\ m.entries \in Seq(Entry)
  BY <1>1 DEF TypeOK, AppendReq
<1>3. Len(m.entries) \in Nat
  BY <1>2, LenProperties
<1>4. NewNextIndex(m) = m.prev + 1 + Len(m.entries) /\ NewNextIndex(m) \in Nat
  BY <1>2, <1>3 DEF NewNextIndex
<1>5. GoodRequest(G, appendAcks, m)
  BY DEF SafeInv, RequestInv
<1>6. /\ G[m.term].log \in Seq(Entry) /\ Len(G[m.term].log) \in Nat
      /\ \A i \in 1..Len(G[m.term].log) : /\ G[m.term].log[i] \in Entry
                                          /\ G[m.term].log[i].term \in Nat
  BY <1>1, <1>2, HistoryTypes
<1>7. G[m.term].log # <<>>
  BY <1>1, <1>2, <1>4, <1>5, HistoryTypes DEF GoodRequest
<1>8. /\ Matches(G, G[m.term].log) /\ G[m.term].log[2].cmd = Noop
      /\ \A i \in 1..Len(G[m.term].log) : G[m.term].log[i].term <= m.term
  BY <1>1, <1>2, <1>7 DEF GoodHistory
<1> QED
  BY <1>2, <1>3, <1>4, <1>5, <1>6, <1>7, <1>8

LEMMA KeptAgrees ==
    ASSUME TypeInv, NEW G, SafeInv(G), NEW s \in Server, NEW m \in appendReqs,
           m.term >= currentTerm[s], Takes(log[s], lastApplied[s], m)
    PROVE  Same(log[s], G[m.term].log, m.prev + 1)
<1>1. G \in History /\ PeerInv(G) /\ CompleteInv(G) /\ GoodRequest(G, appendAcks, m)
  BY RequestFacts DEF SafeInv, GoodHistory
<1>2. PICK l : l = log[s]
  OBVIOUS
<1>3. PICK h : h = G[m.term].log
  OBVIOUS
<1>4. /\ l \in Seq(Entry) /\ Len(l) \in Nat /\ Len(l) >= 1 /\ l[1].index = 0
      /\ LastIndex(l) = Len(l) - 1 /\ LastTerm(l) = l[Len(l)].term
      /\ \A i \in 1..Len(l) : l[i].term \in Nat
  BY <1>1, <1>2, PeerFacts
<1>5. /\ m.prev \in Nat /\ m.entries \in Seq(Entry) /\ m.term \in Nat /\ Len(h) \in Nat
      /\ lastApplied[s] \in Nat /\ currentTerm[s] \in Nat
  BY <1>3, RequestFacts DEF TypeInv, TypeOK
<1>6. m.prev + 1 = Len(l) \/ (m.prev = lastApplied[s] /\ m.prev + 1 <= Len(l))
  BY <1>2, <1>4, <1>5, TakenShape
<1>7. m.prev + 1 <= Len(h)
  <2>1. NewNextIndex(m) <= Len(h) /\ NewNextIndex(m) = m.prev + 1 + Len(m.entries)
        /\ Len(m.entries) \in Nat
    BY <1>1, <1>3, RequestFacts DEF GoodRequest
  <2> QED
    BY <1>5, <2>1
<1>8. CASE m.prev + 1 = Len(l)
  <2>1. GoodCase(l, m)
    BY <1>2, <1>4, <1>5, <1>8 DEF Takes, BadCase, FixPackage
  <2>2. CASE m.prev = 0
    BY <1>2, <1>3, <1>4, <1>7, <2>2 DEF Same
  <2>3. CASE m.prev >= 1
    <3>1. PICK v \in Nat : v = l[Len(l)].term
      BY <1>4
    <3>2. h[Len(l)].term = v
      BY <1>1, <1>3, <1>4, <1>8, <2>1, <3>1 DEF GoodCase, GoodRequest
    <3>3. Len(l) \in 2..Len(l) /\ Len(l) \in 2..Len(h)
      BY <1>4, <1>5, <1>7, <1>8, <2>3
    <3>4. Same(l, G[v].log, Len(l))
      BY <1>1, <1>2, <3>1, <3>3 DEF PeerInv, Matches
    <3>5. Same(h, G[v].log, Len(l))
      BY <1>3, <3>2, <3>3, RequestFacts DEF Matches
    <3>6. Same(l, h, Len(l))
      BY <1>4, <3>4, <3>5, SameSym, SameTrans
    <3> QED
      BY <1>2, <1>3, <1>8, <3>6
  <2> QED
    BY <1>5, <2>2, <2>3
<1>9. CASE m.prev = lastApplied[s] /\ m.prev + 1 <= Len(l)
  <2>1. CASE m.prev <= 1
    BY <1>2, <1>3, <1>5, <1>7, <1>9, <2>1 DEF Same
  <2>2. CASE m.prev >= 2
    <3>1. Backed(G, appendAcks, l, m.prev, currentTerm[s])
      BY <1>2, <1>9 DEF SafeInv, CommitInv
    <3>2. G[m.term].log # <<>>
      BY RequestFacts
    <3> QED
      BY <1>1, <1>2, <1>5, <2>2, <3>1, <3>2, BackedKept
  <2> QED
    BY <1>5, <2>1, <2>2
<1> QED
  BY <1>6, <1>8, <1>9

(* ... so that its log then matches the history and ends in that term.     *)
LEMMA TakenLog ==
    ASSUME TypeInv, NEW G, SafeInv(G), NEW s \in Server, NEW m \in appendReqs,
           m.term >= currentTerm[s], Takes(log[s], lastApplied[s], m),
           NEW k \in Seq(Entry), k = Appended(log[s], lastApplied[s], m)
    PROVE  /\ Len(k) = NewNextIndex(m) /\ Len(k) >= 2
           /\ k[1] = NoopEntry(0, 1) /\ k[2].cmd = Noop
           /\ Same(k, G[m.term].log, Len(k)) /\ Matches(G, k)
           /\ LastTerm(k) = m.term /\ \A i \in 1..Len(k) : k[i].term <= m.term
           /\ Backed(G, appendAcks, k, lastApplied[s], m.term)
           /\ m.prev + 1 = Len(log[s]) \/ m.prev = lastApplied[s]
<1>1. G \in History /\ PeerInv(G) /\ GoodRequest(G, appendAcks, m)
  BY RequestFacts DEF SafeInv, GoodHistory
<1>2. PICK l : l = log[s]
  OBVIOUS
<1>3. PICK h : h = G[m.term].log
  OBVIOUS
<1>4. /\ l \in Seq(Entry) /\ Len(l) \in Nat /\ Len(l) >= 1 /\ l[1] = NoopEntry(0, 1)
      /\ l[1].index = 0
      /\ LastIndex(l) = Len(l) - 1 /\ LastTerm(l) = l[Len(l)].term /\ LastTerm(l) \in Nat
      /\ \A i \in 1..Len(l) : l[i].term \in Nat /\ l[i].term <= LastTerm(l)
      /\ LastTerm(l) <= currentTerm[s] /\ (Len(l) >= 2 => l[2].cmd = Noop) /\ Matches(G, l)
  BY <1>1, <1>2, PeerFacts DEF PeerInv
<1>5. /\ m.prev \in Nat /\ m.entries \in Seq(Entry) /\ m.term \in Nat /\ Len(h) \in Nat
      /\ lastApplied[s] \in Nat /\ currentTerm[s] \in Nat /\ Len(m.entries) \in Nat
      /\ h[2].cmd = Noop /\ Matches(G, h)
      /\ \A i \in 1..Len(h) : h[i].term \in Nat /\ h[i].term <= m.term
  BY <1>3, RequestFacts DEF TypeInv, TypeOK
<1>6. /\ m.prev + 1 = Len(l) \/ (m.prev = lastApplied[s] /\ m.prev + 1 <= Len(l))
      /\ Len(k) = NewNextIndex(m)
      /\ \A j \in 1..(m.prev + 1) : k[j] = l[j]
      /\ \A i \in 1..Len(m.entries) : k[m.prev + 1 + i] = m.entries[i]
  <2>1. l \in Seq(Entry) /\ Len(l) >= 1 /\ l[1].index = 0 /\ Takes(l, lastApplied[s], m)
    BY <1>2, <1>4
  <2>2. m.prev \in Nat /\ m.entries \in Seq(Entry) /\ lastApplied[s] \in Nat
    BY <1>5
  <2>3. k = Appended(l, lastApplied[s], m)
    BY <1>2
  <2> QED
    BY <2>1, <2>2, <2>3, TakenShape, SMTT(30)
<1>7. /\ Len(k) = m.prev + 1 + Len(m.entries) /\ Len(k) >= 2 /\ Len(k) \in Nat
      /\ Len(k) <= Len(h) /\ m.prev + 1 <= Len(l)
  <2>1. NewNextIndex(m) = m.prev + 1 + Len(m.entries) /\ NewNextIndex(m) \in Nat
    BY RequestFacts
  <2>2. 2 <= NewNextIndex(m) /\ NewNextIndex(m) <= Len(h)
    BY <1>1, <1>3 DEF GoodRequest
  <2>3. m.prev + 1 = Len(l) \/ m.prev + 1 <= Len(l)
    BY <1>6
  <2>4. Len(k) = NewNextIndex(m)
    BY <1>6
  <2>5. m.prev + 1 <= Len(l)
    BY <1>4, <2>3
  <2> QED
    BY <2>1, <2>2, <2>4, <2>5
<1>8. \A j \in 1..Len(k) : j > m.prev + 1 => k[j] = h[j]
  <2> SUFFICES ASSUME NEW j \in 1..Len(k), j > m.prev + 1 PROVE k[j] = h[j]
    OBVIOUS
  <2>1. PICK i \in 1..Len(m.entries) : m.prev + 1 + i = j
    <3>1. PICK b \in Nat, n \in Nat : b = m.prev /\ n = Len(m.entries)
      BY <1>5
    <3>2. Len(k) = b + 1 + n /\ j > b + 1
      BY <1>7, <3>1
    <3>3. j - (b + 1) \in 1..n /\ b + 1 + (j - (b + 1)) = j
      BY <3>2
    <3> QED
      BY <3>1, <3>3
  <2>2. k[m.prev + 1 + i] = m.entries[i]
    BY <1>6
  <2>3. m.entries[i] = h[m.prev + 1 + i]
    BY <1>1, <1>3 DEF GoodRequest
  <2> QED
    BY <2>1, <2>2, <2>3
<1>9. Same(l, h, m.prev + 1)
  BY <1>2, <1>3, KeptAgrees
<1>10. Same(k, h, Len(k))
  <2> SUFFICES ASSUME NEW j \in 3..Len(k) PROVE k[j] = h[j]
    BY <1>7 DEF Same
  <2>1. CASE j <= m.prev + 1
    <3>1. j \in 1..(m.prev + 1) /\ j \in 3..(m.prev + 1)
      BY <1>5, <1>7, <2>1
    <3> QED
      BY <1>6, <1>9, <3>1 DEF Same
  <2>2. CASE j > m.prev + 1
    BY <1>7, <1>8, <2>2
  <2> QED
    BY <1>5, <1>7, <2>1, <2>2
<1>11. k[1] = NoopEntry(0, 1) /\ k[2].cmd = Noop
  <2>1. k[1] = l[1]
    BY <1>5, <1>6
  <2>2. CASE m.prev = 0
    BY <1>4, <1>5, <1>7, <1>8, <2>1, <2>2
  <2>3. CASE m.prev >= 1
    <3>1. 2 \in 1..(m.prev + 1) /\ Len(l) >= 2
      BY <1>4, <1>5, <1>7, <2>3
    <3>2. k[2] = l[2]
      BY <1>6, <3>1
    <3> QED
      BY <1>4, <2>1, <3>1, <3>2
  <2> QED
    BY <1>5, <2>2, <2>3
<1>12. \A i \in 1..Len(k) : k[i].term <= m.term
  <2> SUFFICES ASSUME NEW i \in 1..Len(k) PROVE k[i].term <= m.term
    OBVIOUS
  <2>1. CASE i <= m.prev + 1
    <3>1. i \in 1..(m.prev + 1) /\ i \in 1..Len(l)
      BY <1>4, <1>5, <1>7, <2>1
    <3>2. k[i] = l[i] /\ l[i].term <= LastTerm(l) /\ l[i].term \in Nat
      BY <1>4, <1>6, <3>1
    <3>3. LastTerm(l) <= currentTerm[s] /\ LastTerm(l) \in Nat
      BY <1>4
    <3>4. currentTerm[s] <= m.term /\ currentTerm[s] \in Nat /\ m.term \in Nat
      BY <1>5
    <3> QED
      BY <3>2, <3>3, <3>4
  <2>2. CASE i > m.prev + 1
    <3>1. i \in 1..Len(h)
      BY <1>5, <1>7
    <3> QED
      BY <1>5, <1>8, <2>2, <3>1
  <2> QED
    BY <1>5, <1>7, <2>1, <2>2
<1>13. k[Len(k)].term = m.term
  <2>1. h[Len(k)].term = m.term
    BY <1>1, <1>3, <1>6 DEF GoodRequest
  <2>2. CASE Len(k) > m.prev + 1
    BY <1>7, <1>8, <2>1, <2>2
  <2>3. CASE Len(k) = m.prev + 1
    <3>1. Len(m.entries) = 0
      BY <1>5, <1>7, <2>3
    <3>2. GoodCase(l, m)
      <4>1. FixPackage(l, lastApplied[s], m) => PrefixEntries(l, lastApplied[s], m)
        BY <3>1 DEF PrefixEntries
      <4> QED
        BY <1>2, <4>1 DEF Takes, BadCase
    <3>3. Len(l) = m.prev + 1 /\ LastTerm(l) = m.prevTerm
      <4>1. Len(l) - 1 = m.prev /\ LastTerm(l) = m.prevTerm
        BY <1>4, <3>2 DEF GoodCase
      <4> QED
        BY <1>4, <1>5, <4>1
    <3>4. m.prevTerm = h[m.prev + 1].term
      BY <1>1, <1>3 DEF GoodRequest
    <3>5. k[Len(k)] = l[Len(l)]
      BY <1>4, <1>6, <2>3, <3>3
    <3> QED
      BY <1>4, <2>1, <2>3, <3>3, <3>4, <3>5
  <2> QED
    BY <1>5, <1>7, <2>2, <2>3
<1>14. Matches(G, k)
  <2> SUFFICES ASSUME NEW i \in 2..Len(k)
               PROVE  /\ i <= Len(G[k[i].term].log) /\ G[k[i].term].log[i].term = k[i].term
                      /\ Same(k, G[k[i].term].log, i)
    BY DEF Matches
  <2>1. CASE i <= m.prev + 1
    <3>1. i \in 1..(m.prev + 1) /\ i \in 2..Len(l) /\ i \in Nat
      BY <1>4, <1>5, <1>7, <2>1
    <3>2. k[i] = l[i] /\ Same(l, G[l[i].term].log, i)
          /\ i <= Len(G[l[i].term].log) /\ G[l[i].term].log[i].term = l[i].term
      BY <1>4, <1>6, <3>1 DEF Matches
    <3>3. Same(k, l, i)
      <4>1. \A j \in 3..i : j \in 1..(m.prev + 1)
        <5>1. i <= m.prev + 1 /\ m.prev + 1 \in Nat
          BY <1>5, <2>1
        <5> QED
          BY <3>1, <5>1
      <4>2. i <= Len(k) /\ i <= Len(l)
        BY <1>7, <3>1
      <4> QED
        BY <1>6, <4>1, <4>2 DEF Same
    <3> QED
      BY <3>1, <3>2, <3>3, SameTrans
  <2>2. CASE i > m.prev + 1
    <3>1. i \in 2..Len(h) /\ i \in Nat /\ i <= Len(k) /\ i \in 1..Len(k)
      BY <1>5, <1>7
    <3>2. k[i] = h[i] /\ Same(h, G[h[i].term].log, i)
          /\ i <= Len(G[h[i].term].log) /\ G[h[i].term].log[i].term = h[i].term
      BY <1>5, <1>8, <2>2, <3>1 DEF Matches
    <3>3. Same(k, h, i)
      BY <1>5, <1>7, <1>10, <3>1, SameShorter
    <3> QED
      BY <3>1, <3>2, <3>3, SameTrans
  <2> QED
    BY <1>5, <1>7, <2>1, <2>2
<1>15. Backed(G, appendAcks, k, lastApplied[s], m.term)
  <2>1. CASE lastApplied[s] <= 1
    BY <2>1 DEF Backed
  <2>2. CASE lastApplied[s] >= 2
    <3>1. Backed(G, appendAcks, l, lastApplied[s], currentTerm[s])
      BY <1>2 DEF SafeInv, CommitInv
    <3>2. lastApplied[s] + 1 <= m.prev + 1
      <4>1. lastApplied[s] + 1 <= Len(l)
        <5>1. ~(lastApplied[s] <= 1)
          BY <1>5, <2>2
        <5> QED
          BY <3>1, <5>1 DEF Backed, Same
      <4>2. m.prev + 1 = Len(l) \/ m.prev = lastApplied[s]
        BY <1>6
      <4>3. m.prev \in Nat /\ lastApplied[s] \in Nat
        BY <1>5
      <4> QED
        BY <4>1, <4>2, <4>3
    <3>3. Same(k, l, lastApplied[s] + 1)
      <4>1. PICK b \in Nat, a \in Nat, n \in Nat :
                   b = m.prev /\ a = lastApplied[s] /\ n = Len(m.entries)
        BY <1>5
      <4>2. Len(k) = b + 1 + n /\ b + 1 <= Len(l) /\ Len(l) \in Nat /\ a + 1 <= b + 1
        BY <1>4, <1>7, <3>2, <4>1
      <4>3. a + 1 <= Len(k) /\ a + 1 <= Len(l) /\ \A j \in 3..(a + 1) : j \in 1..(b + 1)
        BY <4>1, <4>2
      <4> QED
        BY <1>6, <4>1, <4>3 DEF Same
    <3>4. Backed(G, appendAcks, l, lastApplied[s], m.term)
      BY <1>1, <1>5, <3>1, GrowsSelf, BackedGrows
    <3> QED
      BY <1>1, <1>5, <3>3, <3>4, BackedSame
  <2> QED
    BY <1>5, <2>1, <2>2
<1>16. LastTerm(k) = m.term
  BY <1>13 DEF LastTerm
<1> QED
  BY <1>2, <1>3, <1>6, <1>7, <1>10, <1>11, <1>12, <1>14, <1>15, <1>16

-----------------------------------------------------------------------------
(* Requests and what was applied, when the history or the acks grow.       *)
LEMMA RequestGrows ==
    ASSUME TypeInv, NEW G, SafeInv(G), NEW K \in History, NEW bcks,
           Grows(G, K, appendAcks, bcks), NEW m \in appendReqs
    PROVE  GoodRequest(K, bcks, m)
<1>1. G \in History /\ GoodRequest(G, appendAcks, m)
  BY RequestFacts DEF SafeInv, GoodHistory
<1>2. PICK t \in Nat : t = m.term
  BY RequestFacts
<1>3. /\ m.prev \in Nat /\ m.commit \in Nat /\ Len(m.entries) \in Nat
      /\ NewNextIndex(m) = m.prev + 1 + Len(m.entries) /\ NewNextIndex(m) \in Nat
      /\ G[t].log # <<>>
  BY <1>2, RequestFacts
<1>4. /\ K[t].leader = G[t].leader /\ Len(G[t].log) <= Len(K[t].log)
      /\ \A j \in 1..Len(G[t].log) : K[t].log[j] = G[t].log[j]
      /\ Len(G[t].log) \in Nat /\ Len(K[t].log) \in Nat
  BY <1>1, <1>3, HistoryTypes DEF Grows
<1>5. m.session = t /\ m.from = K[t].leader /\ m.from # m.to
  BY <1>1, <1>2, <1>4 DEF GoodRequest
<1>6. /\ 2 <= NewNextIndex(m) /\ NewNextIndex(m) <= Len(G[t].log)
      /\ m.commit + 1 <= NewNextIndex(m)
  BY <1>1, <1>2 DEF GoodRequest
<1>7. NewNextIndex(m) <= Len(K[t].log)
  BY <1>3, <1>4, <1>6
<1>8. K[t].log[NewNextIndex(m)].term = t
  <2>1. NewNextIndex(m) \in 1..Len(G[t].log)
    BY <1>3, <1>4, <1>6
  <2> QED
    BY <1>1, <1>2, <1>4, <2>1 DEF GoodRequest
<1>9. m.prevTerm = K[t].log[m.prev + 1].term
  <2>1. m.prev + 1 \in 1..Len(G[t].log)
    BY <1>3, <1>4, <1>6
  <2> QED
    BY <1>1, <1>2, <1>4, <2>1 DEF GoodRequest
<1>10. \A i \in 1..Len(m.entries) : m.entries[i] = K[t].log[m.prev + 1 + i]
  <2> SUFFICES ASSUME NEW i \in 1..Len(m.entries) PROVE m.entries[i] = K[t].log[m.prev + 1 + i]
    OBVIOUS
  <2>1. PICK b \in Nat, n \in Nat, c \in Nat :
               b = m.prev /\ n = Len(m.entries) /\ c = Len(G[t].log)
    BY <1>3, <1>4
  <2>2. b + 1 + n <= c
    BY <1>3, <1>6, <2>1
  <2>3. b + 1 + i \in 1..c
    BY <2>1, <2>2
  <2>4. m.entries[i] = G[t].log[m.prev + 1 + i]
    BY <1>1, <1>2 DEF GoodRequest
  <2> QED
    BY <1>4, <2>1, <2>3, <2>4
<1>11. Backed(K, bcks, K[t].log, m.commit, t)
  <2>1. Backed(G, appendAcks, G[t].log, m.commit, t)
    BY <1>1, <1>2 DEF GoodRequest
  <2>2. Backed(K, bcks, G[t].log, m.commit, t)
    BY <1>1, <1>3, <2>1, BackedGrows
  <2>3. Same(K[t].log, G[t].log, m.commit + 1)
    <3>1. m.commit + 1 <= Len(G[t].log) /\ m.commit + 1 <= Len(K[t].log)
      BY <1>3, <1>4, <1>6
    <3>2. \A j \in 3..(m.commit + 1) : j \in 1..Len(G[t].log)
      BY <1>3, <1>4, <3>1
    <3> QED
      BY <1>4, <3>1, <3>2 DEF Same
  <2> QED
    BY <1>3, <2>2, <2>3, BackedSame
<1> QED
  BY <1>2, <1>5, <1>6, <1>7, <1>8, <1>9, <1>10, <1>11 DEF GoodRequest

LEMMA AppliedGrows ==
    ASSUME NEW G, GoodHistory(G), NEW K \in History, NEW bcks,
           Grows(G, K, appendAcks, bcks), AppliedInv(G), NEW a \in applied
    PROVE  \E t \in Nat, n \in Nat : Handed(K, bcks, a, t, n)
<1>1. PICK t \in Nat, n \in Nat : Handed(G, appendAcks, a, t, n)
  BY DEF AppliedInv
<1>2. G \in History /\ n >= 3 /\ Chosen(G, appendAcks, t, n)
  BY <1>1 DEF GoodHistory, Handed
<1>3. Chosen(K, bcks, t, n)
  BY <1>2, ChosenGrows
<1>4. /\ Len(G[t].log) \in Nat /\ n <= Len(G[t].log)
      /\ \A j \in 1..Len(G[t].log) : K[t].log[j] = G[t].log[j]
  BY <1>2, HistoryTypes DEF Chosen, Grows
<1>5. K[t].log[n] = G[t].log[n]
  BY <1>2, <1>4
<1>6. \A i \in 1..(n - 1) : K[t].log[i + 1] = G[t].log[i + 1]
  BY <1>2, <1>4
<1>7. CommandCount(K[t].log, 1, n - 1) = CommandCount(G[t].log, 1, n - 1)
  <2>1. {i \in 1..(n - 1) : K[t].log[i + 1].cmd # Noop}
            = {i \in 1..(n - 1) : G[t].log[i + 1].cmd # Noop}
    BY <1>6
  <2> QED
    BY <2>1 DEF CommandCount
<1>8. Handed(K, bcks, a, t, n)
  BY <1>1, <1>2, <1>3, <1>5, <1>7 DEF Handed
<1> QED
  BY <1>8

(* Peer s follows the leader of the request, has the log k afterwards and  *)
(* acknowledges.                                                           *)
LEMMA AckKeeps ==
    ASSUME TypeInv, TypeInv', VoteInv, NEW G, SafeInv(G), NEW s \in Server, NEW m \in appendReqs,
           m.term >= currentTerm[s],
           currentTerm' = [currentTerm EXCEPT ![s] = m.term],
           state' = [state EXCEPT ![s] = "Follower"],
           NEW k \in Seq(Entry), log' = [log EXCEPT ![s] = k],
           NEW c \in Nat, commitIndex' = [commitIndex EXCEPT ![s] = c],
           NEW r, r.from = s, r.session = m.term, r.next = NewNextIndex(m),
           appendAcks' = appendAcks \cup {r},
           UNCHANGED <<snapshotIndex, lastApplied, matchIndex, campaign, voteReqs, voteReps,
                       appendReqs, snapReqs, snapReps, applied>>,
           Len(k) >= 2, k[1] = NoopEntry(0, 1), k[2].cmd = Noop, Matches(G, k),
           \A i \in 1..Len(k) : k[i].term <= LastTerm(k), LastTerm(k) <= m.term,
           \A t \in Nat, n \in Nat : n >= 3 /\ Has(G, appendAcks, s, t, n) => Ahead(k, t, n),
           \A n \in Nat : n >= 3 /\ n <= NewNextIndex(m) => Ahead(k, m.term, n),
           c + 1 <= Len(k), Backed(G, appendAcks, k, c, m.term),
           Backed(G, appendAcks, k, lastApplied[s], m.term)
    PROVE  SafeInv(G)'
<1>1. G \in History /\ GoodHistory(G) /\ TypeOK /\ TypeOK' /\ PeerInv(G)
  BY DEF SafeInv, GoodHistory, TypeInv
<1>2. /\ m.term \in Nat /\ NewNextIndex(m) \in Nat /\ currentTerm[s] \in Nat
      /\ GoodRequest(G, appendAcks, m)
  BY <1>1, RequestFacts, VoteTypes
<1>3. /\ \A p \in Server : p # s => /\ currentTerm'[p] = currentTerm[p] /\ state'[p] = state[p]
                                    /\ log'[p] = log[p] /\ commitIndex'[p] = commitIndex[p]
      /\ currentTerm'[s] = m.term /\ state'[s] = "Follower" /\ log'[s] = k /\ commitIndex'[s] = c
  BY <1>1 DEF TypeOK
<1>4. TermsGrow
  BY <1>1, <1>2, <1>3, VoteTypes DEF TermsGrow
<1>5. NoNewLeader
  BY <1>3 DEF NoNewLeader
<1>6. Grows(G, G, appendAcks, appendAcks')
  BY <1>1, GrowsSelf DEF Grows
<1>7. \A p \in Server : /\ currentTerm[p] \in Nat /\ currentTerm'[p] \in Nat
                        /\ currentTerm[p] <= currentTerm'[p]
  BY <1>1, <1>4 DEF TypeOK, TermsGrow
<1>8. ASSUME NEW p, NEW t \in Nat, NEW n \in Nat, Has(G, appendAcks', p, t, n)
      PROVE  Has(G, appendAcks, p, t, n) \/ (p = s /\ t = m.term /\ n <= NewNextIndex(m))
  BY <1>8, <1>2 DEF Has
<1>9. GoodHistory(G)' /\ Elected(G)'
  <2>1. GoodHistory(G)'
    BY <1>1 DEF GoodHistory
  <2> QED
    BY <1>1, <1>4, <2>1, ElectedKept DEF SafeInv
<1>10. PeerInv(G)'
  <2> SUFFICES ASSUME NEW p \in Server
               PROVE  /\ log'[p][1] = NoopEntry(0, 1) /\ snapshotIndex'[p] = 0
                      /\ Len(log'[p]) >= 2 => log'[p][2].cmd = Noop
                      /\ currentTerm'[p] >= 1
                      /\ Matches(G, log'[p])
                      /\ \A i \in 1..Len(log'[p]) : log'[p][i].term <= LastTerm(log'[p])
                      /\ LastTerm(log'[p]) <= currentTerm'[p]
                      /\ state'[p] = "Leader" => /\ G[currentTerm'[p]].leader = p
                                                 /\ G[currentTerm'[p]].log = log'[p]
    BY DEF PeerInv, LastTerm
  <2>1. CASE p = s
    <3>1. m.term >= 1 /\ snapshotIndex'[s] = 0
      BY <1>1, <1>2 DEF PeerInv
    <3> QED
      BY <1>3, <2>1, <3>1
  <2>2. CASE p # s
    BY <1>1, <1>3, <2>2 DEF PeerInv
  <2> QED
    BY <2>1, <2>2
<1>11. PollInv(G)'
  <2> SUFFICES ASSUME NEW p \in Server, campaign[p].pc = "polling"
               PROVE  /\ G[campaign[p].term].leader # p
                      /\ state'[p] = "Candidate" =>
                            \E q \in voteReqs : /\ q.from = p /\ q.term = currentTerm'[p]
                                                /\ q.lastLogIndex = Len(log'[p])
                                                /\ q.lastLogTerm = LastTerm(log'[p])
    BY DEF PollInv, LastTerm
  <2>1. CASE p = s
    BY <1>3, <2>1 DEF SafeInv, PollInv
  <2>2. CASE p # s
    BY <1>3, <2>2 DEF SafeInv, PollInv
  <2> QED
    BY <2>1, <2>2
<1>12. RequestInv(G)'
  BY <1>1, <1>6, RequestGrows DEF RequestInv
<1>13. MessageInv(G)'
  <2>1. \A x \in appendAcks' : 2 <= x.next /\ x.next <= Len(G[x.session].log)
    BY <1>2 DEF SafeInv, MessageInv, GoodRequest
  <2> QED
    BY <2>1 DEF SafeInv, MessageInv
<1>14. HasInv(G)'
  <2> SUFFICES ASSUME NEW p \in Server, NEW t \in Nat, NEW n \in Nat, n >= 3,
                      Has(G, appendAcks', p, t, n)
               PROVE  t <= currentTerm'[p] /\ Ahead(log'[p], t, n)
    BY DEF HasInv, Ahead, LastTerm
  <2>1. CASE Has(G, appendAcks, p, t, n)
    <3>1. t <= currentTerm[p] /\ Ahead(log[p], t, n)
      BY <2>1 DEF SafeInv, HasInv
    <3>2. t <= currentTerm'[p]
      BY <1>7, <3>1
    <3>3. Ahead(log'[p], t, n)
      BY <1>3, <2>1, <3>1
    <3> QED
      BY <3>2, <3>3
  <2>2. CASE p = s /\ t = m.term /\ n <= NewNextIndex(m)
    BY <1>2, <1>3, <2>2
  <2> QED
    BY <1>8, <2>1, <2>2
\* s has not voted in a later term.
<1>15. PromiseInv(G)'
  <2> SUFFICES ASSUME NEW q \in voteReqs, NEW p \in Ballots(q.from, q.term),
                      NEW t \in Nat, NEW n \in Nat, n >= 3, t < q.term,
                      Has(G, appendAcks', p, t, n)
               PROVE  Beats(q, t, n)
    BY DEF PromiseInv, Ballots
  <2>1. CASE Has(G, appendAcks, p, t, n)
    BY <2>1 DEF SafeInv, PromiseInv
  <2>2. CASE p = s /\ t = m.term /\ n <= NewNextIndex(m)
    <3>1. q.term \in Nat /\ q.term <= currentTerm[s]
      BY <1>1, <2>2, VoteTypes DEF Ballots, VoteInv, RequestsBind, VotesBind
    <3> QED
      BY <1>2, <2>2, <3>1
  <2> QED
    BY <1>8, <2>1, <2>2
<1>16. CompleteInv(G)'
  <2> SUFFICES ASSUME NEW t \in Nat, NEW n \in Nat, Blocked(G, appendAcks, currentTerm, t, n)
               PROVE  Blocked(G, appendAcks', currentTerm', t, n)
    BY DEF SafeInv, CompleteInv
  <2>1. ASSUME NEW p \in Server, currentTerm[p] > t, ~Has(G, appendAcks, p, t, n)
        PROVE  currentTerm'[p] > t /\ ~Has(G, appendAcks', p, t, n)
    <3>1. currentTerm'[p] > t
      BY <1>7, <2>1
    <3>2. ~(p = s /\ t = m.term)
      BY <1>2, <2>1
    <3> QED
      BY <1>8, <2>1, <3>1, <3>2
  <2>2. {p \in Server : currentTerm[p] > t /\ ~Has(G, appendAcks, p, t, n)}
        \subseteq {p \in Server : currentTerm'[p] > t /\ ~Has(G, appendAcks', p, t, n)}
    BY <2>1
  <2> QED
    BY <2>2, MajorityGrows DEF Blocked
<1>17. CommitInv(G)'
  <2> SUFFICES ASSUME NEW p \in Server
               PROVE  /\ commitIndex'[p] + 1 <= Len(log'[p])
                      /\ Backed(G, appendAcks', log'[p], commitIndex'[p], currentTerm'[p])
                      /\ Backed(G, appendAcks', log'[p], lastApplied[p], currentTerm'[p])
    BY DEF CommitInv
  <2>1. commitIndex[p] \in Nat /\ lastApplied[p] \in Nat
    BY <1>1 DEF TypeOK
  <2>2. CASE p = s
    BY <1>1, <1>2, <1>3, <1>6, <2>1, <2>2, BackedGrows
  <2>3. CASE p # s
    <3>1. /\ commitIndex[p] + 1 <= Len(log[p])
          /\ Backed(G, appendAcks, log[p], commitIndex[p], currentTerm[p])
          /\ Backed(G, appendAcks, log[p], lastApplied[p], currentTerm[p])
      BY DEF SafeInv, CommitInv
    <3> QED
      BY <1>1, <1>3, <1>6, <1>7, <2>1, <2>3, <3>1, BackedGrows
  <2> QED
    BY <2>2, <2>3
<1>18. MatchInv(G)'
  <2> SUFFICES ASSUME NEW x \in Server
               PROVE  \E t \in 0..currentTerm'[x] :
                          /\ state'[x] = "Leader" => t = currentTerm'[x]
                          /\ \A p \in Server :
                                \/ matchIndex[x][p] <= 1
                                \/ Has(G, appendAcks', p, t, matchIndex[x][p] + 1)
    BY DEF MatchInv
  <2>1. PICK t \in 0..currentTerm[x] :
            /\ state[x] = "Leader" => t = currentTerm[x]
            /\ \A p \in Server : \/ matchIndex[x][p] <= 1
                                 \/ Has(G, appendAcks, p, t, matchIndex[x][p] + 1)
    BY DEF SafeInv, MatchInv
  <2>2. t \in 0..currentTerm'[x] /\ t \in Nat
    BY <1>7
  <2>3. state'[x] = "Leader" => t = currentTerm'[x]
    BY <1>5, <2>1 DEF NoNewLeader
  <2>4. \A p \in Server : matchIndex[x][p] \in Nat
    BY <1>1 DEF TypeOK
  <2>5. \A p \in Server : \/ matchIndex[x][p] <= 1
                          \/ Has(G, appendAcks', p, t, matchIndex[x][p] + 1)
    <3> TAKE p \in Server
    <3>1. PICK n \in Nat : n = matchIndex[x][p] + 1 /\ n >= 1
      BY <2>4
    <3>2. Has(G, appendAcks, p, t, n) => Has(G, appendAcks', p, t, n)
      BY <1>1, <1>6, <2>2, <3>1, HasGrows
    <3> QED
      BY <2>1, <3>1, <3>2
  <2> QED
    BY <2>2, <2>3, <2>5
<1>19. AppliedInv(G)'
  BY <1>1, <1>6, AppliedGrows DEF SafeInv, AppliedInv
<1> QED
  BY <1>9, <1>10, <1>11, <1>12, <1>13, <1>14, <1>15, <1>16, <1>17, <1>18, <1>19 DEF SafeInv

(* What the handler cannot see to.  A fresh peer keeps another leader's    *)
(* no-op at index 1 when it follows a new one from index 2 on.  Once it    *)
(* has restarted with lastApplied = 0, a delayed request of that leader    *)
(* from index 1 on looks like a divergence there, and would cut off what   *)
(* the peer acknowledged since (raft.go:1110, 429-460).                    *)
NoLateFirst ==
    \A s \in Server, m \in appendReqs :
        /\ m.to = s /\ lastApplied[s] = 0 /\ m.prev = 0 /\ m.entries # <<>>
        /\ Len(log[s]) >= 2 /\ LastTerm(log[s]) = m.term
        => log[s][2].term = m.entries[1].term

(* A request taken never cuts off what was acknowledged in its term.       *)
LEMMA TakenKeepsAcked ==
    ASSUME TypeInv, NEW G, SafeInv(G), NoLateFirst, NEW s \in Server, NEW m \in appendReqs,
           m.to = s, m.term >= currentTerm[s], Takes(log[s], lastApplied[s], m),
           LastTerm(log[s]) = m.term, Len(log[s]) >= 3
    PROVE  NewNextIndex(m) >= Len(log[s])
<1>1. G \in History /\ PeerInv(G) /\ GoodRequest(G, appendAcks, m)
  BY RequestFacts DEF SafeInv, GoodHistory
<1>2. PICK l : l = log[s]
  OBVIOUS
<1>3. PICK h : h = G[m.term].log
  OBVIOUS
<1>4. PICK la \in Nat : la = lastApplied[s]
  BY DEF TypeInv, TypeOK
<1>5. /\ l \in Seq(Entry) /\ Len(l) \in Nat /\ Len(l) >= 3 /\ l[1].index = 0
      /\ LastIndex(l) = Len(l) - 1 /\ GlobalLogLen(l) = Len(l)
  BY <1>1, <1>2, PeerFacts
<1>6. /\ m.prev \in Nat /\ m.entries \in Seq(Entry) /\ m.term \in Nat /\ Len(m.entries) \in Nat
      /\ NewNextIndex(m) = m.prev + 1 + Len(m.entries)
  BY RequestFacts
<1>7. m.prev + 1 = Len(l) \/ (m.prev = la /\ m.prev + 1 <= Len(l))
  <2>1. l \in Seq(Entry) /\ Len(l) >= 1 /\ l[1].index = 0 /\ Takes(l, la, m)
    BY <1>2, <1>4, <1>5
  <2>2. m.prev \in Nat /\ m.entries \in Seq(Entry)
    BY <1>6
  <2> QED
    BY <2>1, <2>2, TakenShape
<1>8. CASE m.prev + 1 = Len(l)
  BY <1>2, <1>5, <1>6, <1>8
<1>9. CASE m.prev + 1 # Len(l)
  <2> SUFFICES ASSUME NewNextIndex(m) < Len(l) PROVE FALSE
    BY <1>2, <1>5, <1>6
  <2>1. m.prev = la /\ ~GoodCase(l, m)
    BY <1>5, <1>6, <1>7, <1>9 DEF GoodCase
  <2>2. ~PrefixEntries(l, la, m)
    BY <1>2, <1>4, <2>1 DEF Takes, BadCase
  <2>3. Same(l, h, Len(l))
    BY <1>1, <1>2, <1>3, <1>5, LastMatches
  <2>4. ASSUME NEW i \in 1..Len(m.entries)
        PROVE  la + i < GlobalLogLen(l) /\ At(l, la + i).term = m.entries[i].term
    <3>0. i \in Nat /\ i >= 1 /\ i <= Len(m.entries) /\ m.prev = la
      BY <1>6, <2>1
    <3>1. PICK j \in Nat : j = la + i + 1 /\ j = m.prev + 1 + i
      BY <3>0
    <3>2. j >= 2 /\ j < Len(l) /\ la + i < Len(l)
      <4>1. PICK n \in Nat, g \in Nat, x \in Nat : n = Len(m.entries) /\ g = Len(l) /\ x = i
        BY <1>5, <1>6, <3>0
      <4>2. NewNextIndex(m) = la + 1 + n
        BY <1>6, <3>0, <4>1
      <4>3. la + 1 + n < g /\ x <= n /\ x >= 1 /\ j = la + x + 1
        BY <3>0, <3>1, <4>1, <4>2
      <4>4. j >= 2 /\ j < g /\ la + x < g
        BY <4>3
      <4> QED
        BY <4>1, <4>4
    <3>3. LocalIndex(l, la + i) = la + i /\ At(l, la + i) = l[j]
      <4>1. LocalIndex(l, la + i) = la + i
        BY <1>5 DEF LocalIndex
      <4> QED
        BY <3>1, <4>1 DEF At
    <3>4. m.entries[i] = h[j]
      BY <1>1, <1>3, <3>1 DEF GoodRequest
    <3>5. CASE j = 2
      <4>1. la = 0 /\ i = 1 /\ m.prev = 0
        BY <3>0, <3>1, <3>5
      <4>2. m.entries # <<>>
        <5>1. Len(m.entries) # 0
          BY <1>6, <3>0
        <5> QED
          BY <1>6, <5>1, EmptySeq
      <4>3. Len(log[s]) >= 2
        BY <1>2, <1>5
      <4>4. log[s][2].term = m.entries[1].term
        BY <1>4, <4>1, <4>2, <4>3 DEF NoLateFirst
      <4>5. l[2].term = m.entries[1].term
        BY <1>2, <4>4
      <4> QED
        BY <1>5, <3>2, <3>3, <3>5, <4>1, <4>5
    <3>6. CASE j >= 3
      <4>1. l[j] = h[j]
        BY <1>5, <2>3, <3>2, <3>6 DEF Same
      <4> QED
        BY <1>5, <3>2, <3>3, <3>4, <4>1
    <3> QED
      BY <3>2, <3>5, <3>6
  <2> QED
    BY <2>2, <2>4 DEF PrefixEntries
<1> QED
  BY <1>8, <1>9

(* A fix package that the peer holds already ends in the request's term.   *)
LEMMA PrefixAhead ==
    ASSUME TypeInv, NEW G, SafeInv(G), NEW s \in Server, NEW m \in appendReqs,
           m.term >= currentTerm[s],
           FixPackage(log[s], lastApplied[s], m), PrefixEntries(log[s], lastApplied[s], m),
           NEW n \in Nat, n >= 3, n <= NewNextIndex(m)
    PROVE  Ahead(log[s], m.term, n)
<1>1. G \in History /\ PeerInv(G) /\ CompleteInv(G) /\ GoodRequest(G, appendAcks, m)
  BY RequestFacts DEF SafeInv, GoodHistory
<1>2. PICK l : l = log[s]
  OBVIOUS
<1>3. PICK h : h = G[m.term].log
  OBVIOUS
<1>4. PICK la \in Nat : la = lastApplied[s]
  BY DEF TypeInv, TypeOK
<1>5. /\ l \in Seq(Entry) /\ Len(l) \in Nat /\ l[1].index = 0
      /\ LastIndex(l) = Len(l) - 1 /\ GlobalLogLen(l) = Len(l) /\ LastTerm(l) \in Nat
      /\ \A i \in 1..Len(l) : l[i].term <= LastTerm(l) /\ l[i].term \in Nat
      /\ LastTerm(l) <= currentTerm[s] /\ currentTerm[s] \in Nat
  BY <1>1, <1>2, PeerFacts DEF PeerInv
<1>6. /\ m.prev \in Nat /\ m.term \in Nat /\ Len(m.entries) \in Nat
      /\ NewNextIndex(m) = m.prev + 1 + Len(m.entries)
  BY RequestFacts
<1>7. PICK e \in Nat : e = NewNextIndex(m)
  BY <1>6
<1>8. m.prev = la /\ la + 1 < Len(l)
  BY <1>2, <1>4, <1>5 DEF FixPackage
<1>9. h[e].term = m.term
  BY <1>1, <1>3, <1>7 DEF GoodRequest
<1>10. e <= Len(l) /\ l[e].term = m.term
  <2>1. CASE Len(m.entries) = 0
    <3>1. e = la + 1 /\ la >= 2
      BY <1>6, <1>7, <1>8, <2>1
    <3>2. Backed(G, appendAcks, l, la, currentTerm[s])
      BY <1>2, <1>4 DEF SafeInv, CommitInv
    <3>3. Same(l, h, la + 1)
      BY <1>1, <1>3, <1>5, <1>6, <3>1, <3>2, RequestFacts, BackedKept
    <3>4. l[e] = h[e]
      BY <3>1, <3>3 DEF Same
    <3> QED
      BY <1>5, <1>8, <1>9, <3>1, <3>4
  <2>2. CASE Len(m.entries) >= 1
    <3>1. PICK i \in 1..Len(m.entries) : i = Len(m.entries)
      BY <1>6, <2>2
    <3>2. la + i < GlobalLogLen(l) /\ At(l, la + i).term = m.entries[i].term
      <4>1. ~(LocalIndex(l, la + 1) < 0)
        BY <1>5 DEF LocalIndex
      <4> QED
        BY <1>2, <1>4, <4>1 DEF PrefixEntries
    <3>3. la + i + 1 = e /\ m.prev + 1 + i = e
      <4>1. e = m.prev + 1 + i /\ m.prev = la /\ i \in Nat
        BY <1>6, <1>7, <1>8, <3>1
      <4> QED
        BY <4>1
    <3>4. At(l, la + i) = l[e]
      <4>1. LocalIndex(l, la + i) = la + i
        BY <1>5 DEF LocalIndex
      <4> QED
        BY <3>3, <4>1 DEF At
    <3>5. m.entries[i] = h[e]
      BY <1>1, <1>3, <3>3 DEF GoodRequest
    <3> QED
      BY <1>5, <1>9, <3>2, <3>3, <3>4, <3>5
  <2> QED
    BY <1>6, <2>1, <2>2
<1>11. LastTerm(l) = m.term
  <2>1. e \in 1..Len(l)
    BY <1>5, <1>7, <1>10
  <2>2. m.term <= LastTerm(l)
    BY <1>5, <1>10, <2>1
  <2> QED
    BY <1>5, <1>6, <2>2
<1> QED
  BY <1>2, <1>5, <1>7, <1>10, <1>11 DEF Ahead

LEMMA SafeAppend ==
    ASSUME TypeInv, TypeInv', VoteInv, NoLateFirst, NEW G, SafeInv(G), NEW s \in Server,
           NEW m \in appendReqs, AppendEntries(s, m)
    PROVE  SafeInv(G)'
<1> USE DEF leaderVars, goroutines, votes, snaps
<1>1. G \in History /\ GoodHistory(G) /\ TypeOK /\ TypeOK' /\ PeerInv(G)
  BY DEF SafeInv, GoodHistory, TypeInv
<1>2. /\ m.to = s /\ m.term >= currentTerm[s]
      /\ currentTerm' = [currentTerm EXCEPT ![s] = m.term]
      /\ state' = [state EXCEPT ![s] = "Follower"]
      /\ log' = [log EXCEPT ![s] = Appended(log[s], lastApplied[s], m)]
      /\ UNCHANGED <<snapshotIndex, lastApplied, matchIndex, campaign, voteReqs, voteReps,
                     appendReqs, snapReqs, snapReps, applied>>
  BY DEF AppendEntries
<1>3. /\ m.term \in Nat /\ m.commit \in Nat /\ NewNextIndex(m) \in Nat /\ currentTerm[s] \in Nat
      /\ lastApplied[s] \in Nat /\ commitIndex[s] \in Nat /\ GoodRequest(G, appendAcks, m)
  BY <1>1, RequestFacts DEF TypeOK
<1>4. PICK l : l = log[s]
  OBVIOUS
<1>5. /\ l \in Seq(Entry) /\ Len(l) \in Nat /\ l[1] = NoopEntry(0, 1)
      /\ LastIndex(l) = Len(l) - 1 /\ (Len(l) >= 2 => l[2].cmd = Noop) /\ Matches(G, l)
      /\ LastTerm(l) \in Nat /\ LastTerm(l) <= currentTerm[s]
      /\ \A i \in 1..Len(l) : l[i].term <= LastTerm(l)
  BY <1>1, <1>4, PeerFacts DEF PeerInv
<1>6. \A t \in Nat, n \in Nat :
          n >= 3 /\ Has(G, appendAcks, s, t, n) => t <= currentTerm[s] /\ Ahead(l, t, n)
  BY <1>4 DEF SafeInv, HasInv
<1>7. /\ commitIndex[s] + 1 <= Len(l)
      /\ Backed(G, appendAcks, l, commitIndex[s], m.term)
      /\ Backed(G, appendAcks, l, lastApplied[s], m.term)
  <2>1. /\ commitIndex[s] + 1 <= Len(l)
        /\ Backed(G, appendAcks, l, commitIndex[s], currentTerm[s])
        /\ Backed(G, appendAcks, l, lastApplied[s], currentTerm[s])
    BY <1>4 DEF SafeInv, CommitInv
  <2> QED
    BY <1>1, <1>2, <1>3, <2>1, GrowsSelf, BackedGrows
<1>8. CASE BadCase(l, lastApplied[s], m)
  <2>1. log' = log /\ commitIndex' = commitIndex /\ appendAcks' = appendAcks
    <3>1. Appended(l, lastApplied[s], m) = l
      BY <1>8 DEF BadCase, Appended
    <3>2. commitIndex' = [commitIndex EXCEPT ![s] = commitIndex[s]] /\ appendAcks' = appendAcks
      BY <1>4, <1>8 DEF AppendEntries
    <3>3. log' = [log EXCEPT ![s] = log[s]]
      BY <1>2, <1>4, <3>1
    <3> QED
      BY <1>1, <3>2, <3>3 DEF TypeOK
  <2>2. /\ \A p \in Server : p # s => currentTerm'[p] = currentTerm[p] /\ state'[p] = state[p]
        /\ currentTerm'[s] = m.term /\ state'[s] = "Follower"
    BY <1>1, <1>2 DEF TypeOK
  <2>3. TermsGrow
    BY <1>1, <1>2, <1>3, <2>2, VoteTypes DEF TermsGrow
  <2>4. NoNewLeader /\ NoNewPoll
    BY <1>2, <2>2 DEF NoNewLeader, NoNewPoll
  <2> QED
    BY <1>2, <2>1, <2>3, <2>4, QuietKeeps
<1>9. PICK r : r = [from |-> s, to |-> m.from, inc |-> m.inc, session |-> m.session,
                    next |-> NewNextIndex(m)]
  OBVIOUS
<1>10. r.from = s /\ r.session = m.term /\ r.next = NewNextIndex(m)
  BY <1>3, <1>9 DEF GoodRequest
\* The peer holds the entries already: it acknowledges them.
<1>11. CASE FixPackage(l, lastApplied[s], m) /\ PrefixEntries(l, lastApplied[s], m)
  <2>1. ~BadCase(l, lastApplied[s], m) /\ Appended(l, lastApplied[s], m) = l
    BY <1>11 DEF BadCase, Appended, FixPackage
  <2>2. /\ log' = [log EXCEPT ![s] = l]
        /\ commitIndex' = [commitIndex EXCEPT ![s] = commitIndex[s]]
        /\ appendAcks' = appendAcks \cup {r}
    BY <1>2, <1>4, <1>9, <1>11, <2>1 DEF AppendEntries
  <2>3. Len(l) >= 2
    <3>1. Len(l) - 1 > lastApplied[s]
      BY <1>5, <1>11 DEF FixPackage
    <3> QED
      BY <1>3, <1>5, <3>1
  <2>4. l[2].cmd = Noop /\ LastTerm(l) <= m.term
    BY <1>2, <1>3, <1>5, <2>3
  <2>5. \A n \in Nat : n >= 3 /\ n <= NewNextIndex(m) => Ahead(l, m.term, n)
    BY <1>2, <1>4, <1>11, PrefixAhead
  <2>6. \A t \in Nat, n \in Nat : n >= 3 /\ Has(G, appendAcks, s, t, n) => Ahead(l, t, n)
    BY <1>6
  <2> QED
    BY <1>2, <1>3, <1>5, <1>7, <1>10, <2>2, <2>3, <2>4, <2>5, <2>6, AckKeeps
\* It takes the leader's entries.
<1>12. CASE Takes(l, lastApplied[s], m)
  <2>1. PICK k \in Seq(Entry) : k = Appended(l, lastApplied[s], m) /\ Len(k) \in Nat
    <3>1. log'[s] \in Seq(Entry)
      BY <1>1 DEF TypeOK, Log
    <3>2. log'[s] = Appended(l, lastApplied[s], m)
      BY <1>1, <1>2, <1>4 DEF TypeOK
    <3> QED
      BY <3>1, <3>2, LenProperties
  <2>2. /\ Len(k) = NewNextIndex(m) /\ Len(k) >= 2
        /\ k[1] = NoopEntry(0, 1) /\ k[2].cmd = Noop
        /\ Same(k, G[m.term].log, Len(k)) /\ Matches(G, k)
        /\ LastTerm(k) = m.term /\ (\A i \in 1..Len(k) : k[i].term <= m.term)
        /\ Backed(G, appendAcks, k, lastApplied[s], m.term)
    BY <1>2, <1>4, <1>12, <2>1, TakenLog
  <2>3. /\ log' = [log EXCEPT ![s] = k]
        /\ commitIndex' = [commitIndex EXCEPT ![s] = m.commit]
        /\ appendAcks' = appendAcks \cup {r}
    BY <1>2, <1>4, <1>9, <1>12, <2>1 DEF AppendEntries, Takes
  <2>4. ASSUME NEW t \in Nat, NEW n \in Nat, n >= 3, Has(G, appendAcks, s, t, n)
        PROVE  Ahead(k, t, n)
    <3>1. t <= currentTerm[s] /\ Ahead(l, t, n)
      BY <1>6, <2>4
    <3>2. CASE t < m.term
      BY <2>2, <3>2 DEF Ahead
    <3>3. CASE t = m.term
      <4>1. LastTerm(l) = m.term /\ Len(l) >= n
        BY <1>2, <1>3, <1>5, <3>1, <3>3 DEF Ahead
      <4>2. Len(l) >= 3
        BY <1>5, <2>4, <4>1
      <4>3. NewNextIndex(m) >= Len(l)
        BY <1>2, <1>4, <1>12, <4>1, <4>2, TakenKeepsAcked
      <4>4. Len(k) >= n
        <5>1. Len(k) >= Len(l)
          BY <2>2, <4>3
        <5> QED
          BY <1>5, <2>1, <4>1, <5>1
      <4> QED
        BY <2>2, <3>3, <4>4 DEF Ahead
    <3> QED
      BY <1>2, <1>3, <3>1, <3>2, <3>3
  <2>5. \A n \in Nat : n >= 3 /\ n <= NewNextIndex(m) => Ahead(k, m.term, n)
    BY <2>1, <2>2 DEF Ahead
  <2>6. m.commit + 1 <= Len(k) /\ Backed(G, appendAcks, k, m.commit, m.term)
    <3>1. m.commit + 1 <= Len(k) /\ Backed(G, appendAcks, G[m.term].log, m.commit, m.term)
      BY <1>3, <2>2 DEF GoodRequest
    <3>2. Same(k, G[m.term].log, m.commit + 1)
      BY <1>1, <1>3, <2>1, <2>2, <3>1, SameShorter, HistoryTypes
    <3> QED
      BY <1>1, <1>3, <3>1, <3>2, BackedSame
  <2>7. LastTerm(k) <= m.term /\ \A i \in 1..Len(k) : k[i].term <= LastTerm(k)
    BY <1>3, <2>2
  <2>8. \A t \in Nat, n \in Nat : n >= 3 /\ Has(G, appendAcks, s, t, n) => Ahead(k, t, n)
    BY <2>4
  <2> QED
    BY <1>2, <1>3, <1>10, <2>2, <2>3, <2>5, <2>6, <2>7, <2>8, AckKeeps
<1> QED
  BY <1>8, <1>11, <1>12 DEF Takes

-----------------------------------------------------------------------------
(* Peer s leads its term and appends an entry of that term: K is the       *)
(* history afterwards.                                                     *)
Extends(G, K, s, e) ==
    LET t == currentTerm[s]
    IN  /\ e \in Entry /\ e.term = t /\ (Len(log[s]) >= 2 \/ e.cmd = Noop)
        /\ G[t].log = <<>> \/ (G[t].log = log[s] /\ G[t].leader = s)
        /\ K = [G EXCEPT ![t] = [leader |-> s, log |-> Append(log[s], e)]]

LEMMA ExtendShape ==
    ASSUME TypeInv, NEW G, SafeInv(G), NEW s \in Server, NEW K, NEW e, Extends(G, K, s, e)
    PROVE  LET t == currentTerm[s]
               l == log[s]
               k == Append(log[s], e)
           IN  /\ t \in Nat /\ t >= 1 /\ K \in History /\ Grows(G, K, appendAcks, appendAcks)
               /\ l \in Seq(Entry) /\ Len(l) \in Nat /\ Len(l) >= 1
               /\ k \in Seq(Entry) /\ Len(k) = Len(l) + 1
               /\ \A j \in 1..Len(l) : k[j] = l[j]
               /\ k[Len(k)] = e /\ LastTerm(k) = t
               /\ K[t].leader = s /\ K[t].log = k
               /\ \A u \in Nat : u # t => K[u] = G[u]
<1>1. G \in History /\ PeerInv(G)
  BY DEF SafeInv, GoodHistory
<1>2. PICK t \in Nat : t = currentTerm[s] /\ t >= 1
  BY <1>1, PeerFacts DEF PeerInv
<1>3. PICK l \in Seq(Entry) : l = log[s] /\ Len(l) \in Nat /\ Len(l) >= 1
  BY <1>1, PeerFacts
<1>4. PICK k : k = Append(log[s], e)
  OBVIOUS
<1>5. e \in Entry /\ e.term = t
  BY <1>2 DEF Extends
<1>6. k \in Seq(Entry) /\ Len(k) = Len(l) + 1 /\ \A j \in 1..Len(l) : k[j] = l[j]
  BY <1>3, <1>4, <1>5, AppendProperties
<1>7. k[Len(k)] = e
  <2>1. k[Len(l) + 1] = e
    BY <1>3, <1>4, <1>5, AppendProperties
  <2> QED
    BY <1>6, <2>1
<1>8. LastTerm(k) = t
  BY <1>5, <1>7 DEF LastTerm
<1>9. K = [G EXCEPT ![t] = [leader |-> s, log |-> k]]
  BY <1>2, <1>4 DEF Extends
<1>10. K \in History /\ K[t].leader = s /\ K[t].log = k /\ \A u \in Nat : u # t => K[u] = G[u]
  BY <1>1, <1>6, <1>9 DEF History
<1>11. Grows(G, K, appendAcks, appendAcks)
  <2> SUFFICES ASSUME NEW u \in Nat
               PROVE  /\ Len(G[u].log) <= Len(K[u].log)
                      /\ \A j \in 1..Len(G[u].log) : K[u].log[j] = G[u].log[j]
                      /\ G[u].log # <<>> => K[u].leader = G[u].leader
    BY DEF Grows
  <2>1. Len(G[u].log) \in Nat /\ (G[u].log = <<>> <=> Len(G[u].log) = 0)
    BY <1>1, HistoryTypes
  <2>2. CASE u # t
    BY <1>10, <2>1, <2>2
  <2>3. CASE u = t /\ G[t].log = <<>>
    BY <1>3, <1>6, <1>10, <2>1, <2>3
  <2>4. CASE u = t /\ G[t].log = l /\ G[t].leader = s
    BY <1>3, <1>6, <1>10, <2>4
  <2> QED
    BY <1>2, <1>3, <2>2, <2>3, <2>4 DEF Extends
<1> QED
  BY <1>2, <1>3, <1>4, <1>6, <1>7, <1>8, <1>10, <1>11

(* Only the leader itself has anything new.                                *)
LEMMA ExtendHas ==
    ASSUME TypeInv, NEW G, SafeInv(G), NEW s \in Server, NEW K, NEW e, Extends(G, K, s, e),
           NEW p, NEW t \in Nat, NEW n \in Nat, n >= 1, Has(K, appendAcks, p, t, n)
    PROVE  \/ Has(G, appendAcks, p, t, n)
           \/ /\ p = s /\ t = currentTerm[s]
              /\ n > Len(G[t].log) /\ n <= Len(Append(log[s], e))
<1>1. G \in History /\ currentTerm[s] \in Nat
  BY ExtendShape DEF SafeInv, GoodHistory
<1>2. Len(G[t].log) \in Nat
  BY <1>1, HistoryTypes
<1>3. CASE \E r \in appendAcks : r.from = p /\ r.session = t /\ r.next >= n
  BY <1>3 DEF Has
<1>4. CASE K[t].leader = p /\ n <= Len(K[t].log) /\ t # currentTerm[s]
  <2>1. K[t] = G[t]
    BY <1>4, ExtendShape
  <2> QED
    BY <1>4, <2>1 DEF Has
<1>5. CASE K[t].leader = p /\ n <= Len(K[t].log) /\ t = currentTerm[s]
  <2>1. p = s /\ n <= Len(Append(log[s], e))
    BY <1>5, ExtendShape
  <2>2. CASE n <= Len(G[t].log)
    <3>1. G[t].log # <<>>
      BY <1>1, <2>2, HistoryTypes
    <3>2. G[t].leader = s
      BY <1>5, <3>1 DEF Extends
    <3> QED
      BY <2>1, <2>2, <3>2 DEF Has
  <2> QED
    BY <1>2, <1>5, <2>1, <2>2
<1> QED
  BY <1>3, <1>4, <1>5 DEF Has

(* The new log matches the history and ends in its own term.               *)
EndsIn(K, k, t) ==
    /\ Matches(K, k) /\ k[1] = NoopEntry(0, 1) /\ k[2].cmd = Noop
    /\ \A i \in 1..Len(k) : k[i].term <= t
    /\ \A i, j \in 2..Len(k) : i <= j /\ k[i].term = t => k[j].term = t

LEMMA ExtendMatches ==
    ASSUME TypeInv, NEW G, SafeInv(G), NEW s \in Server, NEW K, NEW e, Extends(G, K, s, e)
    PROVE  EndsIn(K, Append(log[s], e), currentTerm[s])
<1>1. G \in History /\ GoodHistory(G) /\ PeerInv(G)
  BY DEF SafeInv, GoodHistory
<1>2. PICK t \in Nat : t = currentTerm[s] /\ t >= 1
  BY ExtendShape
<1>3. PICK l : l = log[s]
  OBVIOUS
<1>4. PICK k : k = Append(log[s], e)
  OBVIOUS
<1>5. /\ l \in Seq(Entry) /\ Len(l) \in Nat /\ Len(l) >= 1
      /\ k \in Seq(Entry) /\ Len(k) = Len(l) + 1
      /\ \A j \in 1..Len(l) : k[j] = l[j]
      /\ k[Len(k)] = e /\ K[t].log = k
  BY <1>2, <1>3, <1>4, ExtendShape
<1>6. K \in History /\ Grows(G, K, appendAcks, appendAcks) /\ e.term = t
  <2>1. e.term = t
    BY <1>2 DEF Extends
  <2> QED
    BY <2>1, ExtendShape
<1>7. /\ Matches(G, l) /\ l[1] = NoopEntry(0, 1) /\ (Len(l) >= 2 => l[2].cmd = Noop)
      /\ \A i \in 1..Len(l) : l[i].term <= LastTerm(l) /\ l[i].term \in Nat
      /\ LastTerm(l) <= t /\ LastTerm(l) \in Nat
  BY <1>1, <1>2, <1>3, PeerFacts DEF PeerInv
<1>8. Matches(K, k)
  <2> SUFFICES ASSUME NEW i \in 2..Len(k)
               PROVE  /\ i <= Len(K[k[i].term].log) /\ K[k[i].term].log[i].term = k[i].term
                      /\ Same(k, K[k[i].term].log, i)
    BY DEF Matches
  <2>1. CASE i <= Len(l)
    <3>1. i \in 2..Len(l) /\ i \in 1..Len(l) /\ i \in Nat
      BY <1>5, <2>1
    <3>2. Matches(K, l)
      BY <1>1, <1>5, <1>6, <1>7, MatchesGrow
    <3>3. k[i] = l[i] /\ i <= Len(K[l[i].term].log) /\ K[l[i].term].log[i].term = l[i].term
          /\ Same(l, K[l[i].term].log, i)
      BY <1>5, <3>1, <3>2 DEF Matches
    <3>4. Same(k, l, i)
      BY <1>5, <3>1 DEF Same
    <3> QED
      BY <3>1, <3>3, <3>4, SameTrans
  <2>2. CASE i = Len(k)
    <3>1. k[i].term = t /\ i <= Len(k)
      BY <1>5, <1>6, <2>2
    <3>2. Same(k, k, i)
      BY <3>1 DEF Same
    <3> QED
      BY <1>5, <3>1, <3>2
  <2> QED
    BY <1>5, <2>1, <2>2
<1>9. k[1] = NoopEntry(0, 1) /\ k[2].cmd = Noop
  <2>1. k[1] = l[1]
    BY <1>5
  <2>2. CASE Len(l) >= 2
    BY <1>5, <1>7, <2>1, <2>2
  <2>3. CASE Len(l) = 1
    <3>1. e.cmd = Noop
      BY <1>3, <2>3 DEF Extends
    <3>2. k[2] = e
      BY <1>5, <2>3
    <3> QED
      BY <1>7, <2>1, <3>1, <3>2
  <2>4. Len(l) >= 2 \/ Len(l) = 1
    <3>1. PICK x \in Nat : x = Len(l) /\ x >= 1
      BY <1>5
    <3>2. x >= 2 \/ x = 1
      BY <3>1
    <3> QED
      BY <3>1, <3>2
  <2> QED
    BY <2>2, <2>3, <2>4, Zenon
<1>10. \A i \in 1..Len(k) : k[i].term <= t
  <2> SUFFICES ASSUME NEW i \in 1..Len(k) PROVE k[i].term <= t
    OBVIOUS
  <2>1. CASE i = Len(k)
    BY <1>5, <1>6, <2>1
  <2>2. CASE i <= Len(l)
    <3>1. i \in 1..Len(l)
      BY <1>5, <2>2
    <3>2. k[i] = l[i] /\ l[i].term <= LastTerm(l) /\ l[i].term \in Nat
      BY <1>5, <1>7, <3>1
    <3> QED
      BY <1>7, <3>2
  <2> QED
    BY <1>5, <2>1, <2>2
<1>11. ASSUME NEW i \in 2..Len(k), NEW j \in 2..Len(k), i <= j, k[i].term = t
       PROVE  k[j].term = t
  <2>1. CASE j = Len(k)
    BY <1>5, <1>6, <2>1
  <2>2. CASE j <= Len(l)
    <3>1. i \in 2..Len(l) /\ j \in 2..Len(l) /\ i \in 1..Len(l) /\ j \in 1..Len(l)
      BY <1>5, <1>11, <2>2
    <3>2. k[i] = l[i] /\ k[j] = l[j]
      BY <1>5, <3>1
    <3>3. i <= Len(G[t].log)
      BY <1>7, <1>11, <3>1, <3>2 DEF Matches
    <3>4. G[t].log # <<>>
      BY <1>1, <3>1, <3>3, HistoryTypes
    <3>5. G[t].log = l
      BY <1>2, <1>3, <3>4 DEF Extends
    <3> QED
      BY <1>1, <1>11, <3>1, <3>2, <3>4, <3>5 DEF GoodHistory
  <2> QED
    BY <1>5, <2>1, <2>2
<1>12. EndsIn(K, k, t)
  BY <1>8, <1>9, <1>10, <1>11 DEF EndsIn
<1> QED
  BY <1>2, <1>4, <1>12

LEMMA ExtendHistory ==
    ASSUME TypeInv, NEW G, SafeInv(G), NEW s \in Server, NEW K, NEW e, Extends(G, K, s, e)
    PROVE  GoodHistory(K)
<1>1. G \in History /\ GoodHistory(G) /\ s # Nil
  BY ServerAssumption DEF SafeInv, GoodHistory
<1>2. PICK t \in Nat : t = currentTerm[s] /\ t >= 1
  BY ExtendShape
<1>3. PICK k : k = Append(log[s], e)
  OBVIOUS
<1>4. /\ k \in Seq(Entry) /\ Len(k) \in Nat /\ Len(k) >= 2 /\ k # <<>> /\ k[Len(k)].term = t
      /\ K[t].leader = s /\ K[t].log = k /\ K \in History
      /\ Grows(G, K, appendAcks, appendAcks)
      /\ \A u \in Nat : u # t => K[u] = G[u]
  <2>1. /\ k \in Seq(Entry) /\ Len(k) = Len(log[s]) + 1 /\ Len(log[s]) \in Nat
        /\ Len(log[s]) >= 1 /\ LastTerm(k) = t
    BY <1>2, <1>3, ExtendShape
  <2>2. Len(k) \in Nat /\ Len(k) >= 2
    BY <2>1
  <2>3. k # <<>>
    BY <2>1, <2>2, EmptySeq
  <2>4. k[Len(k)].term = t
    BY <2>1 DEF LastTerm
  <2> QED
    BY <1>2, <1>3, <2>1, <2>2, <2>3, <2>4, ExtendShape
<1>5. EndsIn(K, k, t)
  BY <1>2, <1>3, ExtendMatches
<1>6. \A u \in Nat : K[u].log = <<>> <=> K[u].leader = Nil
  <2> SUFFICES ASSUME NEW u \in Nat PROVE K[u].log = <<>> <=> K[u].leader = Nil
    OBVIOUS
  <2>1. CASE u = t
    BY <1>1, <1>4, <2>1
  <2>2. CASE u # t
    <3>1. K[u] = G[u]
      BY <1>4, <2>2
    <3> QED
      BY <1>1, <3>1 DEF GoodHistory
  <2> QED
    BY <2>1, <2>2
<1>7. ASSUME NEW u \in Nat, K[u].log # <<>>
      PROVE  /\ u >= 1 /\ Len(K[u].log) >= 2
             /\ K[u].log[1] = NoopEntry(0, 1) /\ K[u].log[2].cmd = Noop
             /\ K[u].log[Len(K[u].log)].term = u
             /\ Matches(K, K[u].log)
             /\ \A i \in 1..Len(K[u].log) : K[u].log[i].term <= u
             /\ \A i, j \in 2..Len(K[u].log) :
                   i <= j /\ K[u].log[i].term = u => K[u].log[j].term = u
  <2>1. CASE u = t
    BY <1>2, <1>4, <1>5, <2>1 DEF EndsIn
  <2>2. CASE u # t
    <3>1. K[u] = G[u] /\ G[u].log # <<>> /\ G[u].log \in Seq(Entry)
      BY <1>1, <1>4, <1>7, <2>2, HistoryTypes
    <3>2. Matches(G, G[u].log)
      BY <1>1, <3>1 DEF GoodHistory
    <3>3. Matches(K, G[u].log)
      BY <1>1, <1>4, <3>1, <3>2, MatchesGrow
    <3> QED
      BY <1>1, <3>1, <3>3 DEF GoodHistory
  <2> QED
    BY <2>1, <2>2
<1> QED
  BY <1>4, <1>6, <1>7 DEF GoodHistory

(* Who votes in a later term than its leader's has nothing of what the     *)
(* leader appends now.                                                     *)
LEMMA VotersBlock ==
    ASSUME TypeInv, VoteInv, NEW G, SafeInv(G), NEW s \in Server, NEW K, NEW e,
           Extends(G, K, s, e), NEW u \in Nat, u > currentTerm[s], G[u].log # <<>>,
           NEW n \in Nat, n >= 1, n > Len(G[currentTerm[s]].log)
    PROVE  Blocked(K, appendAcks, currentTerm, currentTerm[s], n)
<1>1. G \in History /\ GoodHistory(G) /\ Elected(G) /\ MessageInv(G) /\ TypeOK
  BY DEF SafeInv, GoodHistory, TypeInv
<1>2. PICK t \in Nat : t = currentTerm[s]
  BY ExtendShape
<1>3. PICK x \in Server : x = G[u].leader
  BY <1>1, HistoryTypes DEF GoodHistory
<1>4. u <= currentTerm[x] /\ Majority(Ballots(x, u)) /\ currentTerm[x] \in Nat
  BY <1>1, <1>3, VoteTypes DEF Elected
<1>5. Len(G[t].log) \in Nat
  BY <1>1, HistoryTypes
<1>6. ASSUME NEW p \in Ballots(x, u)
      PROVE  p \in Server /\ currentTerm[p] > t /\ ~Has(K, appendAcks, p, t, n)
  <2>1. p \in Server /\ currentTerm[p] \in Nat /\ u <= currentTerm[p]
    BY <1>1, <1>3, <1>4, <1>6, VoteTypes DEF Ballots, VoteInv, VotesBind
  <2>2. currentTerm[p] > t /\ p # s
    BY <1>2, <2>1
  <2>3. ~Has(G, appendAcks, p, t, n)
    <3>1. \A r \in appendAcks : r.next \in Nat /\ r.next <= Len(G[r.session].log)
      BY <1>1 DEF MessageInv, TypeOK, AppendAck
    <3> QED
      BY <1>2, <1>5, <3>1 DEF Has
  <2> QED
    BY <2>1, <2>2, <2>3, ExtendHas
<1>7. Ballots(x, u) \subseteq {p \in Server : currentTerm[p] > t /\ ~Has(K, appendAcks, p, t, n)}
  BY <1>6
<1> QED
  BY <1>2, <1>4, <1>7, MajorityGrows DEF Blocked

(* The log of s holds what earlier leaders had, or it is never decided.    *)
Covers(G, s) ==
    \A t \in Nat, n \in Nat : t < currentTerm[s] /\ 3 <= n /\ n <= Len(G[t].log) =>
        \/ Same(log[s], G[t].log, n)
        \/ Blocked(G, appendAcks, currentTerm, t, n)

LEMMA ExtendComplete ==
    ASSUME TypeInv, VoteInv, NEW G, SafeInv(G), NEW s \in Server, NEW K, NEW e,
           Extends(G, K, s, e), Covers(G, s)
    PROVE  CompleteInv(K)
<1>1. G \in History /\ CompleteInv(G)
  BY DEF SafeInv, GoodHistory
<1>2. PICK t0 \in Nat : t0 = currentTerm[s]
  BY ExtendShape
<1>3. PICK k : k = Append(log[s], e)
  OBVIOUS
<1>4. /\ K[t0].log = k /\ K \in History /\ Len(log[s]) \in Nat /\ Len(k) = Len(log[s]) + 1
      /\ \A j \in 1..Len(log[s]) : k[j] = log[s][j]
      /\ \A u \in Nat : u # t0 => K[u] = G[u]
      /\ Grows(G, K, appendAcks, appendAcks)
  BY <1>2, <1>3, ExtendShape
<1>5. ASSUME NEW t \in Nat, NEW n \in Nat, n >= 3, t # t0 \/ n <= Len(G[t].log),
             Blocked(G, appendAcks, currentTerm, t, n)
      PROVE  Blocked(K, appendAcks, currentTerm, t, n)
  <2>1. Len(G[t].log) \in Nat
    BY <1>1, HistoryTypes
  <2>2. \A p \in Server : Has(K, appendAcks, p, t, n) => Has(G, appendAcks, p, t, n)
    BY <1>2, <1>5, <2>1, ExtendHas
  <2>3. {p \in Server : currentTerm[p] > t /\ ~Has(G, appendAcks, p, t, n)}
        \subseteq {p \in Server : currentTerm[p] > t /\ ~Has(K, appendAcks, p, t, n)}
    BY <2>2
  <2> QED
    BY <1>5, <2>3, MajorityGrows DEF Blocked
<1> SUFFICES ASSUME NEW t \in Nat, NEW u \in Nat, NEW n \in Nat, t < u, K[u].log # <<>>,
                    3 <= n, n <= Len(K[t].log)
             PROVE  Same(K[u].log, K[t].log, n) \/ Blocked(K, appendAcks, currentTerm, t, n)
  BY DEF CompleteInv
<1>6. CASE u = t0
  <2>1. K[t] = G[t] /\ t < currentTerm[s] /\ n <= Len(G[t].log)
    BY <1>2, <1>4, <1>6
  <2>2. CASE Same(log[s], G[t].log, n)
    <3>1. Same(k, G[t].log, n)
      BY <1>4, <2>2 DEF Same
    <3> QED
      BY <1>4, <1>6, <2>1, <3>1
  <2>3. CASE Blocked(G, appendAcks, currentTerm, t, n)
    BY <1>5, <2>1, <2>3
  <2> QED
    BY <2>1, <2>2, <2>3 DEF Covers
<1>7. CASE u # t0 /\ t # t0
  <2>1. K[t] = G[t] /\ K[u] = G[u]
    BY <1>4, <1>7
  <2>2. Same(G[u].log, G[t].log, n) \/ Blocked(G, appendAcks, currentTerm, t, n)
    BY <1>1, <2>1 DEF CompleteInv
  <2> QED
    BY <1>5, <1>7, <2>1, <2>2
<1>8. CASE t = t0
  <2>1. K[u] = G[u] /\ G[u].log # <<>> /\ Len(G[t].log) \in Nat
    BY <1>1, <1>4, <1>8, HistoryTypes
  <2>2. CASE n <= Len(G[t].log)
    <3>1. Same(G[u].log, G[t].log, n) \/ Blocked(G, appendAcks, currentTerm, t, n)
      BY <1>1, <2>1, <2>2 DEF CompleteInv
    <3>2. Same(G[u].log, G[t].log, n) => Same(G[u].log, K[t].log, n)
      BY <1>1, <1>4, SameGrows
    <3> QED
      BY <1>5, <2>1, <2>2, <3>1, <3>2
  <2>3. CASE n > Len(G[t].log)
    BY <1>2, <1>8, <2>1, <2>3, VotersBlock
  <2> QED
    BY <2>1, <2>2, <2>3
<1> QED
  BY <1>6, <1>7, <1>8

(* The step: s is leader then, its matchIndex starts anew or goes on, and  *)
(* a candidate that wins stops polling.                                    *)
LeaderAppends(G, s, e) ==
    /\ log' = [log EXCEPT ![s] = Append(log[s], e)]
    /\ state' = [state EXCEPT ![s] = "Leader"]
    /\ campaign' = campaign \/ campaign' = [campaign EXCEPT ![s] = Idle]
    /\ G[currentTerm[s]].log = <<>> => campaign'[s].pc # "polling"
    /\ \A x \in Server : x # s => matchIndex'[x] = matchIndex[x]
    /\ matchIndex'[s][s] = Len(log[s])
    /\ \A p \in Server : p # s =>
          \/ matchIndex'[s][p] = 0
          \/ (state[s] = "Leader" /\ matchIndex'[s][p] = matchIndex[s][p])
    /\ UNCHANGED <<currentTerm, snapshotIndex, commitIndex, lastApplied, voteReqs, voteReps,
                   appendReqs, appendAcks, snapReqs, snapReps, applied>>

LEMMA ExtendKeeps ==
    ASSUME TypeInv, TypeInv', VoteInv, NEW G, SafeInv(G), NEW s \in Server, NEW K, NEW e,
           Extends(G, K, s, e), Majority(Ballots(s, currentTerm[s])), Covers(G, s),
           LeaderAppends(G, s, e)
    PROVE  SafeInv(K)'
<1>0. UNCHANGED <<currentTerm, snapshotIndex, commitIndex, lastApplied, voteReqs, voteReps,
                  appendReqs, appendAcks, snapReqs, snapReps, applied>>
  BY DEF LeaderAppends
<1> USE <1>0
<1>1. G \in History /\ GoodHistory(G) /\ TypeOK /\ TypeOK' /\ PeerInv(G) /\ s # Nil
  BY ServerAssumption DEF SafeInv, GoodHistory, TypeInv
<1>2. PICK t0 \in Nat : t0 = currentTerm[s] /\ t0 >= 1
  BY ExtendShape
<1>3. PICK l : l = log[s]
  OBVIOUS
<1>4. PICK k : k = Append(log[s], e)
  OBVIOUS
<1>5. /\ K \in History /\ Grows(G, K, appendAcks, appendAcks)
      /\ l \in Seq(Entry) /\ Len(l) \in Nat /\ Len(l) >= 1
      /\ k \in Seq(Entry) /\ Len(k) = Len(l) + 1 /\ LastTerm(k) = t0
      /\ \A j \in 1..Len(l) : k[j] = l[j]
      /\ K[t0].leader = s /\ K[t0].log = k
      /\ \A u \in Nat : u # t0 => K[u] = G[u]
  BY <1>2, <1>3, <1>4, ExtendShape
<1>6. G[t0].log = <<>> \/ (G[t0].log = l /\ G[t0].leader = s)
  BY <1>2, <1>3 DEF Extends
<1>7. /\ \A p \in Server : p # s => /\ log'[p] = log[p] /\ state'[p] = state[p]
                                    /\ campaign'[p] = campaign[p]
      /\ log'[s] = k /\ state'[s] = "Leader" /\ currentTerm' = currentTerm
  BY <1>1, <1>4 DEF TypeOK, LeaderAppends
<1>8. ASSUME NEW p, NEW t \in Nat, NEW n \in Nat, n >= 1, Has(K, appendAcks, p, t, n)
      PROVE  Has(G, appendAcks, p, t, n) \/ (p = s /\ t = t0 /\ n <= Len(k))
  BY <1>2, <1>4, <1>8, ExtendHas
<1>9. EndsIn(K, k, t0)
  BY <1>2, <1>4, ExtendMatches
<1>10. GoodHistory(K)'
  BY ExtendHistory DEF GoodHistory
<1>11. Elected(K)'
  <2> SUFFICES ASSUME NEW t \in Nat, K[t].log # <<>>
               PROVE  t <= currentTerm[K[t].leader] /\ Majority(Ballots(K[t].leader, t))
    <3>1. \A p, t : Ballots(p, t)' = Ballots(p, t)
      BY DEF Ballots
    <3> QED
      BY <3>1 DEF Elected
  <2>1. CASE t = t0
    BY <1>2, <1>5, <2>1
  <2>2. CASE t # t0
    <3>1. K[t] = G[t]
      BY <1>5, <2>2
    <3> QED
      BY <3>1 DEF SafeInv, Elected
  <2> QED
    BY <2>1, <2>2
<1>12. PeerInv(K)'
  <2> SUFFICES ASSUME NEW p \in Server
               PROVE  /\ log'[p][1] = NoopEntry(0, 1) /\ snapshotIndex[p] = 0
                      /\ Len(log'[p]) >= 2 => log'[p][2].cmd = Noop
                      /\ currentTerm[p] >= 1
                      /\ Matches(K, log'[p])
                      /\ \A i \in 1..Len(log'[p]) : log'[p][i].term <= LastTerm(log'[p])
                      /\ LastTerm(log'[p]) <= currentTerm[p]
                      /\ state'[p] = "Leader" => /\ K[currentTerm[p]].leader = p
                                                 /\ K[currentTerm[p]].log = log'[p]
    BY DEF PeerInv, LastTerm
  <2>1. CASE p = s
    <3>1. snapshotIndex[s] = 0
      BY <1>1 DEF PeerInv
    <3>2. /\ k[1] = NoopEntry(0, 1) /\ k[2].cmd = Noop /\ Matches(K, k)
          /\ \A i \in 1..Len(k) : k[i].term <= t0
      BY <1>9 DEF EndsIn
    <3>3. LastTerm(k) = t0 /\ K[t0].leader = s /\ K[t0].log = k /\ log'[s] = k
      BY <1>5, <1>7
    <3> QED
      BY <1>2, <2>1, <3>1, <3>2, <3>3
  <2>2. CASE p # s
    <3>1. Matches(K, log[p])
      <4>1. log[p] \in Seq(Entry)
        BY <1>1, PeerFacts
      <4>2. Matches(G, log[p])
        BY <1>1 DEF PeerInv
      <4> QED
        BY <1>1, <1>5, <4>1, <4>2, MatchesGrow
    <3>2. ASSUME state[p] = "Leader"
          PROVE  K[currentTerm[p]].leader = p /\ K[currentTerm[p]].log = log[p]
      <4>1. /\ currentTerm[p] \in Nat /\ G[currentTerm[p]].log = log[p]
            /\ G[currentTerm[p]].log # <<>> /\ G[currentTerm[p]].leader = p
        BY <1>1, <3>2, LeaderLog
      <4>2. currentTerm[p] # t0
        BY <1>6, <2>2, <4>1
      <4> QED
        BY <1>5, <4>1, <4>2
    <3> QED
      BY <1>1, <1>7, <2>2, <3>1, <3>2 DEF PeerInv
  <2> QED
    BY <2>1, <2>2
<1>13. PollInv(K)'
  <2> SUFFICES ASSUME NEW p \in Server, campaign'[p].pc = "polling"
               PROVE  /\ K[campaign'[p].term].leader # p
                      /\ state'[p] = "Candidate" =>
                            \E q \in voteReqs : /\ q.from = p /\ q.term = currentTerm[p]
                                                /\ q.lastLogIndex = Len(log'[p])
                                                /\ q.lastLogTerm = LastTerm(log'[p])
    BY DEF PollInv, LastTerm
  <2>1. campaign'[p] = campaign[p]
    BY <1>1, <1>7 DEF TypeOK, Idle, LeaderAppends
  <2>2. G[campaign[p].term].leader # p /\ campaign[p].term \in Nat
    BY <1>1, <2>1 DEF SafeInv, PollInv, TypeOK, Campaign
  <2>3. CASE p = s
    <3>1. G[t0].leader = s
      BY <1>2, <1>6, <2>3 DEF LeaderAppends
    <3>2. campaign[s].term # t0
      BY <2>2, <2>3, <3>1
    <3> QED
      BY <1>5, <1>7, <2>1, <2>2, <2>3, <3>2
  <2>4. CASE p # s
    <3>1. K[campaign[p].term].leader # p
      BY <1>5, <2>2, <2>4
    <3> QED
      BY <1>7, <2>1, <2>4, <3>1 DEF SafeInv, PollInv
  <2> QED
    BY <2>3, <2>4
<1>14. RequestInv(K)'
  BY <1>5, RequestGrows DEF RequestInv
<1>15. MessageInv(K)'
  <2>1. ASSUME NEW r \in appendAcks PROVE 2 <= r.next /\ r.next <= Len(K[r.session].log)
    <3>1. r.session \in Nat /\ r.next \in Nat
      BY <1>1 DEF TypeOK, AppendAck
    <3>2. 2 <= r.next /\ r.next <= Len(G[r.session].log)
      BY DEF SafeInv, MessageInv
    <3>3. /\ Len(G[r.session].log) <= Len(K[r.session].log)
          /\ Len(G[r.session].log) \in Nat /\ Len(K[r.session].log) \in Nat
      BY <1>1, <1>5, <3>1, HistoryTypes DEF Grows
    <3> QED
      BY <3>1, <3>2, <3>3
  <2> QED
    BY <2>1 DEF SafeInv, MessageInv
<1>16. HasInv(K)'
  <2> SUFFICES ASSUME NEW p \in Server, NEW t \in Nat, NEW n \in Nat, n >= 3,
                      Has(K, appendAcks, p, t, n)
               PROVE  t <= currentTerm[p] /\ Ahead(log'[p], t, n)
    BY DEF HasInv, Ahead, LastTerm
  <2>1. CASE p = s /\ t = t0 /\ n <= Len(k)
    <3>1. LastTerm(k) = t0 /\ Len(k) >= n
      BY <1>5, <2>1
    <3>2. Ahead(k, t, n)
      BY <2>1, <3>1 DEF Ahead
    <3> QED
      BY <1>2, <1>7, <2>1, <3>2
  <2>2. CASE Has(G, appendAcks, p, t, n)
    <3>1. t <= currentTerm[p] /\ Ahead(log[p], t, n)
      BY <2>2 DEF SafeInv, HasInv
    <3>2. CASE p # s
      BY <1>7, <3>1, <3>2
    <3>3. CASE p = s
      <4>1. LastTerm(l) <= t0 /\ LastTerm(l) \in Nat
        BY <1>1, <1>2, <1>3, PeerFacts DEF PeerInv
      <4>2. t <= t0 /\ (t = t0 => Len(l) >= n)
        BY <1>2, <1>3, <3>1, <3>3, <4>1 DEF Ahead
      <4>3. Ahead(k, t, n)
        BY <1>5, <4>2 DEF Ahead
      <4> QED
        BY <1>2, <1>7, <3>3, <4>2, <4>3
    <3> QED
      BY <3>2, <3>3
  <2> QED
    BY <1>8, <2>1, <2>2
\* s has not voted in a later term.
<1>17. PromiseInv(K)'
  <2> SUFFICES ASSUME NEW q \in voteReqs, NEW p \in Ballots(q.from, q.term),
                      NEW t \in Nat, NEW n \in Nat, n >= 3, t < q.term,
                      Has(K, appendAcks, p, t, n)
               PROVE  Beats(q, t, n)
    BY DEF PromiseInv, Ballots
  <2>1. CASE Has(G, appendAcks, p, t, n)
    BY <2>1 DEF SafeInv, PromiseInv
  <2>2. CASE p = s /\ t = t0
    <3>1. q.term \in Nat /\ q.term <= currentTerm[s]
      BY <1>1, <2>2, VoteTypes DEF Ballots, VoteInv, RequestsBind, VotesBind
    <3> QED
      BY <1>2, <2>2, <3>1
  <2> QED
    BY <1>8, <2>1, <2>2
<1>18. CompleteInv(K)'
  <2>1. CompleteInv(K)
    BY ExtendComplete
  <2> QED
    BY <2>1 DEF CompleteInv
<1>19. CommitInv(K)'
  <2> SUFFICES ASSUME NEW p \in Server
               PROVE  /\ commitIndex[p] + 1 <= Len(log'[p])
                      /\ Backed(K, appendAcks, log'[p], commitIndex[p], currentTerm[p])
                      /\ Backed(K, appendAcks, log'[p], lastApplied[p], currentTerm[p])
    BY DEF CommitInv
  <2>1. commitIndex[p] \in Nat /\ lastApplied[p] \in Nat /\ currentTerm[p] \in Nat
    BY <1>1 DEF TypeOK
  <2>2. /\ commitIndex[p] + 1 <= Len(log[p])
        /\ Backed(G, appendAcks, log[p], commitIndex[p], currentTerm[p])
        /\ Backed(G, appendAcks, log[p], lastApplied[p], currentTerm[p])
    BY DEF SafeInv, CommitInv
  <2>3. /\ Backed(K, appendAcks, log[p], commitIndex[p], currentTerm[p])
        /\ Backed(K, appendAcks, log[p], lastApplied[p], currentTerm[p])
    BY <1>1, <1>5, <2>1, <2>2, BackedGrows
  <2>4. CASE p # s
    BY <1>7, <2>2, <2>3, <2>4
  <2>5. CASE p = s
    <3>1. ASSUME NEW i \in Nat, Backed(K, appendAcks, l, i, currentTerm[s])
          PROVE  Backed(K, appendAcks, k, i, currentTerm[s])
      <4>1. CASE i <= 1
        BY <4>1 DEF Backed
      <4>2. CASE i > 1
        <5>1. i + 1 <= Len(l)
          BY <3>1, <4>2 DEF Backed, Same
        <5>2. Same(k, l, i + 1)
          BY <1>5, <5>1 DEF Same
        <5> QED
          BY <1>5, <2>1, <2>5, <3>1, <5>2, BackedSame
      <4> QED
        BY <4>1, <4>2
    <3>2. commitIndex[s] + 1 <= Len(k)
      <4>1. commitIndex[s] + 1 <= Len(l)
        BY <1>3, <2>2, <2>5
      <4> QED
        BY <1>5, <2>1, <2>5, <4>1
    <3>3. /\ Backed(K, appendAcks, k, commitIndex[s], currentTerm[s])
          /\ Backed(K, appendAcks, k, lastApplied[s], currentTerm[s])
      BY <1>3, <2>1, <2>3, <2>5, <3>1
    <3> QED
      BY <1>7, <2>5, <3>2, <3>3
  <2> QED
    BY <2>4, <2>5
<1>20. MatchInv(K)'
  <2> SUFFICES ASSUME NEW x \in Server
               PROVE  \E t \in 0..currentTerm[x] :
                          /\ state'[x] = "Leader" => t = currentTerm[x]
                          /\ \A p \in Server :
                                \/ matchIndex'[x][p] <= 1
                                \/ Has(K, appendAcks, p, t, matchIndex'[x][p] + 1)
    BY DEF MatchInv
  <2>1. PICK t \in 0..currentTerm[x] :
            /\ state[x] = "Leader" => t = currentTerm[x]
            /\ \A p \in Server : \/ matchIndex[x][p] <= 1
                                 \/ Has(G, appendAcks, p, t, matchIndex[x][p] + 1)
    BY DEF SafeInv, MatchInv
  <2>2. \A p \in Server : matchIndex[x][p] \in Nat
    BY <1>1 DEF TypeOK
  <2>3. t \in Nat /\ currentTerm[x] \in Nat
    BY <1>1, <2>1 DEF TypeOK
  <2>4. ASSUME NEW p \in Server
        PROVE  \/ matchIndex[x][p] <= 1
               \/ Has(K, appendAcks, p, t, matchIndex[x][p] + 1)
    <3>1. PICK n \in Nat : n = matchIndex[x][p] + 1 /\ n >= 1
      BY <2>2
    <3>2. Has(G, appendAcks, p, t, n) => Has(K, appendAcks, p, t, n)
      BY <1>1, <1>5, <2>3, <3>1, HasGrows
    <3> QED
      BY <2>1, <3>1, <3>2
  <2>5. CASE x # s
    BY <1>7, <2>1, <2>4, <2>5 DEF LeaderAppends
  <2>6. CASE x = s
    <3>1. t0 \in 0..currentTerm[s]
      BY <1>2
    <3>2. ASSUME NEW p \in Server
          PROVE  \/ matchIndex'[s][p] <= 1
                 \/ Has(K, appendAcks, p, t0, matchIndex'[s][p] + 1)
      <4>1. CASE p = s
        <5>1. matchIndex'[s][s] + 1 = Len(K[t0].log)
          BY <1>3, <1>5 DEF LeaderAppends
        <5> QED
          BY <1>5, <4>1, <5>1 DEF Has
      <4>2. CASE p # s /\ matchIndex'[s][p] = 0
        BY <4>2
      <4>3. CASE p # s /\ state[s] = "Leader" /\ matchIndex'[s][p] = matchIndex[s][p]
        <5>1. t = t0
          BY <1>2, <2>1, <2>6, <4>3
        <5> QED
          BY <2>4, <2>6, <4>3, <5>1
      <4> QED
        BY <4>1, <4>2, <4>3 DEF LeaderAppends
    <3> QED
      BY <1>2, <2>6, <3>1, <3>2
  <2> QED
    BY <2>5, <2>6
<1>21. AppliedInv(K)'
  BY <1>1, <1>5, AppliedGrows DEF SafeInv, AppliedInv
<1> QED
  BY <1>10, <1>11, <1>12, <1>13, <1>14, <1>15, <1>16, <1>17, <1>18, <1>19, <1>20, <1>21 DEF SafeInv

LEMMA SafeStart ==
    ASSUME TypeInv, TypeInv', VoteInv, NEW G, SafeInv(G), NEW s \in Server,
           NEW c \in Submits[s], Start(s, c)
    PROVE  \E K \in History : SafeInv(K)'
<1> USE DEF goroutines, network, votes, appends, snaps
<1>1. G \in History /\ GoodHistory(G) /\ TypeOK /\ TypeOK' /\ PeerInv(G) /\ state[s] = "Leader"
  BY DEF SafeInv, GoodHistory, TypeInv, Start
<1>2. PICK t \in Nat : t = currentTerm[s]
  BY <1>1 DEF TypeOK
<1>3. G[t].log = log[s] /\ G[t].log # <<>> /\ G[t].leader = s
  BY <1>1, <1>2, LeaderLog
<1>4. Len(log[s]) >= 2
  BY <1>1, <1>3 DEF GoodHistory
<1>5. GlobalLogLen(log[s]) = Len(log[s]) /\ Len(log[s]) \in Nat
  BY <1>1, PeerFacts
<1>6. PICK e : e = [term |-> t, index |-> Len(log[s]), cmd |-> c]
  OBVIOUS
<1>7. e \in Entry /\ e.term = t
  BY <1>5, <1>6, SubmitsAssumption DEF Entry
<1>8. PICK K : K = [G EXCEPT ![t] = [leader |-> s, log |-> Append(log[s], e)]]
  OBVIOUS
<1>9. Extends(G, K, s, e)
  BY <1>2, <1>3, <1>4, <1>7, <1>8 DEF Extends
<1>10. Majority(Ballots(s, currentTerm[s]))
  BY <1>1 DEF VoteInv, LeadersElected
<1>11. Covers(G, s)
  BY <1>2, <1>3 DEF Covers, SafeInv, CompleteInv
<1>12. LeaderAppends(G, s, e)
  <2>1. log' = [log EXCEPT ![s] = Append(log[s], e)]
    BY <1>2, <1>5, <1>6 DEF Start
  <2>2. state' = [state EXCEPT ![s] = "Leader"] /\ campaign' = campaign
    BY <1>1 DEF Start, TypeOK
  <2>3. matchIndex' = [matchIndex EXCEPT ![s][s] = Len(log[s])]
    BY <1>5 DEF Start
  <2>4. /\ \A x \in Server : x # s => matchIndex'[x] = matchIndex[x]
        /\ matchIndex'[s][s] = Len(log[s])
        /\ \A p \in Server : p # s => matchIndex'[s][p] = matchIndex[s][p]
    BY <1>1, <2>3 DEF TypeOK
  <2>5. UNCHANGED <<currentTerm, snapshotIndex, commitIndex, lastApplied, voteReqs, voteReps,
                    appendReqs, appendAcks, snapReqs, snapReps, applied>>
    BY DEF Start
  <2> QED
    BY <1>1, <1>2, <1>3, <2>1, <2>2, <2>4, <2>5 DEF LeaderAppends
<1>13. K \in History
  BY <1>9, ExtendShape
<1>14. SafeInv(K)'
  BY <1>9, <1>10, <1>11, <1>12, ExtendKeeps
<1> QED
  BY <1>13, <1>14

(* One peer of several is no majority.                                     *)
LEMMA OneIsFew ==
    ASSUME NEW x \in Server, NEW s \in Server, x # s, Majority({x})
    PROVE  FALSE
<1>1. IsFiniteSet({x}) /\ Cardinality({x}) = 1
  BY FS_Singleton
<1>2. IsFiniteSet({x} \cup {s}) /\ Cardinality({x} \cup {s}) = 2
  BY <1>1, FS_AddElement
<1>3. IsFiniteSet(Server) /\ Cardinality(Server) \in Nat
  BY ServerAssumption, FS_CardinalityType
<1>4. Cardinality({x} \cup {s}) <= Cardinality(Server)
  <2>1. {x} \cup {s} \subseteq Server
    OBVIOUS
  <2> QED
    BY <1>3, <2>1, FS_Subset
<1> QED
  BY <1>1, <1>2, <1>3, <1>4 DEF Majority

(* A candidate with a majority leads a term nobody led.                    *)
LEMMA WinFresh ==
    ASSUME TypeInv, VoteInv, NEW G, SafeInv(G), NEW s \in Server,
           campaign[s].pc = "polling", state[s] = "Candidate",
           Majority(Ballots(s, campaign[s].term))
    PROVE  /\ currentTerm[s] \in Nat /\ campaign[s].term = currentTerm[s]
           /\ Majority(Ballots(s, currentTerm[s])) /\ G[currentTerm[s]].log = <<>>
<1>1. G \in History /\ GoodHistory(G) /\ TypeOK
  BY DEF SafeInv, GoodHistory, TypeInv
<1>2. PICK t \in Nat : t = currentTerm[s]
  BY <1>1 DEF TypeOK
<1>3. campaign[s].term = t /\ Majority(Ballots(s, t))
  BY <1>2 DEF VoteInv, PollsInTerm
<1>4. G[t].leader # s
  BY <1>3 DEF SafeInv, PollInv
<1>5. ASSUME G[t].log # <<>> PROVE FALSE
  <2>1. PICK x \in Server : x = G[t].leader
    BY <1>1, <1>5, HistoryTypes DEF GoodHistory
  <2>2. Majority(Ballots(x, t))
    BY <1>5, <2>1 DEF SafeInv, Elected
  <2>3. PICK p \in Server : p \in Ballots(x, t) /\ p \in Ballots(s, t)
    BY <1>3, <2>2, MajoritiesMeet
  <2>4. \E m \in voteReqs : m.from = s /\ m.term = t
    BY <1>3 DEF VoteInv, PollsInTerm
  <2>5. x # s
    BY <1>4, <2>1
  <2>6. p = x => \E r \in voteReps : r.from = x /\ r.to = s /\ r.term = t
    BY <2>3, <2>5 DEF Ballots
  <2>7. p # x => \E r \in voteReps : r.from = p /\ r.to = x /\ r.term = t
    BY <2>3 DEF Ballots
  <2>8. \E m \in voteReqs : m.from = x /\ m.term = t
    <3>1. PICK r \in voteReps : r.to = x /\ r.term = t
      <4>1. ASSUME \A r \in voteReps : ~(r.to = x /\ r.term = t) PROVE FALSE
        <5>1. Ballots(x, t) = {x}
          BY <4>1 DEF Ballots
        <5> QED
          BY <2>2, <2>5, <5>1, OneIsFew
      <4> QED
        BY <4>1
    <3> QED
      BY <3>1 DEF SafeInv, MessageInv
  <2>9. p = s \/ \E r \in voteReps : r.from = p /\ r.to = s /\ r.term = t
    BY <2>3 DEF Ballots
  <2>10. VotesOnce
    BY DEF VoteInv
  <2> QED
    BY <2>4, <2>5, <2>6, <2>7, <2>8, <2>9, <2>10 DEF VotesOnce
<1> QED
  BY <1>2, <1>3, <1>5

(* Why it is complete: one of its voters has what was decided, so the      *)
(* candidate's log is at least as up to date; then it ends in that term,   *)
(* or in a later one, whose leader had it too.                             *)
LEMMA WinCovers ==
    ASSUME TypeInv, VoteInv, NEW G, SafeInv(G), NEW s \in Server,
           campaign[s].pc = "polling", state[s] = "Candidate",
           Majority(Ballots(s, campaign[s].term))
    PROVE  Covers(G, s)
<1>1. G \in History /\ GoodHistory(G) /\ TypeOK /\ PeerInv(G) /\ CompleteInv(G)
  BY DEF SafeInv, GoodHistory, TypeInv
<1>2. PICK t0 \in Nat : t0 = currentTerm[s]
  BY <1>1 DEF TypeOK
<1>3. Majority(Ballots(s, t0)) /\ G[t0].log = <<>>
  BY <1>2, WinFresh
<1> SUFFICES ASSUME NEW t \in Nat, NEW n \in Nat, t < t0, 3 <= n, n <= Len(G[t].log),
                    ~Blocked(G, appendAcks, currentTerm, t, n)
             PROVE  Same(log[s], G[t].log, n)
  BY <1>2 DEF Covers
<1>4. PICK h : h = G[t].log
  OBVIOUS
<1>5. /\ h \in Seq(Entry) /\ Len(h) \in Nat /\ h # <<>> /\ n <= Len(h) /\ t >= 1
      /\ \A i \in 1..Len(h) : h[i].term <= t /\ h[i].term \in Nat
  <2>1. h \in Seq(Entry) /\ Len(h) \in Nat /\ h # <<>>
    BY <1>1, <1>4, HistoryTypes
  <2>2. t >= 1 /\ \A i \in 1..Len(h) : h[i].term <= t
    BY <1>1, <1>4, <2>1 DEF GoodHistory
  <2>3. \A i \in 1..Len(h) : h[i].term \in Nat
    BY <1>1, <1>4, HistoryTypes
  <2> QED
    BY <1>4, <2>1, <2>2, <2>3
<1>6. PICK p \in Ballots(s, t0) : Has(G, appendAcks, p, t, n)
  <2>1. ASSUME NEW p \in Ballots(s, t0) PROVE p \in Server /\ currentTerm[p] > t
    <3>1. p \in Server /\ currentTerm[p] \in Nat /\ t0 <= currentTerm[p]
      BY <1>1, <1>2, <2>1, VoteTypes DEF Ballots, VoteInv, VotesBind
    <3> QED
      BY <3>1
  <2>2. ASSUME \A p \in Ballots(s, t0) : ~Has(G, appendAcks, p, t, n) PROVE FALSE
    <3>1. Ballots(s, t0) \subseteq
              {p \in Server : currentTerm[p] > t /\ ~Has(G, appendAcks, p, t, n)}
      BY <2>1, <2>2
    <3> QED
      BY <1>3, <3>1, MajorityGrows DEF Blocked
  <2> QED
    BY <2>2
<1>7. PICK l : l = log[s]
  OBVIOUS
<1>8. PICK v \in Nat : v = LastTerm(l)
  BY <1>1, <1>7, PeerFacts
<1>9. /\ Len(l) \in Nat /\ Len(l) >= 1 /\ l[1].term = 1 /\ v = l[Len(l)].term /\ v <= t0
  BY <1>1, <1>2, <1>7, <1>8, PeerFacts DEF PeerInv
<1>10. v > t \/ (v = t /\ Len(l) >= n)
  <2>1. PICK m \in voteReqs : /\ m.from = s /\ m.term = t0 /\ m.lastLogIndex = Len(l)
                              /\ m.lastLogTerm = v
    BY <1>2, <1>7, <1>8 DEF SafeInv, PollInv
  <2>2. Beats(m, t, n)
    BY <1>6, <2>1 DEF SafeInv, PromiseInv
  <2> QED
    BY <2>1, <2>2 DEF Beats
<1>11. Len(l) >= 2
  BY <1>5, <1>9, <1>10
<1>12. PICK g : g = G[v].log
  OBVIOUS
<1>13. Same(l, g, Len(l)) /\ g[Len(l)].term = v /\ Len(l) <= Len(g)
  <2>1. Same(l, g, Len(l))
    BY <1>1, <1>7, <1>8, <1>11, <1>12, LastMatches
  <2>2. Len(l) \in 2..Len(l)
    BY <1>9, <1>11
  <2>3. g[Len(l)].term = v
    BY <1>1, <1>7, <1>9, <1>12, <2>2 DEF PeerInv, Matches
  <2> QED
    BY <2>1, <2>3 DEF Same
<1>14. Len(g) \in Nat /\ g # <<>>
  BY <1>1, <1>9, <1>12, <1>13, HistoryTypes
<1>15. CASE v = t
  <2>1. n <= Len(l)
    BY <1>10, <1>15
  <2> QED
    BY <1>7, <1>9, <1>12, <1>13, <1>14, <1>15, <2>1, SameShorter
<1>16. CASE v > t
  <2>1. Same(g, h, n)
    BY <1>1, <1>4, <1>5, <1>12, <1>14, <1>16 DEF CompleteInv
  <2>2. CASE n <= Len(l)
    BY <1>4, <1>7, <1>9, <1>13, <1>14, <2>1, <2>2, SameShorter, SameTrans
  \* Otherwise the leader of term v had an entry of an earlier term after
  \* one of its own.
  <2>3. CASE n > Len(l)
    <3>1. Len(l) \in 2..Len(g) /\ n \in 2..Len(g) /\ Len(l) <= n
      <4>1. n <= Len(g)
        BY <2>1 DEF Same
      <4> QED
        BY <1>9, <1>11, <1>14, <2>3, <4>1
    <3>2. g[n].term = v
      BY <1>1, <1>12, <1>13, <1>14, <3>1 DEF GoodHistory
    <3>3. g[n] = h[n]
      BY <2>1 DEF Same
    <3>4. h[n].term <= t /\ h[n].term \in Nat
      BY <1>5
    <3> QED
      BY <1>16, <3>2, <3>3, <3>4
  <2> QED
    BY <1>9, <2>2, <2>3
<1> QED
  BY <1>10, <1>15, <1>16

LEMMA SafeWin ==
    ASSUME TypeInv, TypeInv', VoteInv, NEW G, SafeInv(G), NEW s \in Server, ElectionWin(s)
    PROVE  \E K \in History : SafeInv(K)'
<1> USE DEF network, votes, appends, snaps
<1>1. G \in History /\ GoodHistory(G) /\ TypeOK /\ TypeOK' /\ PeerInv(G)
  BY DEF SafeInv, GoodHistory, TypeInv
<1>2. /\ campaign[s].pc = "polling" /\ state[s] = "Candidate"
      /\ Majority(Ballots(s, campaign[s].term)) /\ BecomeLeader(s)
      /\ campaign' = [campaign EXCEPT ![s] = Idle]
  BY DEF ElectionWin
<1>3. PICK t \in Nat : t = currentTerm[s]
  BY <1>1 DEF TypeOK
<1>4. Majority(Ballots(s, t)) /\ G[t].log = <<>>
  BY <1>2, <1>3, WinFresh
<1>5. GlobalLogLen(log[s]) = Len(log[s]) /\ Len(log[s]) \in Nat
  BY <1>1, PeerFacts
<1>6. PICK e : e = NoopEntry(Len(log[s]), t)
  OBVIOUS
<1>7. e \in Entry /\ e.term = t /\ e.cmd = Noop
  BY <1>5, <1>6 DEF Entry, NoopEntry
<1>8. PICK K : K = [G EXCEPT ![t] = [leader |-> s, log |-> Append(log[s], e)]]
  OBVIOUS
<1>9. Extends(G, K, s, e)
  BY <1>3, <1>4, <1>7, <1>8 DEF Extends
<1>10. Covers(G, s)
  BY <1>2, WinCovers
<1>11. LeaderAppends(G, s, e)
  <2>1. /\ log' = [log EXCEPT ![s] = Append(log[s], e)]
        /\ state' = [state EXCEPT ![s] = "Leader"]
    BY <1>2, <1>3, <1>5, <1>6 DEF BecomeLeader
  <2>2. campaign'[s].pc # "polling"
    BY <1>1, <1>2 DEF TypeOK, Idle
  <2>3. matchIndex' = [matchIndex EXCEPT ![s] =
                          [p \in Server |-> IF p = s THEN Len(log[s]) ELSE 0]]
    BY <1>2, <1>5 DEF BecomeLeader
  <2>4. /\ \A x \in Server : x # s => matchIndex'[x] = matchIndex[x]
        /\ matchIndex'[s][s] = Len(log[s])
        /\ \A p \in Server : p # s => matchIndex'[s][p] = 0
    BY <1>1, <2>3 DEF TypeOK
  <2>5. UNCHANGED <<currentTerm, snapshotIndex, commitIndex, lastApplied, voteReqs, voteReps,
                    appendReqs, appendAcks, snapReqs, snapReps, applied>>
    BY DEF ElectionWin
  <2> QED
    BY <1>2, <2>1, <2>2, <2>4, <2>5 DEF LeaderAppends
<1>12. K \in History
  BY <1>9, ExtendShape
<1>13. SafeInv(K)'
  BY <1>3, <1>4, <1>9, <1>10, <1>11, ExtendKeeps
<1> QED
  BY <1>12, <1>13

-----------------------------------------------------------------------------
(* The conditions of the theorems: nothing is snapshotted; no peer ever    *)
(* crashes.                                                                *)
NoSnapshots == \A s \in Server : MaxSnapshot[s] = 0
NoCrashes == \A s \in Server : MaxCrashes[s] = 0

(* The inductive invariant: there is a history that explains the state.    *)
HistoryInv == \E G \in History : SafeInv(G)

LEMMA SafeStep ==
    ASSUME Races = {}, NoSnapshots, TypeInv, TypeInv', VoteInv, HistoryInv, NoLateFirst,
           [Next]_vars
    PROVE  HistoryInv'
<1>1. PICK G \in History : SafeInv(G)
  BY DEF HistoryInv
<1> SUFFICES \E K \in History : SafeInv(K)'
  BY DEF HistoryInv
<1>2. CASE UNCHANGED vars
  <2> USE DEF vars, persistent, leaderVars, goroutines, network, votes, appends, snaps
  <2>1. TermsGrow
    BY <1>2, VoteTypes DEF TermsGrow, TypeInv
  <2>2. NoNewLeader /\ NoNewPoll
    BY <1>2 DEF NoNewLeader, NoNewPoll
  <2>3. SafeInv(G)'
    BY <1>1, <1>2, <2>1, <2>2, QuietKeeps
  <2> QED
    BY <1>1, <2>3
<1>3. CASE Next
  <2>1. PICK s \in Server :
          \/ (\/ TickerFire(s) \/ Election(s) \/ (\E m \in voteReqs : RequestVote(s, m)))
          \/ (\/ ElectionWin(s) \/ (\E c \in Submits[s] : Start(s, c)))
          \/ (\/ PollArmed(s) \/ ArmedWin(s) \/ CrashMidWin(s))
          \/ (\/ \E t \in live[s] : SyncEntries(s, t)
              \/ \E r \in appendAcks : AppendSuccess(s, r))
          \/ (\/ \E m \in appendReqs : AppendRefuse(s, m)
              \/ \E r \in appendNacks : BackUp(s, r))
          \/ (\E m \in appendReqs : AppendEntries(s, m))
          \/ (\/ \E r \in appendNacks : SendSnapshot(s, r)
              \/ \E r \in snapReps : SnapshotSent(s, r)
              \/ \E m \in snapReqs : InstallSnapshot(s, m)
              \/ \E e \in 1..MaxSnapshot[s] : Snapshot(s, e))
          \/ (\/ CommitCheck(s) \/ ApplyEntries(s) \/ Restart(s))
    BY <1>3, Zenon DEF Next
  <2>2. ASSUME TickerFire(s) \/ Election(s) \/ (\E m \in voteReqs : RequestVote(s, m))
        PROVE  SafeInv(G)'
    BY <1>1, <2>2, SafeTicker, SafeElection, SafeRequestVote
  <2>3. ASSUME ElectionWin(s) \/ (\E c \in Submits[s] : Start(s, c))
        PROVE  \E K \in History : SafeInv(K)'
    BY <1>1, <2>3, SafeWin, SafeStart
  <2>4. ASSUME PollArmed(s) \/ ArmedWin(s) \/ CrashMidWin(s)
        PROVE  FALSE
    BY <2>4 DEF PollArmed, ArmedWin, CrashMidWin, VoteInv
  <2>5. ASSUME \/ \E t \in live[s] : SyncEntries(s, t)
               \/ \E r \in appendAcks : AppendSuccess(s, r)
        PROVE  SafeInv(G)'
    BY <1>1, <2>5, SafeSync, SafeSuccess
  <2>6. ASSUME \/ \E m \in appendReqs : AppendRefuse(s, m)
               \/ \E r \in appendNacks : BackUp(s, r)
        PROVE  SafeInv(G)'
    BY <1>1, <2>6, SafeRefusals
  <2>7. ASSUME \E m \in appendReqs : AppendEntries(s, m)
        PROVE  SafeInv(G)'
    BY <1>1, <2>7, SafeAppend
  <2>8. ASSUME \/ \E r \in appendNacks : SendSnapshot(s, r)
               \/ \E r \in snapReps : SnapshotSent(s, r)
               \/ \E m \in snapReqs : InstallSnapshot(s, m)
               \/ \E e \in 1..MaxSnapshot[s] : Snapshot(s, e)
        PROVE  FALSE
    <3>1. snapReqs = {} /\ snapReps = {}
      BY <1>1 DEF SafeInv, MessageInv
    <3>2. 1..MaxSnapshot[s] = {}
      BY DEF NoSnapshots
    <3> QED
      BY <1>1, <2>8, <3>1, <3>2, NoSnapshotSent
  <2>9. ASSUME CommitCheck(s) \/ ApplyEntries(s) \/ Restart(s)
        PROVE  SafeInv(G)'
    BY <1>1, <2>9, SafeCommitCheck, SafeApplyEntries, SafeRestart
  <2> QED
    BY <1>1, <2>1, <2>2, <2>3, <2>4, <2>5, <2>6, <2>7, <2>8, <2>9, Zenon
<1> QED
  BY <1>2, <1>3

(* Without crashes lastApplied never falls below 1.                        *)
LEMMA AppliedStep ==
    ASSUME NoCrashes, NoSnapshots, TypeInv, HistoryInv, [Next]_vars,
           \A s \in Server : lastApplied[s] >= 1
    PROVE  \A s \in Server : lastApplied'[s] >= 1
<1> USE DEF vars, persistent, leaderVars, goroutines, network, votes, appends, snaps
<1>1. snapReqs = {}
  BY DEF HistoryInv, SafeInv, MessageInv
<1>2. \A s \in Server : crashes[s] \in Nat /\ MaxCrashes[s] = 0
  BY DEF TypeInv, TypeOK, NoCrashes
<1>3. ASSUME NEW s \in Server, ApplyEntries(s)
      PROVE  \A p \in Server : lastApplied'[p] >= 1
  <2>1. lastApplied' = [lastApplied EXCEPT ![s] = ApplyUpTo(s)] /\ lastApplied[s] < ApplyUpTo(s)
    BY <1>3 DEF ApplyEntries
  <2>2. ApplyUpTo(s) \in Int /\ lastApplied \in [Server -> Nat]
    <3>1. commitIndex[s] \in Nat /\ lastApplied \in [Server -> Nat]
      BY DEF TypeInv, TypeOK
    <3>2. Len(log[s]) \in Nat /\ log[s][1].index = 0
      BY PeerFacts DEF HistoryInv, SafeInv
    <3>3. LastIndex(log[s]) \in Int
      BY <3>2 DEF LastIndex, GlobalLogLen
    <3> QED
      BY <3>1, <3>3 DEF ApplyUpTo
  <2> QED
    BY <2>1, <2>2
<1>4. ASSUME NEW s \in Server, Restart(s) \/ CrashMidWin(s) PROVE FALSE
  BY <1>2, <1>4 DEF Restart, CrashMidWin, Reboot
<1>5. CASE UNCHANGED lastApplied
  BY <1>5
<1>6. CASE Next
  <2>1. PICK s \in Server :
          \/ ApplyEntries(s)
          \/ (Restart(s) \/ CrashMidWin(s))
          \/ (\E m \in snapReqs : InstallSnapshot(s, m))
          \/ (\/ TickerFire(s) \/ Election(s) \/ (\E m \in voteReqs : RequestVote(s, m))
              \/ ElectionWin(s) \/ PollArmed(s) \/ ArmedWin(s))
          \/ (\/ \E t \in live[s] : SyncEntries(s, t)
              \/ \E c \in Submits[s] : Start(s, c)
              \/ \E m \in appendReqs : AppendRefuse(s, m)
              \/ \E m \in appendReqs : AppendEntries(s, m)
              \/ \E r \in appendAcks : AppendSuccess(s, r))
          \/ (\/ \E r \in appendNacks : BackUp(s, r)
              \/ \E r \in appendNacks : SendSnapshot(s, r)
              \/ \E r \in snapReps : SnapshotSent(s, r)
              \/ CommitCheck(s)
              \/ \E e \in 1..MaxSnapshot[s] : Snapshot(s, e))
    BY <1>6, Zenon DEF Next
  <2>2. CASE \/ TickerFire(s) \/ Election(s) \/ (\E m \in voteReqs : RequestVote(s, m))
             \/ ElectionWin(s) \/ PollArmed(s) \/ ArmedWin(s)
    BY <1>5, <2>2 DEF TickerFire, Election, RequestVote, ElectionWin, PollArmed, ArmedWin
  <2>3. CASE \/ \E t \in live[s] : SyncEntries(s, t)
             \/ \E c \in Submits[s] : Start(s, c)
             \/ \E m \in appendReqs : AppendRefuse(s, m)
             \/ \E m \in appendReqs : AppendEntries(s, m)
             \/ \E r \in appendAcks : AppendSuccess(s, r)
    BY <1>5, <2>3 DEF SyncEntries, Start, AppendRefuse, AppendEntries, AppendSuccess
  <2>4. CASE \/ \E r \in appendNacks : BackUp(s, r)
             \/ \E r \in appendNacks : SendSnapshot(s, r)
             \/ \E r \in snapReps : SnapshotSent(s, r)
             \/ CommitCheck(s)
             \/ \E e \in 1..MaxSnapshot[s] : Snapshot(s, e)
    BY <1>5, <2>4 DEF BackUp, SendSnapshot, SnapshotSent, CommitCheck, Snapshot
  <2> QED
    BY <1>1, <1>3, <1>4, <2>1, <2>2, <2>3, <2>4
<1> QED
  BY <1>5, <1>6

(* Every reachable state has such a history: what AppendEntries accepted,  *)
(* commitCheck counted and applyEntries handed over all come from the logs *)
(* of the terms' leaders.                                                  *)
THEOREM HistoryExists ==
    Races = {} /\ NoSnapshots => (Spec /\ []NoLateFirst => [](TypeInv /\ HistoryInv))
<1> SUFFICES ASSUME Races = {}, NoSnapshots
             PROVE  Spec /\ []NoLateFirst => [](TypeInv /\ HistoryInv)
  OBVIOUS
<1> DEFINE Inv == TypeInv /\ VoteInv /\ HistoryInv
<1>1. Init => Inv
  BY InitTypeInv, InitVoteInv, InitSafe DEF HistoryInv
<1>2. Inv /\ NoLateFirst /\ [Next]_vars => Inv'
  <2> SUFFICES ASSUME Inv, NoLateFirst, [Next]_vars PROVE Inv'
    OBVIOUS
  <2>1. TypeInv'
    BY TypeStep
  <2>2. VoteInv'
    BY <2>1, VoteStep DEF TypeInv
  <2>3. HistoryInv'
    BY <2>1, SafeStep
  <2> QED
    BY <2>1, <2>2, <2>3
<1> QED
  BY <1>1, <1>2, PTL DEF Spec

(* When no peer crashes, lastApplied is 1 or more from Make on             *)
(* (raft.go:1110), and the history exists without any further condition.   *)
THEOREM HistoryExistsNoCrash ==
    Races = {} /\ NoSnapshots /\ NoCrashes => (Spec => [](TypeInv /\ HistoryInv))
<1> SUFFICES ASSUME Races = {}, NoSnapshots, NoCrashes
             PROVE  Spec => [](TypeInv /\ HistoryInv)
  OBVIOUS
<1> DEFINE Inv == TypeInv /\ VoteInv /\ HistoryInv /\ \A s \in Server : lastApplied[s] >= 1
<1>1. Init => Inv
  <2>1. Init => \A s \in Server : lastApplied[s] >= 1
    BY DEF Init
  <2> QED
    BY <2>1, InitTypeInv, InitVoteInv, InitSafe DEF HistoryInv
<1>2. Inv /\ [Next]_vars => Inv'
  <2> SUFFICES ASSUME Inv, [Next]_vars PROVE Inv'
    OBVIOUS
  <2>1. TypeInv'
    BY TypeStep
  <2>2. VoteInv'
    BY <2>1, VoteStep DEF TypeInv
  <2>3. NoLateFirst
    BY DEF NoLateFirst
  <2>4. HistoryInv'
    BY <2>1, <2>3, SafeStep
  <2>5. \A s \in Server : lastApplied'[s] >= 1
    BY AppliedStep
  <2> QED
    BY <2>1, <2>2, <2>4, <2>5
<1> QED
  BY <1>1, <1>2, PTL DEF Spec

LEMMA HistorySafe ==
    TypeInv /\ HistoryInv => LeaderCompleteness /\ MatchIndexSound /\ AppliedAgree
BY SafeComplete, SafeMatch, SafeApplied DEF HistoryInv

(* Leader completeness: a peer that wins an election has every entry that  *)
(* a peer of its term or an earlier one takes for committed, so that       *)
(* syncEntries never replaces one.                                         *)
THEOREM LeadersComplete ==
    Races = {} /\ NoSnapshots => (Spec /\ []NoLateFirst => []LeaderCompleteness)
BY HistoryExists, HistorySafe, PTL

(* What a leader counts as replicated is in the followers' logs: a stale   *)
(* or repeated acknowledgement never raises matchIndex too far.            *)
THEOREM MatchesSound ==
    Races = {} /\ NoSnapshots => (Spec /\ []NoLateFirst => []MatchIndexSound)
BY HistoryExists, HistorySafe, PTL

(* State machine safety: no two services are handed different commands at  *)
(* an index by applyEntries.                                               *)
THEOREM ServicesAgree ==
    Races = {} /\ NoSnapshots => (Spec /\ []NoLateFirst => []AppliedAgree)
BY HistoryExists, HistorySafe, PTL

(* The same when no peer crashes, whatever is lost, repeated or reordered. *)
THEOREM SafeWithoutCrashes ==
    Races = {} /\ NoSnapshots /\ NoCrashes =>
        (Spec => [](LeaderCompleteness /\ MatchIndexSound /\ AppliedAgree))
BY HistoryExistsNoCrash, HistorySafe, PTL
=============================================================================
