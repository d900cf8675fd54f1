--------------------------- MODULE MCRaftRestart ---------------------------
(* One behaviour of Raft with five peers, in which a request that was      *)
(* delayed reaches a peer after its restart.  s2 leads first and gets its  *)
(* no-op and c2 to p only; s1 leads next and gets c1 to p and s4, a        *)
(* majority with itself; p restarts, takes s1's first request and leads    *)
(* with the votes of s2 and s5.                                            *)
EXTENDS Raft, TLC

CONSTANTS s1, s2, p, s4, s5, c1, c2

Servers5 == {s1, s2, p, s4, s5}
Submits5 == s1 :> {c1} @@ s2 :> {c2} @@ p :> {c2} @@ s4 :> {} @@ s5 :> {}
Tickers == {<<s2, 2>>, <<s1, 2>>, <<s1, 3>>, <<p, 4>>}
Requests == <<0, 4, 12, 16>>
NoPeer == [s \in Servers5 |-> 0]
OnlyP == [NoPeer EXCEPT ![p] = 1]

VARIABLE step  \* how far the behaviour has got

(* Steps of Raft with the message that is handled named by its sender, and *)
(* for a request also by the index before its entries and their number.    *)
Votes(s, from) ==
    \E m \in voteReqs : m.from = from /\ m.term = currentTerm[from] /\ RequestVote(s, m)
Appends(s, from, prev, n) ==
    \E m \in appendReqs :
        m.from = from /\ m.prev = prev /\ Len(m.entries) = n /\ AppendEntries(s, m)
Hears(s, from) == \E r \in appendAcks : r.from = from /\ AppendSuccess(s, r)
BacksUp(s, from) == \E r \in appendNacks : r.from = from /\ BackUp(s, r)

(* The election of s in the term it is in, with two more votes.            *)
Elected(n, s, v, w) ==
    \/ step = n /\ TickerFire(s)
    \/ step = n + 1 /\ Election(s)
    \/ step = n + 2 /\ Votes(v, s)
    \/ step = n + 3 /\ Votes(w, s)
    \/ step = n + 4 /\ ElectionWin(s)

SecondPeerLeads ==
    \/ Elected(0, s2, s4, s5)
    \/ step = 5 /\ Start(s2, c2)
    \/ step = 6 /\ SyncEntries(s2, 2)
    \/ step = 7 /\ Appends(p, s2, 0, 2)

(* s1 campaigns in vain in term 2.  Its first request to p (from index 1   *)
(* on) is refused, as p takes index 1 for applied, and is delivered again  *)
(* later; the next one (from index 2 on) is taken and acknowledged.        *)
FirstPeerLeads ==
    \/ step = 8 /\ TickerFire(s1)
    \/ step = 9 /\ Election(s1)
    \/ Elected(10, s1, s4, s5)
    \/ step = 15 /\ SyncEntries(s1, 3)
    \/ step = 16 /\ Appends(p, s1, 0, 1)
    \/ step = 17 /\ BacksUp(s1, p)
    \/ step = 18 /\ Start(s1, c1)
    \/ step = 19 /\ SyncEntries(s1, 3)
    \/ step = 20 /\ Appends(p, s1, 1, 1)
    \/ step = 21 /\ Appends(s4, s1, 0, 2)
    \/ step = 22 /\ Hears(s1, p)
    \/ step = 23 /\ Hears(s1, s4)
    \/ step = 24 /\ CommitCheck(s1)
    \/ step = 25 /\ ApplyEntries(s1)

(* p no longer has c1 once it has taken that first request.                *)
Restarts ==
    \/ step = 26 /\ Restart(p)
    \/ step = 27 /\ Appends(p, s1, 0, 1)

RestartedPeerLeads ==
    \/ Elected(28, p, s2, s5)
    \/ step = 33 /\ Start(p, c2)
    \/ step = 34 /\ SyncEntries(p, 4)
    \/ step = 35 /\ Appends(s2, p, 1, 2)
    \/ step = 36 /\ Appends(s5, p, 1, 2)
    \/ step = 37 /\ BacksUp(p, s5)
    \/ step = 38 /\ SyncEntries(p, 4)
    \/ step = 39 /\ Appends(s5, p, 0, 3)
    \/ step = 40 /\ Hears(p, s2)
    \/ step = 41 /\ Hears(p, s5)
    \/ step = 42 /\ CommitCheck(p)
    \/ step = 43 /\ ApplyEntries(p)

CourseInit == Init /\ step = 0
CourseNext ==
    /\ SecondPeerLeads \/ FirstPeerLeads \/ Restarts \/ RestartedPeerLeads
    /\ step' = step + 1
CourseSpec == CourseInit /\ [][CourseNext]_<<vars, step>>

=============================================================================
