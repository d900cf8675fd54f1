------------------------------- MODULE MCRaft -------------------------------
(* Instances of Raft for TLC: three peers, of which s1 and s2 (and s3 in    *)
(* the runs about elections) get to lead; the command of an entry tells who *)
(* proposed it.                                                             *)
EXTENDS Raft, TLC

CONSTANTS s1, s2, s3, c1, c2

Servers3 == {s1, s2, s3}
Symmetry3 == Permutations(Servers3)
\* where only s1 leads
LeaderSymmetry == Permutations({s2, s3}) \cup Permutations({c1, c2})

(* What the services submit: a command of its own each, or nothing.        *)
Submits3 == s1 :> {c1} @@ s2 :> {c2} @@ s3 :> {}
FirstSubmits == s1 :> {c1, c2} @@ s2 :> {} @@ s3 :> {}
NoSubmits == [s \in Servers3 |-> {}]

(* The tickers that fire: of s1, then s2, then s1 again; or of every peer  *)
(* in two terms.                                                           *)
AndBack == {<<s1, 2>>, <<s2, 3>>, <<s1, 4>>}
Anyone == Servers3 \X {2, 3}

(* Different AppendEntries requests per session of term 1, 2, 3, 4.        *)
LongFirst == <<0, 4, 2, 2>>
Rising == <<0, 2, 3, 3>>
NoAppends == <<0, 0, 0, 0>>

(* Crashes, or the highest index to snapshot at, per peer.                 *)
None == [s \in Servers3 |-> 0]
Each == [s \in Servers3 |-> 1]
First == [None EXCEPT ![s1] = 1]
Second == [None EXCEPT ![s1] = 2]

(* Every second ballot is lost (it decides nothing with three peers).      *)
OneBallot == \A r, q \in voteReps : r.term = q.term => r = q

(* ... and so is every refused AppendEntries after the second.              *)
FewRefusals == OneBallot /\ Cardinality(appendNacks) <= 2

(* Two courses of one instance: elections, in which nobody gets to send an *)
(* entry or to take a command; and s1 alone asks for votes, once, and      *)
(* leads undisturbed.                                                      *)
Electing ==
    /\ appendReqs = {}
    /\ \A s \in Servers3 : \A i \in DOMAIN log[s] : log[s][i].cmd = Noop
OnlyFirstLeads ==
    /\ FewRefusals
    /\ \A s \in Servers3 : currentTerm[s] <= 2 /\ crashes[s] = 0
    /\ \A s \in Servers3 \ {s1} : state[s] = "Follower" /\ campaign[s].pc = "idle"
ElectOrLead == Electing \/ OnlyFirstLeads

(* Three courses that a change of leader can take: s2 takes over for good  *)
(* while entries of s1 are in flight; s1 crashes and restarts before or    *)
(* after that, s2 has no command of its own and refusals are lost; s1      *)
(* sends nothing, s2 a little, and s1 takes over again.                    *)
SentIn(t) == Cardinality({m \in appendReqs : m.session = t})
SecondLeads == currentTerm[s1] <= 3 /\ crashes[s1] = 0 /\ SentIn(3) <= 2
CrashesOnce ==
    /\ currentTerm[s1] <= 3 /\ SentIn(3) <= 2 /\ appendNacks = {}
    /\ \A i \in DOMAIN log[s2] : log[s2][i].cmd # c2
FirstReturns == crashes[s1] = 0 /\ SentIn(2) = 0 /\ SentIn(3) <= 2
Courses ==
    /\ OneBallot
    /\ SecondLeads \/ CrashesOnce \/ FirstReturns
    \* an armed poll acts before anybody campaigns again
    /\ (\E s \in Servers3 : armed[s]) =>
           \A s \in Servers3 : currentTerm[s] <= 2 /\ campaign[s].pc = "idle" /\ crashes[s] = 0

=============================================================================
