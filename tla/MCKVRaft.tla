------------------------------ MODULE MCKVRaft ------------------------------
(* Instances of KVRaft for TLC. *)
EXTENDS KVRaft, TLC

CONSTANTS s1, s2, c1, c2, k1

get == [type |-> "Get", key |-> k1, val |-> 0]
put(v) == [type |-> "Put", key |-> k1, val |-> v]
append(v) == [type |-> "Append", key |-> k1, val |-> v]

TwoAppends == c1 :> <<append(1), append(2)>>
WritesAndRead == c1 :> <<append(1), put(2)>> @@ c2 :> <<get>>

(* Only the clerk with a single operation has late requests.  Either there *)
(* are two clerks, or snapshots and restarts.                              *)
LateOnlySecond == \A r \in late : r.op.ck = c2
NoSnapshots == \A s \in Server : snapshot[s].index = 0
Courses ==
    /\ LateOnlySecond
    /\ (NoSnapshots /\ crashes = 0) \/ called[c2] = 0

Symmetry == Permutations(Server)

=============================================================================
