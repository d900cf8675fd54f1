----------------------------- MODULE MCShardKV ------------------------------
(* Instances of ShardKV for TLC. *)
EXTENDS ShardKV, TLC

CONSTANTS a, x, y, c1, c2, k1, k2

get == [type |-> "Get", key |-> k1, val |-> 0]
append(v) == [type |-> "Append", key |-> k1, val |-> v]

(* Two groups, of one and of two servers, and a shard that goes there and  *)
(* comes back; a clerk that appends twice, and one that reads.             *)
TwoGroups == a :> 1 @@ x :> 2 @@ y :> 2
OneShard == k1 :> 1
ThereAndBack == <<<<1>>, <<2>>, <<1>>>>
Calls == c1 :> <<append(1), append(2)>> @@ c2 :> <<get>>
OneChange == 1 :> 0 @@ 2 :> 2
CrashX == [s \in Server |-> IF s = x THEN 1 ELSE 0]
MidMove == 1 :> {} @@ 2 :> {4}

(* Three groups of one server each, and two shards that the third gets     *)
(* from the others at once.                                                *)
ThreeGroups == a :> 1 @@ x :> 2 @@ y :> 3
TwoShards == k1 :> 1 @@ k2 :> 2
Together == <<<<1, 2>>, <<3, 3>>>>
OneAppend == c1 :> <<append(1)>>
NoChange == [g \in Group |-> 0]
NoCrash == [s \in Server |-> 0]
NoSnapshot == [g \in Group |-> {}]

Crashes == crashes[a] + crashes[x] + crashes[y]
Troubles == Crashes + timeouts + lates

(* A configuration is made when everybody has the one before; a deposed    *)
(* leader hears of it before its successor applies anything of its own,    *)
(* and only its deletions go on longer; the first append ends before the   *)
(* shard is to go, and the other calls begin then.                         *)
Fresh(g) == Cardinality({i \in DOMAIN record[g] : record[g][i] = term[g]})

Paced ==
    /\ \A g \in Group : published <= tip[g].config + 1
    /\ published > 0 => \A g \in Group : term[g] > 0
    /\ IF published < 2 THEN called[c1] <= 1 /\ called[c2] = 0
                        ELSE called[c1] > 1 \/ call[c1] = Idle
    /\ \A s \in Server : leader[GroupOf[s]] # s /\ Fresh(GroupOf[s]) > 0 =>
          /\ s \notin believes
          /\ poll[s].at \in {"idle", "move"}
          /\ poll[s].at = "move" => poll[s].deleting

(* One thing goes wrong, while the shard goes there: a message is late, or *)
(* lost; a leader is deposed, or crashes.  Then there is the second append *)
(* or the read, and both only around a read that a deposed leader may      *)
(* have taken in.                                                          *)
OneCall == called[c1] + called[c2] <= 2
ReadsOn == published = 2 /\ call[c2] # Idle
Calm == Crashes = 0 /\ term[2] <= 1 /\ timeouts + lates <= 1 /\ (timeouts + lates = 1 => OneCall)
Deposed == Troubles = 0 /\ term[2] <= 2 /\ (OneCall \/ ReadsOn)
Crashed == Troubles = 1 /\ Crashes = 1 /\ term[2] <= 2 /\ OneCall /\ published = 2
Bounded == Paced /\ (Calm \/ Deposed \/ Crashed)

(* A follower's state shows only when it leads, or when a handler waits:   *)
(* it may as well apply entries, or get a snapshot, then.  The leader      *)
(* changes under one call at most.                                         *)
Waits(s) ==
    \/ s \in believes
    \/ \E c \in Clerk : call[c].at = "waiting" /\ call[c].wait.server = s
    \/ poll[s].at \in {"update", "change"}
    \/ poll[s].at = "move" /\ ~poll[s].deleting

Scheduled ==
    /\ \A s \in Server :
          LET g == GroupOf[s]
          IN  /\ lastApplied'[s] > lastApplied[s] => Waits(s)
              /\ crashes'[s] > crashes[s] => leader[g] = s /\ Troubles = 0
              /\ term[g] = 0 => leader'[g] # y
              /\ term'[g] > term[g] =>
                    (published \in {0, 2} /\ OneCall) \/ leader[g] = NoServer
              /\ snapshot'[s] # snapshot[s] => lastApplied'[s] # lastApplied[s] \/ Crashes > 0
              /\ \A i \in SnapshotAt[g] :
                    lastApplied[s] < i /\ lastApplied'[s] = i => snapshot'[s].index = i
    /\ Troubles' > Troubles => published = 2
    \* after a change of leader, a call begins beside a read that is taken in
    /\ term[2] = 2 /\ called'[c1] > called[c1] => called[c2] = 0 \/ call[c2].at = "waiting"
    /\ term[2] = 2 /\ called'[c2] > called[c2] => called[c1] < 2

=============================================================================
