---------------------------- MODULE ShardCtrler -----------------------------
(***************************************************************************)
(* The configurations of the shard controller: what Join, Leave and Move   *)
(* do when they are applied (shardctrler/server.go: applyOp, rebalance).   *)
(* Every replica applies the same operations; they differ in the order in  *)
(* which they iterate over the map of groups.  The list of servers of a    *)
(* group is left out: nothing depends on it.                               *)
(***************************************************************************)
EXTENDS ShardRebalance, FiniteSets

CONSTANTS
    Gid,          \* the groups, positive numbers
    MaxConfigs    \* bound: configurations made

ASSUME ShardCtrlerAssumption ==
    NShards \in Nat \ {0} /\ Gid \subseteq Nat \ {0} /\ MaxConfigs \in Nat

VARIABLE configs  \* sequence; configs[n + 1] is configuration n

vars == <<configs>>

Latest == Last(configs)

RECURSIVE Balance(_)
Balance(b) == IF Stop(b) THEN b ELSE Balance(Turn(b))

(* rebalance, the groups in the given order *)
RebalanceIn(shards, order) ==
    IF order = <<>> THEN NoGroup
    ELSE NewShards(Balance(SortedByGid(Gather(shards, order))))

Rebalance(shards, groups) == RebalanceIn(shards, Ascending(groups))

(* StartServer: configuration 0 *)
Init == configs = <<[num |-> 0, shards |-> NoGroup, groups |-> {}, op |-> "Init"]>>

NewConfig(groups, shards, op) ==
    /\ Len(configs) < MaxConfigs
    /\ configs' = Append(configs, [num |-> Latest.num + 1, shards |-> shards,
                                   groups |-> groups, op |-> op])

(* applyOp *)
Join(gids) ==
    LET groups == Latest.groups \cup gids
    IN  NewConfig(groups, Rebalance(Latest.shards, groups), "Join")

Leave(gids) ==
    LET groups == Latest.groups \ gids
    IN  NewConfig(groups, Rebalance(Latest.shards, groups), "Leave")

Move(shard, gid) ==
    NewConfig(Latest.groups, [Latest.shards EXCEPT ![shard] = gid], "Move")

Next ==
    \/ \E gids \in SUBSET Gid \ {{}} : Join(gids) \/ Leave(gids)
    \/ \E shard \in Shard, gid \in Gid : Move(shard, gid)

Spec == Init /\ [][Next]_vars

-----------------------------------------------------------------------------
(* Properties *)

Count(shards, g) == Cardinality({n \in Shard : shards[n] = g})

IsBalanced(shards, groups) ==
    /\ \A n \in Shard : shards[n] \in groups
    /\ \A g, h \in groups : Count(shards, g) <= Count(shards, h) + 1

Rebalanced == Latest.op \in {"Join", "Leave"}

(* After Join and Leave every shard has a group that exists, and no group  *)
(* has two more than another, whatever Joins, Leaves and Moves, to groups  *)
(* that do not exist too, went before.                                     *)
Balanced ==
    Rebalanced => IF Latest.groups = {} THEN Latest.shards = NoGroup
                  ELSE IsBalanced(Latest.shards, Latest.groups)

Moved(old, new) == Cardinality({n \in Shard : old[n] # new[n]})

(* Join and Leave move no more shards than any balanced assignment must.   *)
MovesFewest ==
    Rebalanced /\ Latest.groups # {} =>
        LET old == configs[Len(configs) - 1].shards
        IN  \A other \in [Shard -> Latest.groups] :
                IsBalanced(other, Latest.groups) =>
                    Moved(old, Latest.shards) <= Moved(old, other)

(* No group both takes shards from other groups and gives shards away when *)
(* a configuration changes.  Groups need this: one that takes shards       *)
(* (MoveShards) does not adopt the configuration before it has them, and   *)
(* nobody gives a shard away before it has adopted the configuration       *)
(* (RequestMapAndSession), so two groups that took from each other would   *)
(* wait for each other for ever.                                           *)
NoCircularWait ==
    Len(configs) > 1 =>
        LET old == configs[Len(configs) - 1].shards
            Takes(g) == \E n \in Shard : Latest.shards[n] = g /\ old[n] \notin {g, 0}
            Gives(g) == \E n \in Shard : old[n] = g /\ Latest.shards[n] # g
        IN  \A g \in Gid : ~(Takes(g) /\ Gives(g))

(* Every replica comes to the same assignment, however it iterates over    *)
(* the map of groups.                                                      *)
ReplicasAgree ==
    Rebalanced =>
        LET old == configs[Len(configs) - 1].shards
        IN  \A order \in SetToSeqs(Latest.groups) :
                RebalanceIn(old, order) = Latest.shards

=============================================================================
