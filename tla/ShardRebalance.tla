--------------------------- MODULE ShardRebalance ---------------------------
(***************************************************************************)
(* ShardCtrler.rebalance, without its loop: how it sets out, what one turn *)
(* of the loop does, when it stops and what it leaves.  The groups come in *)
(* the order in which Go happens to iterate over a map.                    *)
(***************************************************************************)
EXTENDS Integers, Sequences, SequencesExt

CONSTANT NShards

Shard == 0..(NShards - 1)

Ascending(S) == SetToSortSeq(S, <)

\* Mutant: every shard is up for redistribution
AllOrphans(shards, groups) == Shard

(* Shards of no group, or of a group that is no longer there *)
Orphans(shards, groups) == {n \in Shard : shards[n] \notin groups}

(* The shards each group keeps, and the orphans, by number.  order lists   *)
(* the groups of the new configuration.                                    *)
Gather(shards, order) ==
    LET orphans == Orphans(shards, Range(order))
    IN  [gs |-> [i \in DOMAIN order |->
                   [gid |-> order[i],
                    shards |-> Ascending({n \in Shard \ orphans : shards[n] = order[i]})]],
         orphans |-> Ascending(orphans)]

\* Mutant: the groups are left in the order of the map
Unsorted(b) == b

SortedByGid(b) == [b EXCEPT !.gs = SortSeq(@, LAMBDA g, h : g.gid < h.gid)]

(* The walk keeps the last of the groups with the fewest, and of those     *)
(* with the most shards.                                                   *)
MinIndex(gs) ==
    Max({i \in DOMAIN gs : \A j \in DOMAIN gs : Len(gs[i].shards) <= Len(gs[j].shards)})

MaxIndex(gs) ==
    Max({i \in DOMAIN gs : \A j \in DOMAIN gs : Len(gs[i].shards) >= Len(gs[j].shards)})

Spread(gs) == Len(gs[MaxIndex(gs)].shards) - Len(gs[MinIndex(gs)].shards)

\* Mutant: one too many
StopEarly(b) == Spread(b.gs) <= 2 /\ b.orphans = <<>>

Stop(b) == Spread(b.gs) <= 1 /\ b.orphans = <<>>

(* One turn: the last orphan goes to the group with the fewest shards;     *)
(* when there is none, the last shard of the group with the most.          *)
AdoptOrphan(b) ==
    [gs |-> [b.gs EXCEPT ![MinIndex(b.gs)].shards = Append(@, Last(b.orphans))],
     orphans |-> Front(b.orphans)]

MoveOne(b) ==
    LET moved == Last(b.gs[MaxIndex(b.gs)].shards)
    IN  [b EXCEPT !.gs[MaxIndex(b.gs)].shards = Front(@),
                  !.gs[MinIndex(b.gs)].shards = Append(@, moved)]

Turn(b) == IF b.orphans # <<>> THEN AdoptOrphan(b) ELSE MoveOne(b)

NewShards(b) ==
    [n \in Shard |->
        (CHOOSE g \in Range(b.gs) : n \in Range(g.shards)).gid]

NoGroup == [n \in Shard |-> 0]

=============================================================================
