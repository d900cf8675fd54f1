--------------------------- MODULE MCShardCtrler ----------------------------
(* Instances of ShardCtrler for TLC. *)
EXTENDS ShardCtrler

(* Nothing depends on more than the latest configuration, its number       *)
(* included, and the assignment before it.                                 *)
LatestChange ==
    <<Latest, IF Len(configs) > 1 THEN configs[Len(configs) - 1].shards ELSE NoGroup>>

=============================================================================
